--------------------------- MODULE DecimalDivProofs ---------------------------
(***************************************************************************)
(* What decimal_div() and decimal_mod() answer, for any radix, words and   *)
(* buffers of any length and any scale_incr: Knuth's algorithm D, guess,   *)
(* correction and subtraction, turn by turn, and what is made of its       *)
(* words.  With that, the type of every decimal a program can reach, and   *)
(* so what the other operations do along every program.                    *)
(***************************************************************************)
EXTENDS DecimalProofs

-----------------------------------------------------------------------------
(* The guess of a word.                                                    *)

(* Where a product is less than one with the same factor.                  *)
LEMMA Smaller ==
    ASSUME NEW a \in Int, NEW b \in Int, NEW c \in Nat \ {0}, a * c < (b + 1) * c
    PROVE  a <= b
<1>1. PICK d \in Int : d = b + 1
  OBVIOUS
<1>2. a * c < d * c
  BY <1>1
<1>3. a < d
  BY <1>2, MulOrder
<1> QED
  BY <1>1, <1>3

(* A quotient of two numbers that were multiplied by n and cut to the same *)
(* place: it is not less than the exact one, and two larger at most if the *)
(* divisor is half of the place or more.                                   *)
LEMMA Estimate ==
    ASSUME NEW B \in Nat \ {0}, NEW n \in Nat \ {0}, NEW V \in Nat \ {0}, NEW X \in Nat,
           NEW M \in Nat \ {0}, NEW N \in Nat,
           M * B <= n * V, n * V < (M + 1) * B, N * B <= n * X, n * X < (N + 1) * B,
           NEW g \in Nat, g * V <= X, X < (g + 1) * V, NEW G \in Int, G = N \div M
    PROVE  /\ g <= G
           /\ g + 1 < B /\ B <= 2 * M + 1 => G <= g + 2
<1>1. N = M * G + (N % M) /\ N % M \in 0 .. M - 1
  BY Division
<1>2. PICK GM \in Int, r \in Int : GM = G * M /\ r = N % M /\ N = GM + r /\ 0 <= r /\ r < M
  BY <1>1
<1>3. PICK nX \in Nat, nV \in Nat, gV \in Nat, NB \in Nat, MB \in Nat, gM \in Nat :
        nX = n * X /\ nV = n * V /\ gV = g * V /\ NB = N * B /\ MB = M * B /\ gM = g * M
  OBVIOUS
<1>4. g <= G
  <2>1. g * MB <= g * nV
    BY <1>3, MulMonotonic
  <2>2. n * gV <= nX
    <3>1. gV * n <= X * n
      BY <1>3, MulMonotonic
    <3> QED
      BY <1>3, <3>1
  <2>3. g * nV = n * gV
    BY <1>3
  <2>4. gM * B = g * MB
    BY <1>3
  <2>5. gM * B < (N + 1) * B
    BY <1>3, <2>1, <2>2, <2>3, <2>4
  <2>6. gM <= N
    BY <2>5, Smaller
  <2>7. g * M < (G + 1) * M
    BY <1>2, <1>3, <2>6
  <2> QED
    BY <2>7, Smaller
<1>5. ASSUME g + 1 < B, B <= 2 * M + 1 PROVE G <= g + 2
  <2>1. PICK h \in Nat \ {0}, hV \in Nat, hM \in Nat : h = g + 1 /\ hV = h * V /\ hM = h * M
    OBVIOUS
  <2>2. nX < n * hV
    <3>1. X * n < hV * n
      BY <2>1, MulOrder
    <3> QED
      BY <1>3, <3>1
  <2>3. h * nV <= h * ((M + 1) * B)
    <3>1. nV * h <= ((M + 1) * B) * h
      BY <1>3, MulMonotonic
    <3> QED
      BY <3>1
  <2>4. n * hV = h * nV
    BY <1>3, <2>1
  <2>5. h * ((M + 1) * B) = (hM + h) * B
    BY <2>1
  <2>6. NB < (hM + h) * B
    BY <1>3, <2>2, <2>3, <2>4, <2>5
  <2>7. N < hM + h
    BY <1>3, <2>6, MulOrder
  <2>8. GM < hM + 2 * M + 1
    BY <1>2, <1>5, <2>1, <2>7
  <2>9. hM + 2 * M + 1 <= (h + 2) * M + M
    BY <2>1
  <2>10. G * M < ((h + 1) + 1) * M
    <3>1. h <= 2 * M /\ N < hM + 2 * M
      BY <1>5, <2>1, <2>7
    <3>2. ((h + 1) + 1) * M = hM + 2 * M
      BY <2>1
    <3> QED
      BY <1>2, <3>1, <3>2
  <2>11. G <= h + 1
    BY <2>1, <2>10, Smaller
  <2> QED
    BY <2>1, <2>11
<1> QED
  BY <1>4, <1>5

(* D3 multiplies divisor and dividend by the most that keeps the first     *)
(* word of the divisor one; that word is then half of the base or more.    *)
NormalWord(n, u, B) == n \in Nat \ {0} /\ n * u \in Nat \ {0} /\ n <= B /\ B <= 2 * (n * u) + 1

LEMMA Normal ==
    ASSUME NEW B \in Nat \ {0}, NEW u \in Nat \ {0}, u < B, NEW n, n = B \div (u + 1)
    PROVE  NormalWord(n, u, B)
<1>1. PICK m \in Nat \ {0} : m = u + 1 /\ n = B \div m
  OBVIOUS
<1>2. n \in Int /\ B = m * n + (B % m) /\ B % m \in 0 .. m - 1
  <2>1. B \div m \in Int /\ B = m * (B \div m) + (B % m) /\ B % m \in 0 .. m - 1
    BY Division
  <2> QED
    BY <1>1, <2>1
<1>3. PICK k \in Int, r \in Int, mk \in Int, uk \in Int :
        /\ k = n /\ r = B % m /\ mk = m * k /\ uk = k * u
        /\ B = mk + r /\ 0 <= r /\ r < m
  BY <1>2
<1>4. mk = uk + k
  BY <1>1, <1>3
<1>5. k >= 1
  <2>1. 0 * m = 0
    OBVIOUS
  <2>2. 0 * m < k * m
    BY <1>1, <1>3, <2>1
  <2> QED
    BY <2>2, MulOrder
<1>6. uk >= k /\ uk >= u
  <2>1. 1 * k <= u * k
    BY <1>5, MulMonotonic
  <2>2. 1 * u <= k * u
    BY <1>5, MulMonotonic
  <2> QED
    BY <1>3, <2>1, <2>2
<1>7. B <= 2 * uk + 1
  <2>1. (k - 1) * (u - 1) >= 0
    <3>1. PICK c \in Nat, d \in Nat : c = k - 1 /\ d = u - 1
      BY <1>5
    <3> QED
      BY <3>1
  <2>2. (k - 1) * (u - 1) = uk - k - u + 1
    BY <1>3
  <2> QED
    BY <1>1, <1>3, <1>4, <2>1, <2>2
<1> QED
  BY <1>1, <1>3, <1>4, <1>5, <1>6, <1>7 DEF NormalWord

(* The parts of a guess: the first word of the divisor multiplied, with    *)
(* what the second adds to it, the guess before it is corrected, and the   *)
(* test that corrects it.                                                  *)
NormWord(w) ==
    LET n == DIG_BASE \div (w[1] + 1)
    IN  n * w[1] + IF Len(w) > 1 THEN (n * w[2]) \div DIG_BASE ELSE 0

FirstGuess(w, x, y) ==
    LET n == DIG_BASE \div (w[1] + 1)
    IN  Min({(n * x + (n * y) \div DIG_BASE) \div NormWord(w), DIG_MAX})

TestFails(w, x, y, g) == Len(w) > 1 /\ w[2] * g > (x - g * w[1]) * DIG_BASE + y

Corrected(w, x, y, f) ==
    CASE ~TestFails(w, x, y, f)                           -> f
      [] TestFails(w, x, y, f) /\ ~TestFails(w, x, y, f - 1) -> f - 1
      [] OTHER                                            -> f - 2

LEMMA GuessIs ==
    ASSUME NEW s, NEW w, NEW x, x = s.rem[s.start1] + s.dcarry * DIG_BASE,
           NEW y, y = s.rem[s.start1 + 1]
    PROVE  Guess(s, w) = Corrected(w, x, y, FirstGuess(w, x, y))
  BY Zenon DEF Guess, Corrected, FirstGuess, NormWord, TestFails

(* The test compares three words with two, and so fails for the guesses    *)
(* that are larger than the quotient of these.                             *)
LEMMA TestedWords ==
    ASSUME NEW B \in Int, NEW u \in Int, NEW v \in Int, NEW x \in Int, NEW y \in Int, NEW k \in Int,
           NEW V \in Int, V = u * B + v, NEW X \in Int, X = x * B + y
    PROVE  v * k > (x - k * u) * B + y <=> k * V > X
<1>1. PICK kv \in Int, kuB \in Int, xB \in Int :
        kv = v * k /\ kuB = (k * u) * B /\ xB = x * B
  OBVIOUS
<1>2. k * V = kuB + kv
  BY <1>1
<1>3. (x - k * u) * B = xB - kuB
  BY <1>1
<1>4. X = xB + y
  BY <1>1
<1>5. v * k = kv
  BY <1>1
<1>6. kv > xB - kuB + y <=> kuB + kv > xB + y
  BY <1>1
<1> QED
  BY <1>2, <1>3, <1>4, <1>5, <1>6

LEMMA ExactTest ==
    ASSUME NEW V \in Nat \ {0}, NEW X \in Nat, NEW g \in Nat, g * V <= X, X < (g + 1) * V,
           NEW k \in Int
    PROVE  k * V > X <=> k > g
<1>1. PICK h \in Int, kV \in Int, gV \in Int, hV \in Int :
        h = g + 1 /\ kV = k * V /\ gV = g * V /\ hV = h * V
  OBVIOUS
<1>2. gV <= X /\ X < hV
  BY <1>1
<1>3. k <= g => kV <= gV
  BY <1>1, MulMonotonic
<1>4. h <= k => hV <= kV
  BY <1>1, MulMonotonic
<1>5. kV > X <=> k > g
  BY ONLY <1>1, <1>2, <1>3, <1>4, k \in Int, g \in Int, X \in Int, kV \in Int, gV \in Int, hV \in Int, h \in Int
<1> QED
  BY <1>1, <1>5

IsOver(w, u, v, x, y, g, V, X) ==
    /\ Len(w) > 1 /\ u = w[1] /\ v = w[2] /\ u <= DIG_MAX
    /\ V = u * DIG_BASE + v
    /\ X = x * DIG_BASE + y
    /\ g * V <= X /\ X < (g + 1) * V

LEMMA TestIs ==
    ASSUME NEW w, NEW u \in Nat \ {0}, NEW v \in Nat, NEW x \in Nat, NEW y \in Nat, NEW g \in Nat,
           NEW V \in Nat \ {0}, NEW X \in Nat, IsOver(w, u, v, x, y, g, V, X), NEW k \in Int
    PROVE  TestFails(w, x, y, k) <=> k > g
<1>0. /\ Len(w) > 1 /\ u = w[1] /\ v = w[2]
      /\ V = u * DIG_BASE + v /\ X = x * DIG_BASE + y
      /\ g * V <= X /\ X < (g + 1) * V
  BY Zenon DEF IsOver
<1>1. DIG_BASE \in Int
  BY Base
<1>2. TestFails(w, x, y, k) <=> v * k > (x - k * u) * DIG_BASE + y
  BY ONLY <1>0, Zenon DEF TestFails
<1>5. u \in Int /\ v \in Int /\ x \in Int /\ y \in Int /\ V \in Int /\ X \in Int
  BY ONLY u \in Nat, v \in Nat, x \in Nat, y \in Nat, V \in Nat, X \in Nat
<1>3. v * k > (x - k * u) * DIG_BASE + y <=> k * V > X
  BY ONLY <1>0, <1>1, <1>5, k \in Int, TestedWords
<1>4. k * V > X <=> k > g
  BY ONLY <1>0, V \in Nat \ {0}, X \in Nat, g \in Nat, k \in Int, ExactTest
<1> QED
  BY ONLY <1>2, <1>3, <1>4

Guessed(f, g) ==
    /\ f \in Int /\ f <= DIG_MAX
    /\ g <= DIG_MAX => g <= f /\ f <= g + 2
    /\ g > DIG_MAX => f = DIG_MAX

AWord(g) == IF g <= DIG_MAX THEN g ELSE DIG_MAX

LEMMA CorrectedIs ==
    ASSUME NEW w, NEW u \in Nat \ {0}, NEW v \in Nat, NEW x \in Nat, NEW y \in Nat, NEW g \in Nat,
           NEW V \in Nat \ {0}, NEW X \in Nat, IsOver(w, u, v, x, y, g, V, X),
           NEW f \in Int, Guessed(f, g)
    PROVE  Corrected(w, x, y, f) = AWord(g)
<1>1. TestFails(w, x, y, f) <=> f > g
  BY TestIs
<1>2. TestFails(w, x, y, f - 1) <=> f - 1 > g
  <2>1. PICK k \in Int : k = f - 1
    OBVIOUS
  <2>2. TestFails(w, x, y, k) <=> k > g
    BY TestIs
  <2> QED
    BY <2>1, <2>2
<1>3. PICK c : c = Corrected(w, x, y, f)
  OBVIOUS
<1>4. /\ ~(f > g) => c = f
      /\ f > g /\ ~(f - 1 > g) => c = f - 1
      /\ f > g /\ f - 1 > g => c = f - 2
  BY <1>1, <1>2, <1>3, Zenon DEF Corrected
<1>5. DIG_MAX \in Nat
  BY Base
<1>6. c = AWord(g)
  BY ONLY <1>4, <1>5, g \in Nat, Guessed(f, g) DEF Guessed, AWord
<1> QED
  BY <1>3, <1>6

(* Two words multiplied, and cut to the first.                             *)
Cutting(M, n, V, B, m) == M \in Nat /\ M * B <= n * V /\ n * V < (M + 1) * B /\ m <= M

LEMMA Scaling ==
    ASSUME NEW B \in Nat \ {0}, NEW n \in Nat, NEW u \in Nat, NEW v \in Nat,
           NEW V \in Nat, V = u * B + v, NEW M, M = n * u + (n * v) \div B
    PROVE  Cutting(M, n, V, B, n * u)
<1>1. PICK nv \in Nat, nu \in Nat : nv = n * v /\ nu = n * u
  OBVIOUS
<1>2. nv \div B \in Int /\ nv = B * (nv \div B) + (nv % B) /\ nv % B \in 0 .. B - 1
  BY Division
<1>3. PICK c \in Int, r \in Int, Bc \in Int :
        c = (n * v) \div B /\ Bc = B * c /\ nv = Bc + r /\ 0 <= r /\ r < B
  BY <1>1, <1>2
<1>4. c >= 0
  <2>1. (0 - 1) + 1 = 0 /\ 0 * B = 0
    OBVIOUS
  <2>2. 0 * B < (c + 1) * B
    BY <1>1, <1>3, <2>1
  <2>3. 0 < c + 1
    BY <2>2, MulOrder
  <2> QED
    BY <2>3
<1>5. M = nu + c /\ M \in Int
  BY <1>1, <1>3
<1>6. M * B = nu * B + Bc
  BY <1>3, <1>5
<1>7. n * V = nu * B + nv
  <2>1. n * (u * B + v) = (n * u) * B + n * v
    OBVIOUS
  <2> QED
    BY <1>1, <2>1
<1>8. (M + 1) * B = M * B + B
  BY ONLY <1>5, M \in Int, B \in Nat
<1>9. nu * B \in Int
  BY <1>1
<1> QED
  BY <1>1, <1>3, <1>4, <1>5, <1>6, <1>7, <1>8, <1>9 DEF Cutting

(* The first guess is not too small, and too large by two at most.         *)
LEMMA FirstIs ==
    ASSUME NEW w, NEW u \in Nat \ {0}, NEW v \in Nat, NEW x \in Nat, NEW y \in Nat, NEW g \in Nat,
           NEW V \in Nat \ {0}, NEW X \in Nat, IsOver(w, u, v, x, y, g, V, X),
           NEW f, f = FirstGuess(w, x, y)
    PROVE  Guessed(f, g)
<1>0. /\ Len(w) > 1 /\ u = w[1] /\ v = w[2] /\ u <= DIG_MAX
      /\ V = u * DIG_BASE + v /\ X = x * DIG_BASE + y
      /\ g * V <= X /\ X < (g + 1) * V
  BY Zenon DEF IsOver
<1>1. g * V <= X /\ X < (g + 1) * V
  BY <1>0
<1>2. PICK B \in Nat \ {0} : B = DIG_BASE /\ DIG_MAX = B - 1
  BY Base
<1>3. PICK n \in Nat \ {0} :
        n = B \div (u + 1) /\ n * u \in Nat \ {0} /\ B <= 2 * (n * u) + 1
  <2>1. PICK k : k = B \div (u + 1)
    OBVIOUS
  <2>2. u < B
    BY <1>0, <1>2, SMTT(60)
  <2>3. NormalWord(k, u, B)
    BY <2>1, <2>2, Normal
  <2> QED
    BY <2>1, <2>3 DEF NormalWord
<1>4. PICK M, N : M = n * u + (n * v) \div B /\ N = n * x + (n * y) \div B
  OBVIOUS
<1>5. Cutting(M, n, V, B, n * u)
  <2>1. V \in Nat /\ V = u * B + v /\ n \in Nat /\ u \in Nat
    BY <1>0, <1>2
  <2>2. M = n * u + (n * v) \div B
    BY <1>4
  <2> QED
    BY ONLY <2>1, <2>2, B \in Nat \ {0}, v \in Nat, Scaling
<1>6. Cutting(N, n, X, B, n * x)
  <2>1. X \in Nat /\ X = x * B + y /\ n \in Nat
    BY <1>0, <1>2
  <2> QED
    BY ONLY <1>4, <2>1, B \in Nat \ {0}, x \in Nat, y \in Nat, Scaling
<1>7. M \in Nat \ {0} /\ B <= 2 * M + 1
  BY ONLY <1>3, <1>5, B \in Nat \ {0} DEF Cutting
<1>8. PICK G : G = N \div M
  OBVIOUS
<1>9. G \in Int
  BY <1>6, <1>7, <1>8, Division DEF Cutting
<1>10. g <= G /\ (g + 1 < B /\ B <= 2 * M + 1 => G <= g + 2)
  BY ONLY n \in Nat \ {0}, <1>5, <1>6, <1>7, <1>8, <1>9, B \in Nat \ {0}, V \in Nat \ {0}, X \in Nat, g \in Nat,
          <1>1, Estimate DEF Cutting
<1>11. f = Min({G, DIG_MAX})
  <2>1. NormWord(w) = M
    BY <1>0, <1>2, <1>3, <1>4, Zenon DEF NormWord
  <2> QED
    BY <1>0, <1>2, <1>3, <1>4, <1>8, <2>1, Zenon DEF FirstGuess
<1>12. f = IF G <= DIG_MAX THEN G ELSE DIG_MAX
  <2>1. DIG_MAX \in Int
    BY Base
  <2> QED
    BY <1>9, <1>11, <2>1, MaxOfTwo
<1> QED
  BY ONLY <1>2, <1>7, <1>9, <1>10, <1>12, g \in Nat, B \in Nat \ {0} DEF Guessed

(* A divisor of one word needs no correction.                              *)
LEMMA CutBelow ==
    ASSUME NEW B \in Nat \ {0}, NEW n \in Nat \ {0}, NEW y \in 0 .. B - 1
    PROVE  (n * y) \div B \in 0 .. n - 1
<1>1. PICK ny \in Nat, nB \in Nat, d \in Nat : ny = n * y /\ nB = n * B /\ d = B - 1
  OBVIOUS
<1>2. PICK c : c = (n * y) \div B
  OBVIOUS
<1>3. c \in Int /\ ny = B * c + (ny % B) /\ ny % B \in 0 .. B - 1
  BY ONLY <1>1, <1>2, ny \in Int, B \in Nat \ {0}, Division
<1>4. PICK r \in Int, cB \in Int : cB = c * B /\ ny = cB + r /\ 0 <= r /\ r < B
  BY <1>3
<1>5. ny < nB
  <2>1. y < B
    OBVIOUS
  <2>2. y * n < B * n
    BY <2>1, MulOrder
  <2> QED
    BY <1>1, <2>2
<1>6. 0 <= c
  <2>1. (0 - 1) * B = -B
    OBVIOUS
  <2>2. (0 - 1) * B < c * B
    BY ONLY <1>4, <2>1, ny \in Nat, B \in Nat \ {0}
  <2>3. 0 - 1 < c
    BY <1>3, <2>2, MulOrder
  <2> QED
    BY <1>3, <2>3
<1>7. c < n
  <2>1. c * B < n * B
    BY ONLY <1>1, <1>4, <1>5, n \in Nat, B \in Nat
  <2> QED
    BY <1>3, <2>1, MulOrder
<1> QED
  BY <1>2, <1>3, <1>6, <1>7

LEMMA OneWordQuotient ==
    ASSUME NEW n \in Nat \ {0}, NEW u \in Nat \ {0}, NEW x \in Nat, NEW g \in Nat,
           g * u <= x, x < (g + 1) * u, NEW c \in 0 .. n - 1
    PROVE  (n * x + c) \div (n * u) = g
<1>1. PICK h \in Nat, gu \in Nat, hu \in Nat :
        h = g + 1 /\ gu = g * u /\ hu = h * u /\ gu <= x /\ x + 1 <= hu
  OBVIOUS
<1>2. PICK M \in Nat \ {0}, nx \in Nat, N \in Nat :
        M = n * u /\ nx = n * x /\ N = nx + c
  <2>1. 1 * u <= n * u /\ 1 * u = u
    BY MulMonotonic
  <2>2. n * u \in Nat \ {0}
    BY <2>1
  <2> QED
    BY <2>2
<1>3. PICK Mg \in Nat, Mh \in Nat : Mg = M * g /\ Mh = M * h
  OBVIOUS
<1>4. Mg <= nx
  <2>1. gu * n <= x * n
    BY <1>1, MulMonotonic
  <2>2. gu * n = Mg
    BY <1>1, <1>2, <1>3
  <2> QED
    BY <1>2, <2>1, <2>2
<1>5. nx + n <= Mh
  <2>1. (x + 1) * n <= hu * n
    BY <1>1, MulMonotonic
  <2>2. hu * n = Mh
    BY <1>1, <1>2, <1>3
  <2>3. (x + 1) * n = nx + n
    BY <1>2
  <2> QED
    BY <2>1, <2>2, <2>3
<1>6. Mh = Mg + M
  BY <1>1, <1>3
<1>7. PICK t \in Int : t = N - Mg
  OBVIOUS
<1>8. t \in 0 .. M - 1 /\ N = M * g + t
  BY ONLY <1>2, <1>3, <1>4, <1>5, <1>6, <1>7, c \in 0 .. n - 1, n \in Nat
<1>9. N \div M = g
  BY <1>8, DivisionIs
<1> QED
  BY <1>2, <1>9

LEMMA OneWordIs ==
    ASSUME NEW w, ~(Len(w) > 1), NEW u \in Nat \ {0}, u = w[1], u <= DIG_MAX,
           NEW x \in Nat, NEW y \in 0 .. DIG_MAX, NEW g \in Nat,
           g * u <= x, x < (g + 1) * u, g <= DIG_MAX
    PROVE  Corrected(w, x, y, FirstGuess(w, x, y)) = g
<1>1. PICK B \in Nat \ {0} : B = DIG_BASE /\ DIG_MAX = B - 1
  BY Base
<1>2. PICK n \in Nat \ {0} : n = B \div (u + 1)
  <2>1. PICK k : k = B \div (u + 1)
    OBVIOUS
  <2>2. u < B
    BY <1>1
  <2>3. NormalWord(k, u, B)
    BY <2>1, <2>2, Normal
  <2> QED
    BY <2>1, <2>3 DEF NormalWord
<1>3. (n * y) \div B \in 0 .. n - 1
  BY <1>1, CutBelow
<1>4. (n * x + (n * y) \div B) \div (n * u) = g
  BY ONLY <1>3, n \in Nat \ {0}, u \in Nat \ {0}, x \in Nat, g \in Nat, g * u <= x,
          x < (g + 1) * u, OneWordQuotient
<1>5. NormWord(w) = n * u
  <2>1. NormWord(w) = n * u + 0
    BY <1>1, <1>2, Zenon DEF NormWord
  <2>2. n * u \in Int
    OBVIOUS
  <2> QED
    BY ONLY <2>1, <2>2
<1>6. FirstGuess(w, x, y) = Min({g, DIG_MAX})
  BY <1>1, <1>2, <1>4, <1>5, Zenon DEF FirstGuess
<1>7. FirstGuess(w, x, y) = g
  <2>1. DIG_MAX \in Int /\ g \in Int
    BY Base
  <2> QED
    BY ONLY <1>6, <2>1, g <= DIG_MAX, MaxOfTwo
<1> QED
  BY <1>7, Zenon DEF Corrected, TestFails

(* The quotient of the first words, at most the largest word, is that of   *)
(* the numbers or one more.                                                *)
LEMMA LeadingQuotient ==
    ASSUME NEW B \in Nat \ {0}, NEW M \in Nat \ {0}, NEW U \in Nat \ {0}, B <= U, NEW Y \in Nat,
           NEW v \in 0 .. M - 1, NEW x \in 0 .. M - 1,
           NEW V \in Nat \ {0}, V = U * M + v, NEW X \in Nat, X = Y * M + x,
           NEW q \in Nat, q * V <= X, X < (q + 1) * V, q < B,
           NEW g \in Nat, g * U <= Y, Y < (g + 1) * U,
           NEW h \in Nat, h = IF g <= B - 1 THEN g ELSE B - 1
    PROVE  h = q \/ h = q + 1
<1>1. PICK UM \in Nat, YM \in Nat, qU \in Nat, qV \in Nat, qUM \in Nat :
        /\ UM = U * M /\ YM = Y * M /\ qU = q * U /\ qV = q * V /\ qUM = q * UM
        /\ V = UM + v /\ X = YM + x /\ qV <= X
  OBVIOUS
<1>2. q <= g
  <2>1. qUM <= qV
    <3>1. UM * q <= V * q
      BY <1>1, MulMonotonic
    <3> QED
      BY <1>1, <3>1
  <2>2. qU * M = qUM
    BY <1>1
  <2>3. (Y + 1) * M = YM + M
    BY <1>1
  <2>4. qU * M < (Y + 1) * M
    BY ONLY <1>1, <2>1, <2>2, <2>3, x \in 0 .. M - 1, M \in Nat, X \in Nat
  <2>5. qU <= Y
    BY <2>4, Smaller
  <2>6. q * U < (g + 1) * U
    BY <1>1, <2>5
  <2> QED
    BY <2>6, Smaller
<1>3. h <= q + 1
  <2>1. CASE h = 0
    BY <2>1
  <2>2. CASE h # 0
    <3>1. PICK k \in Nat : k = h - 1 /\ h = k + 1
      BY <2>2
    <3>2. PICK hU \in Nat, kv \in Nat, kV \in Nat, kUM \in Nat, kM \in Nat :
            /\ hU = h * U /\ kv = k * v /\ kV = k * V /\ kUM = k * UM /\ kM = k * M
      OBVIOUS
    <3>3. hU <= Y
      <4>1. h * U <= g * U
        BY MulMonotonic
      <4> QED
        BY <3>2, <4>1
    <3>4. hU * M <= YM
      BY <1>1, <3>3, MulMonotonic
    <3>5. hU * M = kUM + UM
      BY <1>1, <3>1, <3>2
    <3>6. kV = kUM + kv
      BY <1>1, <3>2
    <3>7. kv <= kM
      <4>1. v * k <= M * k
        BY MulMonotonic
      <4> QED
        BY <3>2, <4>1
    <3>8. kM < UM
      <4>1. k < U
        BY <3>1
      <4> QED
        BY <1>1, <3>2, <4>1, MulOrder
    <3>9. k * V < (q + 1) * V
      BY ONLY <1>1, <3>2, <3>4, <3>5, <3>6, <3>7, <3>8, X < (q + 1) * V, x \in 0 .. M - 1, X \in Nat
    <3>10. k <= q
      BY <3>9, Smaller
    <3> QED
      BY <3>1, <3>10
  <2> QED
    BY <2>1, <2>2
<1>4. q <= h
  BY <1>2
<1> QED
  BY <1>3, <1>4

(* The first words of a number.                                            *)
LEMMA FirstWords ==
    ASSUME NEW n \in Nat, NEW w, AreWords(w, n)
    PROVE  /\ n >= 1 => Positional(w, 1) = w[1]
           /\ n >= 2 => Positional(w, 2) = w[1] * DIG_BASE + w[2]
           /\ n >= 3 => Positional(w, 3) = (w[1] * DIG_BASE + w[2]) * DIG_BASE + w[3]
<1>1. DIG_BASE \in Nat /\ DIG_MAX \in Nat
  BY Base
<1>2. \A k \in 1 .. n : w[k] \in Int
  BY <1>1 DEF AreWords
<1>3. /\ Positional(w, 0) = 0
      /\ \A m \in 0 .. n - 1 : Positional(w, m + 1) = Positional(w, m) * DIG_BASE + w[m + 1]
  BY <1>2, Positionals
<1>4. n >= 1 => Positional(w, 0 + 1) = 0 * DIG_BASE + w[0 + 1]
  BY <1>3
<1>5. n >= 1 => Positional(w, 1) = w[1]
  <2>1. n >= 1 => w[1] \in Int
    BY <1>2
  <2> QED
    BY ONLY <1>1, <1>4, <2>1
<1>6. n >= 2 => Positional(w, 1 + 1) = Positional(w, 1) * DIG_BASE + w[1 + 1]
  BY <1>3
<1>7. n >= 3 => Positional(w, 2 + 1) = Positional(w, 2) * DIG_BASE + w[2 + 1]
  BY <1>3
<1> QED
  BY ONLY n \in Nat, <1>5, <1>6, <1>7

(* A number split after its first words.                                   *)
SplitAt(w, n, m, p, c, r) ==
    /\ p = Positional(w, m) /\ c = Power(DIG_BASE, n - m)
    /\ Positional(w, n) = p * c + r /\ r < c

LEMMA Splits ==
    ASSUME NEW n \in Nat, NEW w, AreWords(w, n), NEW m \in 0 .. n
    PROVE  \E p \in Nat, c \in Nat \ {0}, r \in Nat : SplitAt(w, n, m, p, c, r)
<1>1. DIG_BASE \in Nat \ {0} /\ DIG_BASE \in Int
  BY Base
<1>2. PICK k \in Nat : k = n - m /\ m + k = n
  OBVIOUS
<1>3. PICK v : v = [j \in 1 .. k |-> w[m + j]]
  OBVIOUS
<1>4. \A j \in 1 .. m + k : w[j] \in Int
  BY <1>2, Base DEF AreWords
<1>5. AreWords(v, k)
  BY <1>2, <1>3 DEF AreWords
<1>6. Positional(w, m + k) = Positional(w, m) * Power(DIG_BASE, k) + Positional(v, k)
  <2>1. \A j \in 1 .. k : v[j] = w[m + j]
    BY <1>3
  <2> QED
    BY <1>4, <2>1, m \in Nat, PositionalSplit
<1>7. Power(DIG_BASE, k) \in Nat \ {0}
  BY <1>1, PowerPositive
<1>8. Positional(v, k) \in Nat /\ Positional(v, k) < Power(DIG_BASE, k)
  BY <1>5, PositionalRange
<1>9. Positional(w, m) \in Nat
  BY PositionalRange
<1>10. SplitAt(w, n, m, Positional(w, m), Power(DIG_BASE, k), Positional(v, k))
  BY <1>2, <1>6, <1>8 DEF SplitAt
<1> QED
  BY <1>7, <1>8, <1>9, <1>10

LEMMA QuotientExists ==
    ASSUME NEW x \in Nat, NEW y \in Nat \ {0}
    PROVE  \E q \in Nat : q * y <= x /\ x < (q + 1) * y
<1>1. x \div y \in Int /\ x = y * (x \div y) + (x % y) /\ x % y \in 0 .. y - 1
  BY Division
<1>2. PICK q \in Int, qy \in Int : qy = q * y /\ qy <= x /\ x < qy + y
  <2>1. PICK q \in Int, r \in Int : q = x \div y /\ r = x % y
    BY <1>1
  <2>2. PICK qy \in Int : qy = q * y
    OBVIOUS
  <2>3. x = qy + r /\ 0 <= r /\ r < y
    BY <1>1, <2>1, <2>2
  <2> QED
    BY <2>2, <2>3
<1>3. (q + 1) * y = qy + y
  BY <1>2
<1>4. q \in Nat
  <2>1. 0 * y = 0
    OBVIOUS
  <2>2. 0 * y < (q + 1) * y
    BY ONLY <1>2, <1>3, <2>1, x \in Nat, qy \in Int, y \in Nat
  <2>3. 0 < q + 1
    BY <2>2, MulOrder
  <2> QED
    BY <2>3
<1> QED
  BY <1>2, <1>3, <1>4

(* Both steps of the guess, for a divisor of two words or more.            *)
LEMMA TwoWordsGuess ==
    ASSUME NEW w, NEW u \in Nat \ {0}, NEW v \in Nat, NEW x \in Nat, NEW y \in Nat, NEW g \in Nat,
           NEW V \in Nat \ {0}, NEW X \in Nat, IsOver(w, u, v, x, y, g, V, X)
    PROVE  Corrected(w, x, y, FirstGuess(w, x, y)) = AWord(g)
<1>1. PICK f : f = FirstGuess(w, x, y)
  OBVIOUS
<1>2. Guessed(f, g)
  BY <1>1, FirstIs
<1>3. f \in Int
  BY <1>2 DEF Guessed
<1>4. Corrected(w, x, y, f) = AWord(g)
  BY <1>2, <1>3, CorrectedIs
<1> QED
  BY <1>1, <1>4

-----------------------------------------------------------------------------
(* One turn of the loop.                                                   *)

(* The window of the dividend that stands over the divisor: the word that  *)
(* was carried, then the words from start1 on.                             *)
Window(s, n) == [k \in 1 .. n |-> IF k = 1 THEN s.dcarry ELSE s.rem[s.start1 + (k - 2)]]

GuessGiven(s, w, n, z, V, X, q) ==
    /\ n = Len(w) /\ AreWords(w, n) /\ w[1] # 0
    /\ AreWords(z, n + 1)
    /\ z[1] = s.dcarry /\ z[2] = s.rem[s.start1] /\ (n > 1 => z[3] = s.rem[s.start1 + 1])
    /\ s.rem[s.start1 + 1] \in 0 .. DIG_MAX
    /\ V = Positional(w, n) /\ X = Positional(z, n + 1)
    /\ q * V <= X /\ X < (q + 1) * V /\ q <= DIG_MAX

(* D3 finds the word of the quotient, or one more.                         *)
LEMMA GuessFits ==
    ASSUME NEW s, NEW w, NEW n \in Nat \ {0}, NEW z, NEW V \in Nat \ {0}, NEW X \in Nat,
           NEW q \in Nat, GuessGiven(s, w, n, z, V, X, q)
    PROVE  Guess(s, w) = q \/ Guess(s, w) = q + 1
<1> n = Len(w) /\ AreWords(w, n) /\ w[1] # 0 /\ AreWords(z, n + 1)
  BY DEF GuessGiven
<1> z[1] = s.dcarry /\ z[2] = s.rem[s.start1] /\ (n > 1 => z[3] = s.rem[s.start1 + 1])
    /\ s.rem[s.start1 + 1] \in 0 .. DIG_MAX
  BY DEF GuessGiven
<1> V = Positional(w, n) /\ X = Positional(z, n + 1) /\ q * V <= X /\ X < (q + 1) * V /\ q <= DIG_MAX
  BY Zenon DEF GuessGiven
<1>1. PICK B \in Nat \ {0} : B = DIG_BASE /\ DIG_MAX = B - 1
  BY Base
<1>2. PICK u \in Nat \ {0} : u = w[1] /\ u <= DIG_MAX
  <2>1. w[1] \in 0 .. DIG_MAX
    BY DEF AreWords
  <2> QED
    BY <1>1, <2>1
<1>3. PICK d \in Nat, e \in Nat : d = z[1] /\ e = z[2] /\ d <= DIG_MAX /\ e <= DIG_MAX
  <2>1. z[1] \in 0 .. DIG_MAX /\ z[2] \in 0 .. DIG_MAX
    <3>1. AreWords(z, n + 1)
      OBVIOUS
    <3>2. 1 \in 1 .. n + 1 /\ 2 \in 1 .. n + 1
      BY ONLY n \in Nat \ {0}
    <3> QED
      BY ONLY <3>1, <3>2 DEF AreWords
  <2> QED
    BY <1>1, <2>1, SMTT(60)
<1>4. PICK x \in Nat, y \in Nat :
        /\ x = d * B + e /\ y = s.rem[s.start1 + 1] /\ y <= DIG_MAX
        /\ x = s.rem[s.start1] + s.dcarry * DIG_BASE
  <2>1. d * B \in Nat /\ d * B = s.dcarry * DIG_BASE /\ e = s.rem[s.start1]
    BY <1>1, <1>3, SMTT(60)
  <2>2. PICK y \in Nat : y = s.rem[s.start1 + 1] /\ y <= DIG_MAX
    BY <1>1, SMTT(60)
  <2> QED
    BY ONLY <2>1, <2>2, d \in Nat, e \in Nat, B \in Nat
<1>5. Guess(s, w) = Corrected(w, x, y, FirstGuess(w, x, y))
  BY <1>4, GuessIs
<1>6. CASE n = 1
  <2>1. V = u
    BY <1>2, <1>6, FirstWords
  <2>2. X = x
    <3>1. AreWords(z, 2) /\ X = Positional(z, 2)
      BY <1>6
    <3>2. Positional(z, 2) = z[1] * DIG_BASE + z[2]
      BY <3>1, FirstWords
    <3> QED
      BY <1>1, <1>3, <1>4, <3>1, <3>2
  <2>3. ~(Len(w) > 1) /\ y \in 0 .. DIG_MAX
    BY <1>1, <1>4, <1>6
  <2>4. q * u <= x /\ x < (q + 1) * u
    BY <2>1, <2>2
  <2>5. Corrected(w, x, y, FirstGuess(w, x, y)) = q
    BY ONLY <1>2, <2>3, <2>4, x \in Nat, u \in Nat \ {0}, q \in Nat, q <= DIG_MAX, OneWordIs
  <2> QED
    BY <1>5, <2>5
<1>7. CASE n > 1
  <2>1. PICK v \in Nat : v = w[2]
    <3>1. w[2] \in 0 .. DIG_MAX
      BY <1>7 DEF AreWords
    <3> QED
      BY <1>1, <3>1
  <2>2. PICK m \in Nat : n = m + 2
    BY <1>7
  <2>3. PICK U \in Nat, M \in Nat \ {0}, r \in Nat : SplitAt(w, n, 2, U, M, r)
    <3>1. 2 \in 0 .. n
      BY <1>7
    <3> QED
      BY <3>1, Splits
  <2>4. PICK Y \in Nat, N \in Nat \ {0}, t \in Nat : SplitAt(z, n + 1, 3, Y, N, t)
    <3>1. 3 \in 0 .. n + 1 /\ n + 1 \in Nat
      BY <1>7
    <3> QED
      BY <3>1, Splits
  <2>5. U = u * B + v
    <3>1. n >= 2 /\ U = Positional(w, 2)
      BY <1>7, <2>3 DEF SplitAt
    <3>2. Positional(w, 2) = w[1] * DIG_BASE + w[2]
      BY <3>1, FirstWords
    <3> QED
      BY ONLY <1>1, <1>2, <2>1, <3>1, <3>2
  <2>6. Y = x * B + y
    <3>1. z[3] = y
      BY <1>4, <1>7
    <3>2. PICK k \in Nat : k = n + 1 /\ k >= 3
      BY <1>7
    <3>3. Positional(z, 3) = (z[1] * DIG_BASE + z[2]) * DIG_BASE + z[3]
      BY <3>2, FirstWords
    <3> QED
      BY <1>1, <1>3, <1>4, <2>4, <3>1, <3>3 DEF SplitAt
  <2>7. N = M
    <3>1. n - 2 = m /\ (n + 1) - 3 = m
      BY <2>2
    <3> QED
      BY <2>3, <2>4, <3>1 DEF SplitAt
  <2>8. V = U * M + r /\ r \in 0 .. M - 1 /\ X = Y * M + t /\ t \in 0 .. M - 1
    BY ONLY <2>3, <2>4, <2>7, V = Positional(w, n), X = Positional(z, n + 1),
            r \in Nat, t \in Nat, M \in Nat DEF SplitAt
  <2>9. U \in Nat \ {0} /\ B <= U
    <3>3. PICK o \in Int : o = 1
      OBVIOUS
    <3>4. o <= u /\ u \in Int
      BY <3>3
    <3>5. o * B <= u * B
      BY ONLY <3>4, o \in Int, B \in Nat, MulMonotonic
    <3>1. 1 * B <= u * B
      BY <3>3, <3>5, Zenon
    <3>2. u * B \in Nat /\ 1 * B = B
      BY ONLY u \in Nat, B \in Nat
    <3> QED
      BY ONLY <2>5, <3>1, <3>2, v \in Nat, B \in Nat \ {0}, U \in Nat
  <2>10. PICK g \in Nat : g * U <= Y /\ Y < (g + 1) * U
    BY <2>9, QuotientExists
  <2>11. PICK h \in Nat : h = AWord(g)
    BY <1>1 DEF AWord
  <2>12. Corrected(w, x, y, FirstGuess(w, x, y)) = h
    <3>1. IsOver(w, u, v, x, y, g, U, Y)
      BY <1>1, <1>2, <1>7, <2>1, <2>5, <2>6, <2>10, Zenon DEF IsOver
    <3>2. Corrected(w, x, y, FirstGuess(w, x, y)) = AWord(g)
      BY <2>9, <3>1, TwoWordsGuess
    <3> QED
      BY <2>11, <3>2
  <2>13. h = q \/ h = q + 1
    <3>1. q < B /\ h = IF g <= B - 1 THEN g ELSE B - 1
      BY <1>1, <2>11 DEF AWord
    <3> QED
      BY ONLY <2>8, <2>9, <2>10, <3>1, B \in Nat \ {0}, M \in Nat \ {0}, Y \in Nat, V \in Nat \ {0},
              X \in Nat, q \in Nat, q * V <= X, X < (q + 1) * V, g \in Nat, h \in Nat, LeadingQuotient
  <2> QED
    BY <1>5, <2>12, <2>13
<1> QED
  BY <1>6, <1>7

(* Words of rem from a on.                                                 *)
Span(rem, a, n) == [k \in 1 .. n |-> rem[a + k - 1]]

AreSums(s, w, m, sum) ==
    sum = [k \in 1 .. Len(w) + 1 |->
             IF k > Len(w) THEN 0
             ELSE s.rem[s.start1 + k - 1] + m * w[k] + sum[k + 1] \div DIG_BASE]

AddedWith(s, w, sum) ==
    [rem   |-> [k \in DOMAIN s.rem |->
                  IF k \in s.start1 .. s.start1 + Len(w) - 1
                  THEN sum[k - s.start1 + 1] % DIG_BASE ELSE s.rem[k]],
     carry |-> sum[1] \div DIG_BASE]

IsLine(rem, len) == rem \in [1 .. len -> 0 .. DIG_MAX]

Added(r, rem, w, n, len, a, m) ==
    /\ IsLine(r.rem, len)
    /\ \A k \in 1 .. len : k \notin a .. a + n - 1 => r.rem[k] = rem[k]
    /\ r.carry \in Int
    /\ Positional(Span(rem, a, n), n) + m * Positional(w, n)
         = r.carry * Power(DIG_BASE, n) + Positional(Span(r.rem, a, n), n)

(* What MultiplyAdd leaves under the divisor, and its carry, are together  *)
(* what was there and so many times the divisor.                           *)
LEMMA MultiplyAdds ==
    ASSUME NEW s, NEW w, NEW n \in Nat, n = Len(w), AreWords(w, n), NEW len \in Nat,
           IsLine(s.rem, len), NEW a \in Nat \ {0}, a = s.start1, a + n - 1 <= len, NEW m \in Int
    PROVE  Added(MultiplyAdd(s, w, m), s.rem, w, n, len, a, m)
<1> DEFINE t == [k \in 1 .. n |-> s.rem[a + k - 1] + m * w[k]]
           P(sum) == AreSums(s, w, m, sum)
<1>0. DIG_BASE \in Nat \ {0} /\ DIG_MAX \in Nat /\ DIG_MAX = DIG_BASE - 1
  BY Base
<1>1. ASSUME NEW k \in 1 .. n
      PROVE  /\ w[k] \in Int /\ s.rem[a + k - 1] \in Int /\ s.rem[a + k - 1] \in 0 .. DIG_MAX
             /\ t[k] \in Int /\ t[k] = s.rem[a + k - 1] + m * w[k]
  <2>1. a + k - 1 \in 1 .. len
    OBVIOUS
  <2>2. s.rem[a + k - 1] \in 0 .. DIG_MAX /\ w[k] \in 0 .. DIG_MAX
    BY <2>1 DEF IsLine, AreWords
  <2>3. m * w[k] \in Int
    BY <1>0, <2>2
  <2> QED
    BY <1>0, <2>2, <2>3, SMTT(60)
<1> HIDE DEF t
<1>2. ASSUME NEW sum PROVE Carries(sum, t, 1, n) <=> P(sum)
  <2>1. [k \in 1 .. n + 1 |-> IF k > n THEN 0 ELSE t[k] + sum[k + 1] \div DIG_BASE]
          = [k \in 1 .. n + 1 |-> IF k > n THEN 0
               ELSE s.rem[a + k - 1] + m * w[k] + sum[k + 1] \div DIG_BASE]
    <3>1. \A k \in 1 .. n + 1 : k > n \/ k \in 1 .. n
      OBVIOUS
    <3>2. \A k \in 1 .. n : t[k] = s.rem[a + k - 1] + m * w[k]
      BY <1>1
    <3> QED
      BY <3>1, <3>2, Zenon
  <2> QED
    BY <2>1, Zenon DEF Carries, AreSums
<1>3. \E sum : P(sum)
  <2>1. \E sum : Carries(sum, t, 1, n)
    <3>1. \A p \in 1 .. n : t[p] \in Int
      BY <1>1
    <3>2. 1 <= n + 1 /\ 1 \in Int /\ n \in Int
      OBVIOUS
    <3> QED
      BY ONLY <3>1, <3>2, CarriesExist
  <2> QED
    BY <1>2, <2>1, Zenon
<1>4. PICK sum : sum = CHOOSE u : P(u)
  OBVIOUS
<1>5. MultiplyAdd(s, w, m) = AddedWith(s, w, sum)
  <2>1. MultiplyAdd(s, w, m) = AddedWith(s, w, CHOOSE u : AreSums(s, w, m, u))
    BY Zenon DEF MultiplyAdd, AddedWith, AreSums
  <2> QED
    BY <1>4, <2>1, Zenon
<1> HIDE DEF P
<1>6. P(sum)
  BY <1>3, <1>4, Zenon
<1>7. Carries(sum, t, 1, n)
  BY <1>2, <1>6
<1>8. PICK r : r = MultiplyAdd(s, w, m)
  OBVIOUS
<1>9. /\ r.carry = sum[1] \div DIG_BASE
      /\ r.rem = [k \in 1 .. len |-> IF k \in a .. a + n - 1
                                     THEN sum[k - a + 1] % DIG_BASE ELSE s.rem[k]]
  <2>1. DOMAIN s.rem = 1 .. len
    BY DEF IsLine
  <2>2. /\ r.carry = sum[1] \div DIG_BASE
        /\ r.rem = [k \in DOMAIN s.rem |-> IF k \in s.start1 .. s.start1 + Len(w) - 1
                                           THEN sum[k - s.start1 + 1] % DIG_BASE ELSE s.rem[k]]
    BY ONLY <1>5, <1>8 DEF AddedWith
  <2> QED
    BY <2>1, <2>2, Zenon
<1>10. ASSUME NEW k \in 1 .. n
       PROVE  /\ Span(r.rem, a, n)[k] = sum[1 + k - 1] % DIG_BASE
              /\ t[k] = t[1 + k - 1]
  <2>1. a + k - 1 \in 1 .. len /\ a + k - 1 \in a .. a + n - 1 /\ (a + k - 1) - a + 1 = k
        /\ 1 + k - 1 = k
    BY SMTT(60)
  <2>2. Span(r.rem, a, n)[k] = r.rem[a + k - 1]
    BY Zenon DEF Span
  <2>3. r.rem[a + k - 1] = sum[(a + k - 1) - a + 1] % DIG_BASE
    BY <1>9, <2>1, Zenon
  <2> QED
    BY <2>1, <2>2, <2>3
<1>11. TakenOut(sum, t, Span(r.rem, a, n), 1, n)
  <2>1. n = 1 + n - 1 /\ 1 \in Int /\ n \in Int
    OBVIOUS
  <2>2. \A p \in 1 .. n : t[p] \in Int
    BY <1>1
  <2>3. \A k \in 1 .. n : Span(r.rem, a, n)[k] = sum[1 + k - 1] % DIG_BASE /\ t[k] = t[1 + k - 1]
    BY <1>10
  <2> QED
    BY ONLY <1>7, <2>1, <2>2, <2>3, n \in Nat, Carrying, ZenonT(60)
<1>12. Positional(t, n) = Positional(Span(s.rem, a, n), n) + m * Positional(w, n)
  <2>1. ASSUME NEW k \in 1 .. n
        PROVE  /\ Span(s.rem, a, n)[k] \in Int /\ w[k] \in Int
               /\ t[k] = Span(s.rem, a, n)[k] + m * w[k]
    BY <1>1 DEF Span
  <2>2. \A k \in 1 .. n : /\ Span(s.rem, a, n)[k] \in Int /\ w[k] \in Int
                         /\ t[k] = Span(s.rem, a, n)[k] + m * w[k]
    BY <2>1, Zenon
  <2> QED
    BY ONLY <2>2, n \in Nat, m \in Int, PositionalLinear
<1>13. IsLine(r.rem, len)
  <2>1. ASSUME NEW k \in 1 .. len PROVE r.rem[k] \in 0 .. DIG_MAX
    <3>1. CASE k \in a .. a + n - 1
      <4>1. PICK j \in 1 .. n : j = k - a + 1 /\ k = a + j - 1
        BY <3>1
      <4>2. Span(r.rem, a, n)[j] = r.rem[k]
        BY <4>1, Zenon DEF Span
      <4>3. Span(r.rem, a, n)[j] \in 0 .. DIG_MAX
        BY <1>11 DEF TakenOut, AreWords
      <4> QED
        BY <4>2, <4>3
    <3>2. CASE k \notin a .. a + n - 1
      <4>1. r.rem[k] = s.rem[k]
        BY <1>9, <3>2, Zenon
      <4> QED
        BY <4>1 DEF IsLine
    <3> QED
      BY <3>1, <3>2
  <2>2. r.rem = [k \in 1 .. len |-> r.rem[k]]
    BY <1>9, Zenon
  <2> QED
    BY <2>1, <2>2 DEF IsLine
<1>14. \A k \in 1 .. len : k \notin a .. a + n - 1 => r.rem[k] = s.rem[k]
  BY <1>9, Zenon
<1>15. r.carry \in Int
       /\ Positional(t, n) = r.carry * Power(DIG_BASE, n) + Positional(Span(r.rem, a, n), n)
  BY <1>9, <1>11 DEF TakenOut
<1> QED
  BY <1>8, <1>12, <1>13, <1>14, <1>15, Zenon DEF Added

(* What is left after the guess was subtracted: the borrow is the word     *)
(* before, or one more if the guess was one too large.                     *)
LEMMA Borrowed ==
    ASSUME NEW m \in Nat \ {0}, NEW V \in Nat \ {0}, V < m, NEW X \in Nat,
           NEW q \in Nat, q * V <= X, X < (q + 1) * V,
           NEW d \in Nat, NEW P \in Nat, X = d * m + P,
           NEW c \in Int, NEW Q \in Nat, Q < m, NEW g \in Int, P + (-g) * V = c * m + Q
    PROVE  /\ g = q => d + c = 0 /\ Q = X - q * V
           /\ g = q + 1 => d + c = -1 /\ Q + V = m + (X - q * V)
<1>1. PICK qV \in Int, dm \in Int, cm \in Int, e \in Int, em \in Int, gV \in Int :
        /\ qV = q * V /\ dm = d * m /\ cm = c * m /\ e = d + c /\ em = e * m /\ gV = g * V
  OBVIOUS
<1>2. em = dm + cm /\ (-g) * V = -gV /\ (q + 1) * V = qV + V
  BY <1>1
<1>3. X - gV = em + Q
  BY <1>1, <1>2
<1>4. qV <= X /\ X < qV + V
  BY <1>1, <1>2
<1>5. CASE g = q
  <2>1. em + Q = X - qV
    BY <1>1, <1>3, <1>5
  <2>2. X - qV \in Nat /\ X - qV < 1 * m
    BY <1>1, <1>4
  <2>3. e \in 0 .. 1 - 1
    BY <1>1, <2>1, <2>2, CarryRange
  <2>4. e = 0
    BY <2>3
  <2>5. em = 0
    BY <1>1, <2>4
  <2> QED
    BY <1>1, <1>5, <2>1, <2>4, <2>5
<1>6. CASE g = q + 1
  <2>1. gV = qV + V
    BY <1>1, <1>2, <1>6
  <2>2. em + Q = X - qV - V
    BY <1>1, <1>3, <2>1
  <2>3. PICK k \in Int, km \in Int : k = e + 1 /\ km = k * m /\ km = em + m
    BY <1>1
  <2>4. km + Q = (X - qV) + (m - V)
    BY <1>1, <2>2, <2>3
  <2>5. (X - qV) + (m - V) \in Nat /\ (X - qV) + (m - V) < 1 * m
    BY <1>1, <1>4
  <2>6. k \in 0 .. 1 - 1
    BY <2>3, <2>4, <2>5, CarryRange
  <2>7. k = 0
    BY <2>6
  <2>8. km = 0
    BY <2>3, <2>7
  <2> QED
    BY <1>1, <1>6, <2>3, <2>4, <2>7, <2>8
<1> QED
  BY <1>5, <1>6

(* Adding the divisor back carries out of the words under it.              *)
LEMMA AddedBack ==
    ASSUME NEW m \in Nat \ {0}, NEW V \in Int, NEW Q \in Int, NEW R \in Nat, R < m, Q + V = m + R,
           NEW c \in Int, NEW T \in Nat, T < m, Q + 1 * V = c * m + T
    PROVE  T = R
<1>1. PICK S \in Int : S = Q + V /\ S = m * 1 + R /\ S = m * c + T
  OBVIOUS
<1>2. R \in 0 .. m - 1 /\ T \in 0 .. m - 1 /\ 1 \in Int
  OBVIOUS
<1>3. S % m = R
  BY <1>1, <1>2, DivisionIs
<1>4. S % m = T
  BY <1>1, <1>2, DivisionIs
<1> QED
  BY <1>3, <1>4

(* The word carried and the words over the divisor, read as one number.    *)
Faced(s, n, a, z) ==
    /\ AreWords(z, n + 1) /\ AreWords(Window(s, n), n) /\ AreWords(Span(s.rem, a, n), n)
    /\ z[1] = s.dcarry /\ z[2] = s.rem[a] /\ (n > 1 => z[3] = s.rem[a + 1])
    /\ Positional(z, n + 1)
         = s.dcarry * Power(DIG_BASE, n) + Positional(Span(s.rem, a, n), n)
    /\ Positional(z, n + 1)
         = Positional(Window(s, n), n) * DIG_BASE + s.rem[a + n - 1]

LEMMA Facing ==
    ASSUME NEW s, NEW n \in Nat \ {0}, NEW len \in Nat, IsLine(s.rem, len),
           NEW a \in Nat \ {0}, a = s.start1, a + n - 1 <= len, s.dcarry \in 0 .. DIG_MAX
    PROVE  \E z : Faced(s, n, a, z)
<1>1. DIG_BASE \in Nat \ {0} /\ DIG_MAX \in Nat
  BY Base
<1>2. PICK z : z = [k \in 1 .. n + 1 |-> IF k = 1 THEN s.dcarry ELSE s.rem[a + (k - 2)]]
  OBVIOUS
<1>3. PICK m \in Nat : m = n + 1
  OBVIOUS
<1>4. ASSUME NEW k \in 1 .. m PROVE z[k] \in 0 .. DIG_MAX
  <2>1. CASE k = 1
    BY <1>2, <1>3, <2>1
  <2>2. CASE k # 1
    <3>1. PICK j \in Int : j = a + (k - 2)
      OBVIOUS
    <3>2. j \in 1 .. len
      BY <1>3, <2>2, <3>1
    <3>3. z[k] = s.rem[j]
      BY <1>2, <1>3, <2>2, <3>1
    <3> QED
      BY <3>2, <3>3 DEF IsLine
  <2> QED
    BY <2>1, <2>2
<1>5. AreWords(z, m)
  BY <1>4 DEF AreWords
<1>6. z[1] = s.dcarry
  BY <1>2
<1>7. ASSUME NEW k \in 1 .. n PROVE z[k + 1] = Span(s.rem, a, n)[k] /\ z[k + 1] = s.rem[a + (k - 1)]
  <2>1. z[k + 1] = s.rem[a + ((k + 1) - 2)]
    BY <1>2
  <2>2. a + ((k + 1) - 2) = a + k - 1 /\ a + (k - 1) = a + k - 1
    OBVIOUS
  <2>3. Span(s.rem, a, n)[k] = s.rem[a + k - 1]
    BY Zenon DEF Span
  <2> QED
    BY <2>1, <2>2, <2>3
<1>8. z[2] = s.rem[a] /\ (n > 1 => z[3] = s.rem[a + 1])
  <2>1. 1 \in 1 .. n /\ (n > 1 => 2 \in 1 .. n) /\ 1 + 1 = 2 /\ 2 + 1 = 3 /\ a + (1 - 1) = a
        /\ a + (2 - 1) = a + 1
    OBVIOUS
  <2> QED
    BY <1>7, <2>1
<1>9. ASSUME NEW k \in 1 .. n PROVE Window(s, n)[k] = z[k] /\ z[k] \in Int /\ z[k] \in 0 .. DIG_MAX
  <2>1. Window(s, n)[k] = IF k = 1 THEN s.dcarry ELSE s.rem[s.start1 + (k - 2)]
    BY Zenon DEF Window
  <2>2. z[k] = IF k = 1 THEN s.dcarry ELSE s.rem[a + (k - 2)]
    BY <1>2
  <2>3. z[k] \in 0 .. DIG_MAX
    BY <1>3, <1>4
  <2> QED
    BY <1>1, <2>1, <2>2, <2>3
<1>10. AreWords(Window(s, n), n) /\ AreWords(Span(s.rem, a, n), n)
  <2>1. \A k \in 1 .. n : Span(s.rem, a, n)[k] \in 0 .. DIG_MAX
    <3>1. \A k \in 1 .. n : k + 1 \in 1 .. m
      BY <1>3
    <3> QED
      BY <1>4, <1>7, <3>1
  <2> QED
    BY <1>9, <2>1 DEF AreWords
<1>11. Positional(z, n + 1) = z[1] * Power(DIG_BASE, n) + Positional(Span(s.rem, a, n), n)
  <2>1. \A k \in 1 .. n + 1 : z[k] \in Int
    BY <1>1, <1>3, <1>4
  <2>2. \A k \in 1 .. n : Span(s.rem, a, n)[k] = z[k + 1]
    BY <1>7
  <2> QED
    BY ONLY n \in Nat, <2>1, <2>2, PositionalFirst
<1>12. Positional(z, n + 1) = Positional(z, n) * DIG_BASE + z[n + 1]
  <2>1. \A k \in 1 .. m : z[k] \in Int
    BY <1>1, <1>4
  <2>2. n \in 0 .. m - 1
    BY <1>3
  <2> QED
    BY ONLY m \in Nat, <2>1, <2>2, Positionals
<1>13. Positional(Window(s, n), n) = Positional(z, n)
  <2>1. \A k \in 1 .. n : z[k] \in Int /\ Window(s, n)[k] = z[k]
    BY <1>9
  <2> QED
    BY ONLY n \in Nat, <2>1, PositionalSame
<1>14. z[n + 1] = s.rem[a + n - 1]
  <2>1. n \in 1 .. n /\ a + (n - 1) = a + n - 1
    OBVIOUS
  <2> QED
    BY <1>7, <2>1
<1>15. Faced(s, n, a, z)
  BY <1>3, <1>5, <1>6, <1>8, <1>10, <1>11, <1>12, <1>13, <1>14 DEF Faced
<1> QED
  BY <1>15

(* The variables of the main loop.                                         *)
IsState(s) == s = [rem |-> s.rem, start1 |-> s.start1, dcarry |-> s.dcarry, words |-> s.words]

Subtracted(r, s, n, len, a, q, R) ==
    /\ IsState(r) /\ IsLine(r.rem, len)
    /\ \A k \in 1 .. len : k \notin a .. a + n - 1 => r.rem[k] = s.rem[k]
    /\ r.start1 = a + 1
    /\ r.dcarry = r.rem[a]
    /\ r.words = Append(s.words, q)
    /\ Positional(Span(r.rem, a, n), n) = R

(* D4 to D6 make the right word and the right rest of either guess.        *)
LEMMA SubtractIs ==
    ASSUME NEW s, IsState(s), NEW w, NEW n \in Nat \ {0}, n = Len(w), AreWords(w, n), NEW len \in Nat,
           IsLine(s.rem, len), NEW a \in Nat \ {0}, a = s.start1, a + n - 1 <= len,
           s.dcarry \in 0 .. DIG_MAX, NEW V \in Nat \ {0}, V = Positional(w, n),
           NEW q \in Nat, NEW X \in Nat, q * V <= X, X < (q + 1) * V,
           X = s.dcarry * Power(DIG_BASE, n) + Positional(Span(s.rem, a, n), n),
           NEW g, g = q \/ g = q + 1
    PROVE  Subtracted(Subtract(s, w, g), s, n, len, a, q, X - q * V)
<1>0. DIG_BASE \in Nat \ {0} /\ DIG_MAX \in Nat
  BY Base
<1>15. \A k \in 1 .. n : a + k - 1 \in 1 .. len
  BY ONLY a \in Nat \ {0}, n \in Nat, len \in Nat, a + n - 1 <= len
<1>1. PICK m \in Nat \ {0} : m = Power(DIG_BASE, n)
  BY <1>0, PowerPositive
<1>2. V < m
  BY <1>1, PositionalRange
<1>3. PICK d \in Nat, P \in Nat : d = s.dcarry /\ P = Positional(Span(s.rem, a, n), n)
  <2>1. AreWords(Span(s.rem, a, n), n)
    <3>1. \A k \in 1 .. n : a + k - 1 \in 1 .. len
        BY <1>15
    <3>2. \A k \in 1 .. n : Span(s.rem, a, n)[k] = s.rem[a + k - 1]
      BY Zenon DEF Span
    <3> QED
      BY <3>1, <3>2 DEF AreWords, IsLine
  <2>2. Positional(Span(s.rem, a, n), n) \in Nat
    BY <2>1, PositionalRange
  <2>3. s.dcarry \in Nat
    BY <1>0
  <2> QED
    BY <2>2, <2>3
<1>4. PICK less : less = MultiplyAdd(s, w, -g)
  OBVIOUS
<1>5. g \in Int /\ -g \in Int /\ n \in Nat
  BY ONLY g = q \/ g = q + 1, q \in Nat, n \in Nat \ {0}
<1>6. Added(less, s.rem, w, n, len, a, -g)
  BY ONLY <1>4, <1>5, n = Len(w), AreWords(w, n), len \in Nat, IsLine(s.rem, len), a \in Nat \ {0},
          a = s.start1, a + n - 1 <= len, MultiplyAdds
<1>7. AreWords(Span(less.rem, a, n), n)
  <2>1. \A k \in 1 .. n : a + k - 1 \in 1 .. len
        BY <1>15
  <2>2. \A k \in 1 .. n : Span(less.rem, a, n)[k] = less.rem[a + k - 1]
    BY Zenon DEF Span
  <2> QED
    BY <1>6, <2>1, <2>2 DEF AreWords, IsLine, Added
<1>8. PICK c \in Int, Q \in Nat : c = less.carry /\ Q = Positional(Span(less.rem, a, n), n) /\ Q < m
  <2>1. less.carry \in Int
    BY <1>6 DEF Added
  <2>2. Positional(Span(less.rem, a, n), n) \in Nat /\ Positional(Span(less.rem, a, n), n) < m
    BY <1>1, <1>5, <1>7, PositionalRange
  <2> QED
    BY <2>1, <2>2
<1>9. P + (-g) * V = c * m + Q
  BY <1>1, <1>3, <1>6, <1>8, V = Positional(w, n), Zenon DEF Added
<1>10. /\ g = q => d + c = 0 /\ Q = X - q * V
       /\ g = q + 1 => d + c = -1 /\ Q + V = m + (X - q * V)
  <2>1. X = d * m + P
    BY <1>1, <1>3
  <2>2. Q < m
    BY <1>8
  <2> QED
    BY ONLY <2>2, <1>2, <1>5, <1>9, <2>1, m \in Nat \ {0}, V \in Nat \ {0}, X \in Nat, q \in Nat,
            q * V <= X, X < (q + 1) * V, d \in Nat, P \in Nat, c \in Int, Q \in Nat, Borrowed
<1>11. PICK r : r = Subtract(s, w, g)
  OBVIOUS
<1>12. r = AddBack(s, w, g, less)
  BY <1>4, <1>11, Zenon DEF Subtract
<1>13. CASE g = q
  <2>1. s.dcarry + less.carry = 0
    BY <1>3, <1>8, <1>10, <1>13
  <2>2. ~(s.dcarry + less.carry < 0)
    BY <2>1
  <2>3. r = [rem |-> less.rem, start1 |-> s.start1 + 1, dcarry |-> less.rem[s.start1],
             words |-> Append(s.words, g)]
    BY <1>12, <2>2, Zenon DEF AddBack
  <2>4. IsState(r) /\ r.rem = less.rem /\ r.start1 = a + 1 /\ r.dcarry = r.rem[a] /\ r.words = Append(s.words, q)
    BY ONLY <1>13, <2>3, a = s.start1 DEF IsState
  <2> QED
    BY <1>6, <1>8, <1>10, <1>11, <1>13, <2>4 DEF Subtracted, Added
<1>14. CASE g = q + 1
  <2>1. s.dcarry + less.carry = -1
    BY <1>3, <1>8, <1>10, <1>14
  <2>2. s.dcarry + less.carry < 0
    BY <2>1
  <2>3. PICK t : t = [s EXCEPT !.rem = less.rem]
    OBVIOUS
  <2>4. PICK back : back = MultiplyAdd(t, w, 1)
    OBVIOUS
  <2>5. r = [rem |-> back.rem, start1 |-> s.start1 + 1, dcarry |-> back.rem[s.start1],
             words |-> Append(s.words, g - 1)]
    BY <1>12, <2>2, <2>3, <2>4, Zenon DEF AddBack
  <2>6. IsState(r) /\ r.rem = back.rem /\ r.start1 = a + 1 /\ r.dcarry = r.rem[a] /\ r.words = Append(s.words, q)
    <3>1. g - 1 = q
      BY <1>14
    <3> QED
      BY ONLY <2>5, <3>1, a = s.start1 DEF IsState
  <2>7. Added(back, less.rem, w, n, len, a, 1)
    <3>1. t.rem = less.rem /\ t.start1 = a
      BY ONLY <2>3, IsState(s), a = s.start1 DEF IsState
    <3>2. IsLine(t.rem, len) /\ 1 \in Int
      BY <1>6, <3>1 DEF Added
    <3>3. Added(back, t.rem, w, n, len, a, 1)
      BY ONLY <1>5, <2>4, <3>1, <3>2, n = Len(w), AreWords(w, n), len \in Nat, a \in Nat \ {0},
              a + n - 1 <= len, MultiplyAdds
    <3> QED
      BY <3>1, <3>3
  <2>8. PICK e \in Int, T \in Nat : e = back.carry /\ T = Positional(Span(back.rem, a, n), n) /\ T < m
    <3>1. back.carry \in Int /\ IsLine(back.rem, len)
      BY <2>7 DEF Added
    <3>2. AreWords(Span(back.rem, a, n), n)
      <4>1. \A k \in 1 .. n : a + k - 1 \in 1 .. len
        BY <1>15
      <4>2. \A k \in 1 .. n : Span(back.rem, a, n)[k] = back.rem[a + k - 1]
        BY Zenon DEF Span
      <4> QED
        BY <3>1, <4>1, <4>2 DEF AreWords, IsLine
    <3>3. Positional(Span(back.rem, a, n), n) \in Nat /\ Positional(Span(back.rem, a, n), n) < m
      BY <1>1, <1>5, <3>2, PositionalRange
    <3> QED
      BY <3>1, <3>3
  <2>9. Q + 1 * V = e * m + T
    BY <1>1, <1>8, <2>7, <2>8, V = Positional(w, n), Zenon DEF Added
  <2>10. T = X - q * V
    <3>1. PICK R \in Nat : R = X - q * V /\ R < m
      <4>1. PICK qV \in Int : qV = q * V
        OBVIOUS
      <4>2. (q + 1) * V = qV + V
        BY <4>1
      <4> QED
        BY <1>2, <4>1, <4>2
    <3>2. Q + V = m + R
      BY <1>10, <1>14, <3>1
    <3> QED
      BY ONLY <2>8, <2>9, <3>1, <3>2, m \in Nat \ {0}, V \in Nat, Q \in Nat, AddedBack
  <2>11. \A k \in 1 .. len : k \notin a .. a + n - 1 => r.rem[k] = s.rem[k]
    BY <1>6, <2>6, <2>7 DEF Added
  <2>12. IsLine(r.rem, len) /\ Positional(Span(r.rem, a, n), n) = X - q * V
    BY <2>6, <2>7, <2>8, <2>10 DEF Added
  <2> QED
    BY <1>11, <2>6, <2>11, <2>12 DEF Subtracted
<1> QED
  BY <1>13, <1>14

Turned(r, s, n, len, a, V, Z, q, Y) ==
    /\ IsState(r) /\ IsLine(r.rem, len)
    /\ \A k \in 1 .. len : k \notin a .. a + n - 1 => r.rem[k] = s.rem[k]
    /\ r.start1 = a + 1
    /\ r.dcarry \in 0 .. DIG_MAX
    /\ r.words = Append(s.words, q)
    /\ Y = Positional(Window(r, n), n) /\ Y < V
    /\ Z * DIG_BASE + s.rem[a + n - 1] = q * V + Y

IsTurned(r, s, n, len, a, V, Z) ==
    \E q \in 0 .. DIG_MAX, Y \in Nat : Turned(r, s, n, len, a, V, Z, q, Y)

Divided(X, V, q, Y) == X = q * V + Y /\ Y < V /\ q * V <= X /\ X < (q + 1) * V

(* The next number has one word more than a rest less than the divisor.    *)
LEMMA NextQuotient ==
    ASSUME NEW B \in Nat \ {0}, NEW V \in Nat \ {0}, NEW Z \in Nat, Z < V, NEW t \in 0 .. B - 1,
           NEW X \in Nat, X = Z * B + t
    PROVE  \E q \in 0 .. B - 1, Y \in Nat : Divided(X, V, q, Y)
<1>1. PICK q \in Nat : q * V <= X /\ X < (q + 1) * V
  BY QuotientExists
<1>2. PICK qV \in Nat, ZB \in Nat, VB \in Nat :
        qV = q * V /\ ZB = Z * B /\ VB = V * B /\ (q + 1) * V = qV + V /\ X = ZB + t
  OBVIOUS
<1>3. ZB + B <= VB
  <2>1. (Z + 1) * B <= V * B
    BY MulMonotonic
  <2> QED
    BY <1>2, <2>1
<1>4. q * V < B * V
  <2>1. B * V = VB
    BY <1>2
  <2> QED
    BY ONLY <1>1, <1>2, <1>3, <2>1, t \in 0 .. B - 1, X \in Nat, B \in Nat
<1>5. q < B
  BY <1>4, MulOrder
<1>6. PICK Y \in Nat : Y = X - qV
  BY <1>1, <1>2
<1>7. X = q * V + Y /\ Y < V
  BY ONLY <1>1, <1>2, <1>6, X \in Nat, V \in Nat
<1>8. q \in 0 .. B - 1
  BY <1>5
<1>9. Divided(X, V, q, Y)
  BY <1>1, <1>7, Zenon DEF Divided
<1> QED
  BY <1>8, <1>9, Zenon

(* A turn of the loop makes the word of the quotient, and leaves the rest. *)
LEMMA TurnIs ==
    ASSUME NEW s, IsState(s), NEW w, NEW n \in Nat \ {0}, n = Len(w), AreWords(w, n), w[1] # 0,
           NEW len \in Nat, IsLine(s.rem, len),
           NEW a \in Nat \ {0}, a = s.start1, a + n - 1 <= len, a + 1 <= len,
           s.dcarry \in 0 .. DIG_MAX, NEW V \in Nat \ {0}, V = Positional(w, n),
           NEW Z \in Nat, Z = Positional(Window(s, n), n), Z < V
    PROVE  IsTurned(NextWord(s, w), s, n, len, a, V, Z)
<1>0. PICK B \in Nat \ {0} : B = DIG_BASE /\ DIG_MAX = B - 1
  BY Base
<1>1. PICK z : Faced(s, n, a, z)
  BY Facing
<1>2. PICK X \in Nat : X = Positional(z, n + 1)
  <2>1. n + 1 \in Nat /\ AreWords(z, n + 1)
    BY <1>1 DEF Faced
  <2> QED
    BY <2>1, PositionalRange
<1>3. X = Z * B + s.rem[a + n - 1] /\ s.rem[a + n - 1] \in 0 .. B - 1
  <2>1. a + n - 1 \in 1 .. len
    BY ONLY a \in Nat \ {0}, n \in Nat \ {0}, len \in Nat, a + n - 1 <= len
  <2>2. s.rem[a + n - 1] \in 0 .. B - 1
    BY <1>0, <2>1 DEF IsLine
  <2>3. Positional(z, n + 1) = Positional(Window(s, n), n) * DIG_BASE + s.rem[a + n - 1]
    BY <1>1, Zenon DEF Faced
  <2> QED
    BY <1>0, <1>2, <2>2, <2>3, Zenon
<1>4. PICK q \in 0 .. B - 1, Y \in Nat : X = q * V + Y /\ Y < V /\ q * V <= X /\ X < (q + 1) * V
  <2>1. PICK t \in 0 .. B - 1 : X = Z * B + t
    BY <1>3, Zenon
  <2>2. PICK q \in 0 .. B - 1, Y \in Nat : Divided(X, V, q, Y)
    BY ONLY <2>1, B \in Nat \ {0}, V \in Nat \ {0}, Z \in Nat, Z < V, X \in Nat, NextQuotient
  <2> QED
    BY <2>2, Zenon DEF Divided
<1>5. PICK g : g = IF s.dcarry = 0 /\ s.rem[s.start1] < w[1] THEN 0 ELSE Guess(s, w)
  OBVIOUS
<1>6. NextWord(s, w) = Subtract(s, w, g)
  BY <1>5, Zenon DEF NextWord
<1>7. q \in Nat /\ q <= DIG_MAX
  BY <1>0
<1>8. g = q \/ g = q + 1
  <2>1. CASE s.dcarry = 0 /\ s.rem[s.start1] < w[1]
    <3>1. Positional(Span(s.rem, a, n), n) < V
      <4>1. AreWords(Span(s.rem, a, n), n)
        BY <1>1 DEF Faced
      <4>2. Span(s.rem, a, n)[1] < w[1]
        <5>1. 1 \in 1 .. n /\ a + 1 - 1 = a
          OBVIOUS
        <5>2. Span(s.rem, a, n)[1] = s.rem[a + 1 - 1]
          BY <5>1, Zenon DEF Span
        <5> QED
          BY <2>1, <5>1, <5>2
      <4>3. n \in Nat /\ 1 \in 1 .. n /\ \A k \in 1 .. 1 - 1 : Span(s.rem, a, n)[k] = w[k]
        OBVIOUS
      <4> QED
        BY ONLY <4>1, <4>2, <4>3, AreWords(w, n), V = Positional(w, n), PositionalOrder
    <3>2. X < V
      <4>1. X = 0 * Power(DIG_BASE, n) + Positional(Span(s.rem, a, n), n)
        BY <1>1, <1>2, <2>1 DEF Faced
      <4>2. Power(DIG_BASE, n) \in Int /\ Positional(Span(s.rem, a, n), n) \in Nat
        <5>1. DIG_BASE \in Int /\ n \in Nat
          BY Base
        <5>2. AreWords(Span(s.rem, a, n), n)
          BY <1>1 DEF Faced
        <5> QED
          BY <5>1, <5>2, Powers, PositionalRange
      <4> QED
        BY <3>1, <4>1, <4>2
    <3>3. q * V < (0 + 1) * V
      BY <1>4, <3>2
    <3>4. q = 0
      BY ONLY <1>7, <3>3, V \in Nat \ {0}, Smaller
    <3> QED
      BY <1>5, <2>1, <3>4
  <2>2. CASE ~(s.dcarry = 0 /\ s.rem[s.start1] < w[1])
    <3>1. g = Guess(s, w)
      BY <1>5, <2>2
    <3>2. AreWords(z, n + 1) /\ z[1] = s.dcarry /\ z[2] = s.rem[s.start1]
          /\ (n > 1 => z[3] = s.rem[s.start1 + 1])
      BY <1>1 DEF Faced
    <3>3. s.rem[s.start1 + 1] \in 0 .. DIG_MAX
      <4>1. a + 1 \in 1 .. len
        OBVIOUS
      <4> QED
        BY <4>1 DEF IsLine
    <3>4. q * V <= X /\ X < (q + 1) * V
      BY <1>4
    <3>5. GuessGiven(s, w, n, z, V, X, q)
      BY <1>2, <1>7, <3>2, <3>3, <3>4, Zenon DEF GuessGiven
    <3>6. Guess(s, w) = q \/ Guess(s, w) = q + 1
      BY ONLY <1>7, <3>5, n \in Nat \ {0}, V \in Nat \ {0}, X \in Nat, GuessFits
    <3> QED
      BY <3>1, <3>6
  <2> QED
    BY <2>1, <2>2
<1>9. PICK r : r = NextWord(s, w)
  OBVIOUS
<1>10. Subtracted(r, s, n, len, a, q, X - q * V)
  <2>1. X = s.dcarry * Power(DIG_BASE, n) + Positional(Span(s.rem, a, n), n)
    BY <1>1, <1>2 DEF Faced
  <2>2. q * V <= X /\ X < (q + 1) * V
    BY <1>4
  <2>3. Subtracted(Subtract(s, w, g), s, n, len, a, q, X - q * V)
    BY ONLY <1>7, <1>8, <2>1, <2>2, IsState(s), n \in Nat \ {0}, n = Len(w), AreWords(w, n),
            len \in Nat, IsLine(s.rem, len), a \in Nat \ {0}, a = s.start1, a + n - 1 <= len,
            s.dcarry \in 0 .. DIG_MAX, V \in Nat \ {0}, V = Positional(w, n), X \in Nat, SubtractIs
  <2> QED
    BY <1>6, <1>9, <2>3
<1>11. X - q * V = Y
  <2>1. q * V \in Int
    BY <1>7
  <2> QED
    BY <1>4, <2>1, SMTT(60)
<1>12. Window(r, n) = Span(r.rem, a, n)
  <2>1. ASSUME NEW k \in 1 .. n
        PROVE  (IF k = 1 THEN r.dcarry ELSE r.rem[r.start1 + (k - 2)]) = r.rem[a + k - 1]
    <3>1. r.dcarry = r.rem[a] /\ r.start1 = a + 1
      BY <1>10 DEF Subtracted
    <3>2. (k = 1 => a + k - 1 = a) /\ (a + 1) + (k - 2) = a + k - 1
      BY ONLY a \in Nat, k \in 1 .. n, n \in Nat
    <3> QED
      BY <3>1, <3>2
  <2> QED
    BY <2>1, Zenon DEF Window, Span
<1>13. r.dcarry \in 0 .. DIG_MAX
  <2>1. a \in 1 .. len
    BY ONLY a \in Nat \ {0}, n \in Nat \ {0}, len \in Nat, a + n - 1 <= len
  <2> QED
    BY <1>10, <2>1 DEF Subtracted, IsLine
<1>14. Turned(r, s, n, len, a, V, Z, q, Y)
  <2>1. Z * DIG_BASE + s.rem[a + n - 1] = q * V + Y
    BY <1>0, <1>3, <1>4
  <2>2. Y = Positional(Window(r, n), n) /\ Y < V
    BY <1>4, <1>10, <1>11, <1>12 DEF Subtracted
  <2> QED
    BY <1>10, <1>13, <2>1, <2>2 DEF Subtracted, Turned
<1> QED
  BY <1>0, <1>9, <1>14 DEF IsTurned

-----------------------------------------------------------------------------
(* All of its turns.                                                       *)

(* The loop, turn by turn.                                                 *)
StartOf(tmp, w) ==
    IF tmp[1] < w[1] THEN [rem |-> tmp, start1 |-> 2, dcarry |-> tmp[1], words |-> <<>>]
    ELSE [rem |-> tmp, start1 |-> 1, dcarry |-> 0, words |-> <<>>]

Turns(turn, tmp, w, N) ==
    turn = [i \in 0 .. N |-> IF i > 0 THEN NextWord(turn[i - 1], w) ELSE StartOf(tmp, w)]

LEMMA TurnsExist ==
    ASSUME NEW tmp, NEW w
    PROVE  \A N \in Nat : \E turn : Turns(turn, tmp, w, N)
<1> DEFINE K == {N \in Nat : \E turn : Turns(turn, tmp, w, N)}
<1>1. 0 \in K
  <2>1. PICK turn : turn = [i \in 0 .. 0 |-> StartOf(tmp, w)]
    OBVIOUS
  <2>2. [i \in 0 .. 0 |-> IF i > 0 THEN NextWord(turn[i - 1], w) ELSE StartOf(tmp, w)]
          = [i \in 0 .. 0 |-> StartOf(tmp, w)]
    <3>1. \A i \in 0 .. 0 : ~(i > 0)
      OBVIOUS
    <3> QED
      BY <3>1, Zenon
  <2>3. Turns(turn, tmp, w, 0)
    BY <2>1, <2>2, Zenon DEF Turns
  <2> QED
    BY <2>3
<1>2. ASSUME NEW N \in Nat, N \in K PROVE N + 1 \in K
  <2>1. PICK t : Turns(t, tmp, w, N)
    BY <1>2
  <2>2. PICK turn : turn = [i \in 0 .. N + 1 |-> IF i = N + 1 THEN NextWord(t[N], w) ELSE t[i]]
    OBVIOUS
  <2>3. ASSUME NEW i \in 0 .. N + 1
        PROVE  (IF i > 0 THEN NextWord(turn[i - 1], w) ELSE StartOf(tmp, w))
                 = (IF i = N + 1 THEN NextWord(t[N], w) ELSE t[i])
    <3>1. CASE i = N + 1
      <4>1. i > 0 /\ i - 1 = N /\ N \in 0 .. N + 1 /\ N # N + 1
        BY <3>1
      <4>2. turn[N] = t[N]
        BY <2>2, <4>1, Zenon
      <4> QED
        BY <3>1, <4>1, <4>2
    <3>2. CASE i # N + 1
      <4>1. i \in 0 .. N
        BY <3>2
      <4>2. t[i] = IF i > 0 THEN NextWord(t[i - 1], w) ELSE StartOf(tmp, w)
        BY <2>1, <4>1, Zenon DEF Turns
      <4>3. i > 0 => i - 1 \in 0 .. N + 1 /\ i - 1 # N + 1
        BY <4>1
      <4>4. i > 0 => turn[i - 1] = t[i - 1]
        BY <2>2, <4>3, Zenon
      <4> QED
        BY <3>2, <4>2, <4>4, Zenon
    <3> QED
      BY <3>1, <3>2
  <2>4. Turns(turn, tmp, w, N + 1)
    BY <2>2, <2>3, Zenon DEF Turns
  <2> QED
    BY <2>4
<1> HIDE DEF K
<1>3. \A N \in Nat : N \in K
  BY <1>1, <1>2, SetInduction
<1> QED
  BY <1>3 DEF K

LEMMA LoopIs ==
    ASSUME NEW tmp, NEW w, NEW N \in Nat
    PROVE  \E turn : Turns(turn, tmp, w, N) /\ Loop(tmp, w, N) = turn[N]
<1> DEFINE P(turn) == Turns(turn, tmp, w, N)
<1>1. PICK turn : turn = CHOOSE t : P(t)
  OBVIOUS
<1>2. Loop(tmp, w, N) = turn[N]
  <2>1. Loop(tmp, w, N) = (CHOOSE t : P(t))[N]
    BY Zenon DEF Loop, Turns, StartOf
  <2> QED
    BY <1>1, <2>1, Zenon
<1> HIDE DEF P
<1>3. P(turn)
  <2>1. \E t : P(t)
    BY TurnsExist DEF P
  <2> QED
    BY <1>1, <2>1, Zenon
<1> QED
  BY <1>2, <1>3 DEF P

(* What holds after i turns: the words made and the rest in the window are *)
(* the quotient and the remainder of the words of the dividend passed.     *)
Halfway(s, tmp, w, n, V, i, Q, Z) ==
    /\ Q = Positional(s.words, i)
    /\ Z = Positional(Window(s, n), n) /\ Z < V
    /\ Positional(tmp, s.start1 + n - 2) = Q * V + Z

Dividing(s, tmp, w, n, len, V, e, i) ==
    /\ IsState(s) /\ IsLine(s.rem, len)
    /\ s.start1 = 2 - e + i
    /\ s.dcarry \in 0 .. DIG_MAX
    /\ (e = 1 /\ i = 0 => s.dcarry = 0)
    /\ s.words \in Seq(0 .. DIG_MAX) /\ Len(s.words) = i
    /\ \A k \in 1 .. len : k >= s.start1 + n - 1 => s.rem[k] = tmp[k]
    /\ \E Q \in Nat, Z \in Nat : Halfway(s, tmp, w, n, V, i, Q, Z)

LEMMA LoopStarts ==
    ASSUME NEW tmp, NEW w, NEW n \in Nat \ {0}, AreWords(w, n), w[1] # 0,
           NEW len \in Nat, n <= len, IsLine(tmp, len),
           NEW V \in Nat \ {0}, V = Positional(w, n),
           NEW e \in 0 .. 1, e = IF tmp[1] < w[1] THEN 0 ELSE 1
    PROVE  Dividing(StartOf(tmp, w), tmp, w, n, len, V, e, 0)
<1>0. DIG_MAX \in Nat /\ DIG_BASE \in Nat
  BY Base
<1>1. PICK s : s = StartOf(tmp, w)
  OBVIOUS
<1>2. 1 \in 1 .. len /\ 1 \in 1 .. n
  OBVIOUS
<1>3. tmp[1] \in 0 .. DIG_MAX /\ w[1] \in 0 .. DIG_MAX
  BY <1>2 DEF IsLine, AreWords
<1>4. /\ IsState(s) /\ s.rem = tmp /\ s.words = <<>>
      /\ e = 0 => tmp[1] < w[1] /\ s.start1 = 2 /\ s.dcarry = tmp[1]
      /\ e = 1 => s.start1 = 1 /\ s.dcarry = 0
  <2>1. CASE tmp[1] < w[1]
    <3>1. s = [rem |-> tmp, start1 |-> 2, dcarry |-> tmp[1], words |-> <<>>] /\ e = 0
      BY <1>1, <2>1, Zenon DEF StartOf
    <3> QED
      BY ONLY <2>1, <3>1 DEF IsState
  <2>2. CASE ~(tmp[1] < w[1])
    <3>1. s = [rem |-> tmp, start1 |-> 1, dcarry |-> 0, words |-> <<>>] /\ e = 1
      BY <1>1, <2>2, Zenon DEF StartOf
    <3> QED
      BY ONLY <3>1 DEF IsState
  <2> QED
    BY <2>1, <2>2
<1>5. PICK v : v = Window(s, n)
  OBVIOUS
<1>6. /\ v[1] = s.dcarry
      /\ \A k \in 1 .. n : k # 1 => v[k] = tmp[s.start1 + (k - 2)]
  <2>1. \A k \in 1 .. n : v[k] = IF k = 1 THEN s.dcarry ELSE s.rem[s.start1 + (k - 2)]
    BY <1>5, Zenon DEF Window
  <2> QED
    BY <1>2, <1>4, <2>1
<1>7. \A k \in 1 .. n : v[k] \in 0 .. DIG_MAX
  <2>1. ASSUME NEW k \in 1 .. n, k # 1 PROVE v[k] \in 0 .. DIG_MAX
    <3>1. s.start1 + (k - 2) \in 1 .. len
      BY <1>4, <2>1
    <3> QED
      BY <1>6, <2>1, <3>1 DEF IsLine
  <2>2. v[1] \in 0 .. DIG_MAX
    BY <1>0, <1>3, <1>4, <1>6
  <2> QED
    BY <2>1, <2>2
<1>8. AreWords(v, n)
  BY <1>7 DEF AreWords
<1>9. Positional(v, n) \in Nat
  BY <1>8, PositionalRange
<1>10. Positional(v, n) < V
  <2>1. v[1] < w[1]
    <3>1. e = 0 \/ e = 1
      OBVIOUS
    <3> QED
      BY <1>3, <1>4, <1>6, <3>1
  <2>2. \A k \in 1 .. 1 - 1 : v[k] = w[k]
    OBVIOUS
  <2> QED
    BY <1>2, <1>8, <2>1, <2>2, PositionalOrder
<1>11. Positional(tmp, s.start1 + n - 2) = Positional(v, n)
  <2>1. \A k \in 1 .. n : tmp[k] \in 0 .. DIG_MAX /\ tmp[k] \in Int /\ v[k] \in Int
    <3>1. \A k \in 1 .. n : k \in 1 .. len
      OBVIOUS
    <3> QED
      BY <1>0, <1>7, <3>1 DEF IsLine
  <2>2. CASE e = 0
    <3>1. \A k \in 1 .. n : k # 1 => s.start1 + (k - 2) = k
      BY <1>4, <2>2
    <3>2. \A k \in 1 .. n : v[k] = tmp[k] /\ tmp[k] \in Int
      BY <1>4, <1>6, <2>1, <2>2, <3>1
    <3>3. Positional(v, n) = Positional(tmp, n)
      BY ONLY <3>2, n \in Nat \ {0}, PositionalSame
    <3>4. s.start1 + n - 2 = n
      BY <1>4, <2>2
    <3> QED
      BY <3>3, <3>4
  <2>3. CASE e = 1
    <3>1. PICK m \in Nat : m = n - 1 /\ n = m + 1
      OBVIOUS
    <3>2. ASSUME NEW k \in 1 .. m PROVE tmp[k] = v[k + 1]
      <4>1. k + 1 \in 1 .. n /\ k + 1 # 1 /\ s.start1 + ((k + 1) - 2) = k
        BY <1>4, <2>3, <3>1
      <4> QED
        BY <1>6, <4>1
    <3>3. \A k \in 1 .. m : tmp[k] = v[k + 1]
      BY <3>2
    <3>4. \A k \in 1 .. m + 1 : v[k] \in Int
      BY <2>1, <3>1
    <3>5. Positional(v, m + 1) = v[1] * Power(DIG_BASE, m) + Positional(tmp, m)
      BY ONLY <3>3, <3>4, m \in Nat, PositionalFirst
    <3>6. Power(DIG_BASE, m) \in Int /\ Positional(tmp, m) \in Int
      <4>1. \A k \in 1 .. m : tmp[k] \in Int
        BY <2>1, <3>1
      <4>2. DIG_BASE \in Int
        BY <1>0
      <4>3. m \in 0 .. m
        OBVIOUS
      <4>4. Positional(tmp, m) \in Int
        BY ONLY <4>1, <4>3, m \in Nat, Positionals
      <4>5. Power(DIG_BASE, m) \in Int
        BY <4>2, Powers
      <4> QED
        BY <4>4, <4>5
    <3>7. v[1] = 0
      BY <1>4, <1>6, <2>3
    <3>8. s.start1 + n - 2 = m
      BY <1>4, <2>3, <3>1
    <3> QED
      BY <3>1, <3>5, <3>6, <3>7, <3>8
  <2> QED
    BY <2>2, <2>3
<1>12. Halfway(s, tmp, w, n, V, 0, 0, Positional(v, n))
  <2>1. Positional(s.words, 0) = 0
    <3>1. 0 \in Nat /\ \A k \in 1 .. 0 : s.words[k] \in Int
      OBVIOUS
    <3> QED
      BY <3>1, Positionals
  <2>2. Positional(v, n) = 0 * V + Positional(v, n)
    BY <1>9
  <2> QED
    BY <1>5, <1>10, <1>11, <2>1, <2>2, Zenon DEF Halfway
<1>13. s.start1 = 2 - e + 0 /\ s.dcarry \in 0 .. DIG_MAX /\ (e = 1 /\ 0 = 0 => s.dcarry = 0)
  <2>1. e = 0 \/ e = 1
    OBVIOUS
  <2> QED
    BY <1>0, <1>3, <1>4, <2>1
<1>14. s.words \in Seq(0 .. DIG_MAX) /\ Len(s.words) = 0
  BY <1>4
<1>15. Dividing(s, tmp, w, n, len, V, e, 0)
  <2>1. \A k \in 1 .. len : k >= s.start1 + n - 1 => s.rem[k] = tmp[k]
    BY <1>4
  <2>2. \E Q \in Nat, Z \in Nat : Halfway(s, tmp, w, n, V, 0, Q, Z)
    BY <1>9, <1>12
  <2>3. IsLine(s.rem, len)
    BY <1>4
  <2> QED
    BY <1>4, <1>13, <1>14, <2>1, <2>2, <2>3, Zenon DEF Dividing
<1> QED
  BY <1>1, <1>15

LEMMA TurnDivides ==
    ASSUME NEW s, NEW tmp, NEW w, NEW n \in Nat \ {0}, n = Len(w), AreWords(w, n), w[1] # 0,
           NEW len \in Nat, IsLine(tmp, len),
           NEW V \in Nat \ {0}, V = Positional(w, n), NEW e \in 0 .. 1, NEW i \in Nat,
           i + 1 - e + n <= len, i + 1 - e + 2 <= len, Dividing(s, tmp, w, n, len, V, e, i)
    PROVE  Dividing(NextWord(s, w), tmp, w, n, len, V, e, i + 1)
<1>0. DIG_MAX \in Nat /\ DIG_BASE \in Nat
  BY Base
<1>1. /\ IsState(s) /\ IsLine(s.rem, len) /\ s.start1 = 2 - e + i
      /\ s.dcarry \in 0 .. DIG_MAX /\ s.words \in Seq(0 .. DIG_MAX) /\ Len(s.words) = i
      /\ \A k \in 1 .. len : k >= s.start1 + n - 1 => s.rem[k] = tmp[k]
  BY DEF Dividing
<1>2. PICK Q \in Nat, Z \in Nat : Halfway(s, tmp, w, n, V, i, Q, Z)
  BY Zenon DEF Dividing
<1>3. PICK a \in Nat \ {0} : a = s.start1 /\ a = 2 - e + i
  BY <1>1
<1>4. a + n - 1 <= len /\ a + 1 <= len
  BY <1>3
<1>5. PICK r : r = NextWord(s, w)
  OBVIOUS
<1>6. PICK q \in 0 .. DIG_MAX, Y \in Nat : Turned(r, s, n, len, a, V, Z, q, Y)
  <2>1. Z = Positional(Window(s, n), n) /\ Z < V
    BY <1>2 DEF Halfway
  <2>2. IsTurned(r, s, n, len, a, V, Z)
    BY ONLY <1>1, <1>3, <1>4, <1>5, <2>1, n \in Nat \ {0}, n = Len(w), AreWords(w, n), w[1] # 0,
            len \in Nat, V \in Nat \ {0}, V = Positional(w, n), Z \in Nat, TurnIs
  <2> QED
    BY <2>2, Zenon DEF IsTurned
<1>7. /\ IsState(r) /\ IsLine(r.rem, len) /\ r.start1 = a + 1 /\ r.dcarry \in 0 .. DIG_MAX
      /\ r.words = Append(s.words, q)
      /\ \A k \in 1 .. len : k \notin a .. a + n - 1 => r.rem[k] = s.rem[k]
      /\ Y = Positional(Window(r, n), n) /\ Y < V
      /\ Z * DIG_BASE + s.rem[a + n - 1] = q * V + Y
  BY <1>6, Zenon DEF Turned
<1>8. PICK m \in Nat : m = a + n - 2 /\ a + n - 1 = m + 1 /\ m + 1 <= len
  BY <1>4
<1>9. PICK p \in Int, t \in Int :
        p = Positional(tmp, m) /\ t = tmp[m + 1] /\ Positional(tmp, m + 1) = p * DIG_BASE + t
  <2>1. \A k \in 1 .. m + 1 : tmp[k] \in Int
    <3>1. \A k \in 1 .. m + 1 : k \in 1 .. len
      BY <1>8
    <3> QED
      BY <1>0, <3>1 DEF IsLine
  <2>2. m \in 0 .. (m + 1) - 1 /\ m \in 0 .. m + 1 /\ m + 1 \in Nat /\ m + 1 \in 1 .. m + 1
    BY <1>8
  <2>3. Positional(tmp, m) \in Int /\ Positional(tmp, m + 1) = Positional(tmp, m) * DIG_BASE + tmp[m + 1]
    BY ONLY <2>1, <2>2, Positionals
  <2> QED
    BY <2>1, <2>2, <2>3
<1>10. p = Q * V + Z
  <2>1. Positional(tmp, s.start1 + n - 2) = Q * V + Z
    BY <1>2, Zenon DEF Halfway
  <2> QED
    BY <1>3, <1>8, <1>9, <2>1
<1>11. s.rem[a + n - 1] = t
  <2>1. m + 1 \in 1 .. len /\ m + 1 >= s.start1 + n - 1
    BY <1>3, <1>8
  <2> QED
    BY <1>1, <1>8, <1>9, <2>1
<1>12. PICK R \in Nat : R = Q * DIG_BASE + q
  BY <1>0
<1>13. p * DIG_BASE + t = R * V + Y
  <2>1. PICK B \in Nat, QV \in Int, ZB \in Int, QVB \in Int, qV \in Int :
          /\ B = DIG_BASE /\ QV = Q * V /\ ZB = Z * B /\ QVB = QV * B /\ qV = q * V
    BY ONLY <1>0, Q \in Nat, V \in Nat, Z \in Nat, q \in 0 .. DIG_MAX
  <2>2. ZB + t = qV + Y
    BY <1>7, <1>11, <2>1
  <2>3. p * B = QVB + ZB
    <3>1. p = QV + Z
      BY <1>10, <2>1
    <3> QED
      BY ONLY <3>1, <2>1, Q \in Nat, Z \in Nat
  <2>4. R * V = QVB + qV
    <3>1. R = Q * B + q
      BY <1>12, <2>1
    <3>2. (Q * B + q) * V = (Q * V) * B + q * V
      BY ONLY Q \in Nat, B \in Nat, q \in 0 .. DIG_MAX, V \in Nat, <1>0
    <3> QED
      BY <2>1, <3>1, <3>2
  <2> QED
    BY ONLY <2>1, <2>2, <2>3, <2>4, t \in Int, Y \in Nat
<1>14. Positional(r.words, i + 1) = R
  <2>1. r.words \in Seq(0 .. DIG_MAX) /\ Len(r.words) = i + 1 /\ r.words[i + 1] = q
        /\ \A k \in 1 .. i : r.words[k] = s.words[k]
    <3>1. PICK u \in Seq(0 .. DIG_MAX) : u = s.words /\ Len(u) = i /\ r.words = Append(u, q)
      BY <1>1, <1>7
    <3> QED
      BY ONLY <3>1, i \in Nat, q \in 0 .. DIG_MAX
  <2>2. \A k \in 1 .. i + 1 : r.words[k] \in Int
    BY <1>0, <2>1, SMTT(60)
  <2>3. i + 1 \in Nat /\ i \in 0 .. (i + 1) - 1
    OBVIOUS
  <2>4. Positional(r.words, i + 1) = Positional(r.words, i) * DIG_BASE + r.words[i + 1]
    BY ONLY <2>2, <2>3, Positionals
  <2>5. Positional(r.words, i) = Positional(s.words, i)
    <3>1. \A k \in 1 .. i : s.words[k] \in Int /\ r.words[k] = s.words[k]
      <4>1. \A k \in 1 .. i : k \in 1 .. i + 1
        OBVIOUS
      <4> QED
        BY <2>1, <2>2, <4>1
    <3> QED
      BY ONLY <3>1, i \in Nat, PositionalSame
  <2>6. Positional(s.words, i) = Q
    BY <1>2 DEF Halfway
  <2> QED
    BY <1>12, <2>1, <2>4, <2>5, <2>6
<1>15. Halfway(r, tmp, w, n, V, i + 1, R, Y)
  <2>1. r.start1 + n - 2 = m + 1
    BY <1>7, <1>8
  <2>2. Positional(tmp, m + 1) = R * V + Y
    BY <1>9, <1>13
  <2> QED
    BY <1>7, <1>14, <2>1, <2>2, Zenon DEF Halfway
<1>16. \A k \in 1 .. len : k >= r.start1 + n - 1 => r.rem[k] = tmp[k]
  <2>1. ASSUME NEW k \in 1 .. len, k >= r.start1 + n - 1 PROVE r.rem[k] = tmp[k]
    <3>1. k \notin a .. a + n - 1 /\ k >= s.start1 + n - 1
      <4>1. r.start1 = a + 1 /\ s.start1 = a
        BY <1>3, <1>7
      <4> QED
        BY ONLY <2>1, <4>1, a \in Nat, n \in Nat, k \in 1 .. len
    <3> QED
      BY <1>1, <1>7, <3>1
  <2> QED
    BY <2>1
<1>17. /\ r.start1 = 2 - e + (i + 1) /\ r.words \in Seq(0 .. DIG_MAX) /\ Len(r.words) = i + 1
       /\ (e = 1 /\ i + 1 = 0 => r.dcarry = 0)
  <2>1. r.start1 = 2 - e + (i + 1)
    BY <1>3, <1>7
  <2>2. r.words \in Seq(0 .. DIG_MAX) /\ Len(r.words) = i + 1
    <3>1. PICK u \in Seq(0 .. DIG_MAX) : u = s.words /\ Len(u) = i /\ r.words = Append(u, q)
      BY <1>1, <1>7
    <3> QED
      BY ONLY <3>1, i \in Nat, q \in 0 .. DIG_MAX
  <2>3. i + 1 # 0
    OBVIOUS
  <2> QED
    BY <2>1, <2>2, <2>3
<1>18. \E P \in Nat, X \in Nat : Halfway(r, tmp, w, n, V, i + 1, P, X)
  BY <1>12, <1>15
<1>19. Dividing(r, tmp, w, n, len, V, e, i + 1)
  BY <1>7, <1>16, <1>17, <1>18, Zenon DEF Dividing
<1> QED
  BY <1>5, <1>19

LEMMA LoopDivides ==
    ASSUME NEW tmp, NEW w, NEW n \in Nat \ {0}, n = Len(w), AreWords(w, n), w[1] # 0,
           NEW len \in Nat, IsLine(tmp, len),
           NEW V \in Nat \ {0}, V = Positional(w, n),
           NEW e \in 0 .. 1, e = IF tmp[1] < w[1] THEN 0 ELSE 1,
           NEW N \in Nat, n <= len, N - e + n <= len, N - e + 2 <= len
    PROVE  Dividing(Loop(tmp, w, N), tmp, w, n, len, V, e, N)
<1>1. PICK turn : Turns(turn, tmp, w, N) /\ Loop(tmp, w, N) = turn[N]
  BY LoopIs
<1>2. \A i \in 0 .. N : turn[i] = IF i > 0 THEN NextWord(turn[i - 1], w) ELSE StartOf(tmp, w)
  BY <1>1, Zenon DEF Turns
<1> DEFINE K == {i \in Nat : i <= N => Dividing(turn[i], tmp, w, n, len, V, e, i)}
<1>3. 0 \in K
  <2>1. 0 \in 0 .. N /\ ~(0 > 0)
    OBVIOUS
  <2>2. turn[0] = StartOf(tmp, w)
    BY <1>2, <2>1, Zenon
  <2>3. Dividing(StartOf(tmp, w), tmp, w, n, len, V, e, 0)
    BY LoopStarts
  <2> QED
    BY <2>2, <2>3
<1>4. ASSUME NEW i \in Nat, i \in K PROVE i + 1 \in K
  <2> SUFFICES ASSUME i + 1 <= N PROVE Dividing(turn[i + 1], tmp, w, n, len, V, e, i + 1)
    OBVIOUS
  <2>1. i + 1 \in 0 .. N /\ i + 1 > 0 /\ (i + 1) - 1 = i /\ i <= N
    OBVIOUS
  <2>2. turn[i + 1] = NextWord(turn[i], w)
    BY <1>2, <2>1
  <2>3. Dividing(turn[i], tmp, w, n, len, V, e, i)
    BY <1>4, <2>1
  <2>4. i + 1 - e + n <= len /\ i + 1 - e + 2 <= len
    BY ONLY i + 1 <= N, N - e + n <= len, N - e + 2 <= len, i \in Nat, N \in Nat, n \in Nat \ {0},
            len \in Nat, e \in 0 .. 1
  <2>5. PICK s : s = turn[i]
    OBVIOUS
  <2>6. Dividing(NextWord(s, w), tmp, w, n, len, V, e, i + 1)
    BY ONLY <2>3, <2>4, <2>5, n \in Nat \ {0}, n = Len(w), AreWords(w, n), w[1] # 0, len \in Nat,
            IsLine(tmp, len), V \in Nat \ {0}, V = Positional(w, n), e \in 0 .. 1, i \in Nat, TurnDivides
  <2> QED
    BY <2>2, <2>5, <2>6
<1> HIDE DEF K
<1>5. \A i \in Nat : i \in K
  BY <1>3, <1>4, SetInduction
<1> QED
  BY <1>1, <1>5 DEF K

-----------------------------------------------------------------------------
(* The words of a decimal without the zeros around them.                   *)

(* The digits of a number.                                                 *)
HasDigits(u, R, k) == Power(R, k - 1) <= u /\ u < Power(R, k)

LEMMA DigitsExist ==
    ASSUME NEW R \in Nat \ {0, 1}, NEW u \in Nat \ {0}
    PROVE  \A n \in Nat : u < Power(R, n) => \E k \in 1 .. n : HasDigits(u, R, k)
<1> DEFINE K == {n \in Nat : u < Power(R, n) => \E k \in 1 .. n : HasDigits(u, R, k)}
<1>1. 0 \in K
  <2>1. Power(R, 0) = 1
    BY Powers
  <2> QED
    BY <2>1
<1>2. ASSUME NEW n \in Nat, n \in K PROVE n + 1 \in K
  <2> SUFFICES ASSUME u < Power(R, n + 1) PROVE \E k \in 1 .. n + 1 : HasDigits(u, R, k)
    OBVIOUS
  <2>1. CASE u < Power(R, n)
    <3>1. PICK k \in 1 .. n : HasDigits(u, R, k)
      BY <1>2, <2>1
    <3>2. k \in 1 .. n + 1
      OBVIOUS
    <3> QED
      BY <3>1, <3>2
  <2>2. CASE ~(u < Power(R, n))
    <3>1. Power(R, n) \in Int
      BY Powers
    <3>2. Power(R, n) <= u /\ (n + 1) - 1 = n /\ n + 1 \in 1 .. n + 1
      BY <2>2, <3>1
    <3>3. HasDigits(u, R, n + 1)
      BY <3>2 DEF HasDigits
    <3> QED
      BY <3>2, <3>3
  <2> QED
    BY <2>1, <2>2
<1> HIDE DEF K
<1>3. \A n \in Nat : n \in K
  BY <1>1, <1>2, SetInduction
<1> QED
  BY <1>3 DEF K

LEMMA DigitsOrdered ==
    ASSUME NEW R \in Nat \ {0, 1}, NEW u \in Nat, NEW v \in Nat, u <= v,
           NEW k \in Nat \ {0}, NEW l \in Nat \ {0}, HasDigits(u, R, k), HasDigits(v, R, l)
    PROVE  k <= l
<1> SUFFICES ASSUME l < k PROVE FALSE
  OBVIOUS
<1>1. PICK j \in Nat : j = k - 1 /\ l <= j
  OBVIOUS
<1>2. R \in Nat \ {0} /\ R \in Int
  OBVIOUS
<1>3. Power(R, l) <= Power(R, j)
  BY <1>1, <1>2, PowerMonotonic
<1>4. Power(R, j) <= u /\ v < Power(R, l)
  BY <1>1 DEF HasDigits
<1>5. Power(R, l) \in Int /\ Power(R, j) \in Int
  BY <1>2, Powers
<1> QED
  BY ONLY <1>3, <1>4, <1>5, u \in Nat, v \in Nat, u <= v

(* L words after the first z.                                              *)
IsSub(v, s, z, L, S) == v \in Seq(S) /\ Len(v) = L /\ \A k \in 1 .. L : v[k] = s[z + k]

LEMMA Subs ==
    ASSUME NEW S, NEW s \in Seq(S), NEW z \in Nat, NEW L \in Nat, NEW n \in Nat, n = z + L,
           n <= Len(s)
    PROVE  IsSub(SubSeq(s, z + 1, n), s, z, L, S)
<1>1. PICK x \in Int : x = z + 1
  OBVIOUS
<1>2. \A k \in x .. n : s[k] \in S
  <2>1. \A k \in x .. n : k \in 1 .. Len(s)
    BY ONLY <1>1, z \in Nat, s \in Seq(S), n \in Nat, n <= Len(s)
  <2> QED
    BY <2>1
<1>3. /\ SubSeq(s, x, n) \in Seq(S)
      /\ Len(SubSeq(s, x, n)) = IF x <= n THEN n - x + 1 ELSE 0
      /\ \A k \in 1 .. n - x + 1 : SubSeq(s, x, n)[k] = s[x + k - 1]
  BY <1>2, SubSeqProperties
<1>4. (IF x <= n THEN n - x + 1 ELSE 0) = L /\ n - x + 1 = L
  BY ONLY <1>1, z \in Nat, L \in Nat, n = z + L
<1>5. \A k \in 1 .. L : x + k - 1 = z + k
  BY ONLY <1>1, z \in Nat, L \in Nat
<1> QED
  BY <1>1, <1>3, <1>4, <1>5 DEF IsSub

(* The words from the first that is not zero.                              *)
IsSignificant(d, w, L, u, k) ==
    /\ w = Significant(d)
    /\ w \in Seq(0 .. DIG_MAX) /\ Len(w) = L /\ L <= Len(d.buf)
    /\ AreWords(w, L)
    /\ u = w[1] /\ u <= DIG_MAX /\ HasDigits(u, Radix, k)
    /\ Positional(w, L) = Mantissa(d)
    /\ Prec(d) = (L - 1) * DIG_PER_DEC1 + k
    /\ FracDigits(d) = ROUND_UP(d.frac) * DIG_PER_DEC1

LeadingZeros(d) == {k \in 0 .. Len(d.buf) : \A i \in 1 .. k : d.buf[i] = 0}

LEMMA SignificantWords ==
    ASSUME NEW d \in Decimals, ~decimal_is_zero(d), NEW w, w = Significant(d)
    PROVE  \E L \in Nat \ {0}, u \in Nat \ {0}, k \in 1 .. DIG_PER_DEC1 :
               IsSignificant(d, w, L, u, k)
<1>0. DIG_MAX \in Nat /\ DIG_BASE \in Nat \ {0} /\ Radix \in Nat \ {0, 1} /\ DIG_MAX = DIG_BASE - 1
      /\ DIG_BASE = Power(Radix, DIG_PER_DEC1) /\ DIG_PER_DEC1 \in Nat
  BY Base, WordAssumption DEF DIG_BASE
<1>a. PICK b \in Seq(0 .. DIG_MAX) : b = d.buf
  <2>1. d.buf \in Seq(0 .. DIG_MAX)
    BY DecimalTypes
  <2> QED
    BY <2>1
<1>1. PICK n \in Nat : b = d.buf /\ n = Len(b) /\ DOMAIN b = 1 .. n
  BY <1>a
<1>2. PICK z : z = Max(LeadingZeros(d))
  OBVIOUS
<1>3. /\ z \in 0 .. n /\ (\A i \in 1 .. z : b[i] = 0)
      /\ \A k \in 0 .. n : (\A i \in 1 .. k : b[i] = 0) => k <= z
  <2>1. LeadingZeros(d) = {k \in 0 .. n : \A i \in 1 .. k : b[i] = 0}
    BY <1>1, Zenon DEF LeadingZeros
  <2>2. 0 \in LeadingZeros(d) /\ LeadingZeros(d) \subseteq Int /\ \A y \in LeadingZeros(d) : y <= n
    BY <2>1
  <2>3. LeadingZeros(d) # {} /\ n \in Int
    BY <2>2
  <2>4. z \in LeadingZeros(d) /\ \A y \in LeadingZeros(d) : y <= z
    BY ONLY <1>2, <2>2, <2>3, Greatest
  <2> QED
    BY <2>1, <2>4
<1>4. z < n
  <2> SUFFICES ASSUME z = n PROVE FALSE
    BY <1>3
  <2>1. \A i \in DOMAIN d.buf : d.buf[i] = 0
    BY <1>1, <1>3
  <2> QED
    BY <2>1 DEF decimal_is_zero
<1>5. b[z + 1] # 0
  <2> SUFFICES ASSUME b[z + 1] = 0 PROVE FALSE
    OBVIOUS
  <2>1. z + 1 \in 0 .. n
    BY <1>3, <1>4
  <2>2. \A i \in 1 .. z + 1 : b[i] = 0
    <3>1. \A i \in 1 .. z + 1 : i = z + 1 \/ i \in 1 .. z
      BY <1>3
    <3> QED
      BY <1>3, <3>1
  <2>3. z + 1 <= z
    BY <1>3, <2>1, <2>2
  <2> QED
    BY <1>3, <2>3
<1>6. PICK L \in Nat \ {0} :
        /\ w \in Seq(0 .. DIG_MAX) /\ Len(w) = L /\ n = z + L
        /\ \A k \in 1 .. L : w[k] = b[z + k]
  <2>1. Significant(d) = SubSeq(b, z + 1, n)
    BY <1>1, <1>2, Zenon DEF Significant, LeadingZeros
  <2>2. PICK L \in Nat \ {0} : n = z + L
    BY <1>3, <1>4
  <2>3. w = SubSeq(b, z + 1, n)
    BY <2>1
  <2>4. w \in Seq(0 .. DIG_MAX) /\ Len(w) = L /\ \A k \in 1 .. L : w[k] = b[z + k]
    <3>1. z \in Nat /\ L \in Nat /\ n <= Len(b)
      BY <1>1, <1>3
    <3>2. IsSub(SubSeq(b, z + 1, n), b, z, L, 0 .. DIG_MAX)
      BY ONLY <2>2, <3>1, n \in Nat, b \in Seq(0 .. DIG_MAX), Subs
    <3> QED
      BY <2>3, <3>2 DEF IsSub
  <2> QED
    BY ONLY <2>2, <2>4, L \in Nat \ {0}
<1>7. \A k \in 1 .. L : w[k] \in 0 .. DIG_MAX
  <2>1. w \in Seq(0 .. DIG_MAX) /\ Len(w) = L
    BY <1>6
  <2>2. w \in [1 .. Len(w) -> 0 .. DIG_MAX]
    BY <2>1, LenProperties
  <2> QED
    BY <2>1, <2>2
<1>8. PICK u \in Nat \ {0} : u = w[1] /\ u <= DIG_MAX
  <2>1. w[1] \in 0 .. DIG_MAX /\ w[1] = b[z + 1]
    BY <1>6, <1>7
  <2> QED
    BY <1>0, <1>5, <2>1
<1>9. PICK k \in 1 .. DIG_PER_DEC1 : HasDigits(u, Radix, k)
  <2>1. u < Power(Radix, DIG_PER_DEC1)
    BY <1>0, <1>8
  <2> QED
    BY <1>0, <2>1, DigitsExist
<1>10. Prec(d) = (L - 1) * DIG_PER_DEC1 + k
  <2>1. PICK j : j = CHOOSE i \in 1 .. DIG_PER_DEC1 : HasDigits(u, Radix, i)
    OBVIOUS
  <2>2. j \in 1 .. DIG_PER_DEC1 /\ HasDigits(u, Radix, j)
    BY <1>9, <2>1, Zenon
  <2>3. j = k
    <3>1. u \in Nat /\ u <= u /\ j \in Nat \ {0} /\ k \in Nat \ {0}
      BY <1>0, <2>2
    <3>2. j <= k /\ k <= j
      BY ONLY <1>0, <1>9, <2>2, <3>1, DigitsOrdered
    <3> QED
      BY <3>1, <3>2
  <2>4. Prec(d) = (Len(w) - 1) * DIG_PER_DEC1
                    + (CHOOSE i \in 1 .. DIG_PER_DEC1 : HasDigits(w[1], Radix, i))
    BY Zenon DEF Prec, HasDigits
  <2> QED
    BY <1>6, <1>8, <2>1, <2>3, <2>4
<1>11. Positional(w, L) = Mantissa(d)
  <2>1. \A i \in 1 .. z + L : b[i] \in Int
    BY <1>0, <1>1, <1>6
  <2>2. z \in Nat /\ L \in Nat
    BY <1>3
  <2>6. \A i \in 1 .. L : w[i] = b[z + i]
    BY <1>6
  <2>3. Positional(b, z + L) = Positional(b, z) * Power(DIG_BASE, L) + Positional(w, L)
    <3>1. PICK x \in Nat, y \in Nat : x = z /\ y = L
      BY <2>2
    <3>2. PICK c : c = b
      OBVIOUS
    <3>3. \A i \in 1 .. x + y : c[i] \in Int
      BY <2>1, <3>1, <3>2
    <3>4. \A i \in 1 .. y : w[i] = c[x + i]
      BY <2>6, <3>1, <3>2
    <3>5. Positional(c, x + y) = Positional(c, x) * Power(DIG_BASE, y) + Positional(w, y)
      BY ONLY <3>3, <3>4, x \in Nat, y \in Nat, PositionalSplit
    <3> QED
      BY <3>1, <3>2, <3>5
  <2>4. Positional(b, z) = 0
    BY <1>3, <2>2, PositionalZeros
  <2>5. Power(DIG_BASE, L) \in Int /\ Positional(w, L) \in Nat
    <3>1. AreWords(w, L)
      BY <1>7 DEF AreWords
    <3>2. Positional(w, L) \in Nat
      BY ONLY <2>2, <3>1, PositionalRange
    <3>3. Power(DIG_BASE, L) \in Int
      BY <1>0, <2>2, Powers
    <3> QED
      BY <3>2, <3>3
  <2>7. Mantissa(d) = Positional(b, z + L)
    BY <1>1, <1>6 DEF Mantissa
  <2> QED
    BY <2>3, <2>4, <2>5, <2>7
<1>12. IsSignificant(d, w, L, u, k)
  <2>1. L <= Len(d.buf)
    BY <1>1, <1>3, <1>6
  <2> QED
    BY <1>6, <1>7, <1>8, <1>9, <1>10, <1>11, <2>1 DEF IsSignificant, AreWords, FracDigits
<1> QED
  BY <1>12

(* The divisor without the zero words at its end.                          *)
IsDivisor(d, v, n, L, u, V) ==
    /\ Len(v) = n /\ n <= L
    /\ AreWords(v, n)
    /\ v[1] = u
    /\ V = Positional(v, n)
    /\ Mantissa(d) = V * Power(DIG_BASE, L - n)

NonZeros(w) == {k \in DOMAIN w : w[k] # 0}

LEMMA DivisorIs ==
    ASSUME NEW d \in Decimals, NEW w, NEW L \in Nat \ {0}, NEW u \in Nat \ {0}, NEW k,
           IsSignificant(d, w, L, u, k), NEW v, v = Divisor(d)
    PROVE  \E n \in Nat \ {0}, V \in Nat \ {0} : IsDivisor(d, v, n, L, u, V)
<1>0. DIG_MAX \in Nat /\ DIG_BASE \in Nat \ {0} /\ DIG_BASE \in Int
  BY Base
<1>1. /\ w = Significant(d) /\ w \in Seq(0 .. DIG_MAX) /\ Len(w) = L /\ AreWords(w, L)
      /\ u = w[1] /\ Positional(w, L) = Mantissa(d)
  BY DEF IsSignificant
<1>2. DOMAIN w = 1 .. L
  <2>1. w \in [1 .. Len(w) -> 0 .. DIG_MAX]
    BY <1>1, LenProperties
  <2> QED
    BY <1>1, <2>1
<1>3. PICK n \in Int : n = Max(NonZeros(w)) /\ n \in 1 .. L /\ w[n] # 0 /\ \A i \in 1 .. L : w[i] # 0 => i <= n
  <2>1. NonZeros(w) = {i \in 1 .. L : w[i] # 0}
    BY <1>2, Zenon DEF NonZeros
  <2>2. 1 \in NonZeros(w) /\ NonZeros(w) \subseteq Int /\ \A y \in NonZeros(w) : y <= L
    BY <1>1, <2>1
  <2>3. NonZeros(w) # {} /\ L \in Int
    BY <2>2
  <2>4. Max(NonZeros(w)) \in NonZeros(w) /\ \A y \in NonZeros(w) : y <= Max(NonZeros(w))
    BY ONLY <2>2, <2>3, Greatest
  <2> QED
    BY <2>1, <2>4
<1>4. n \in Nat \ {0} /\ n <= L
  BY <1>3
<1>5. v = SubSeq(w, 0 + 1, n)
  <2>1. Divisor(d) = SubSeq(Significant(d), 1, Max(NonZeros(Significant(d))))
    BY Zenon DEF Divisor, NonZeros
  <2>2. 0 + 1 = 1
    OBVIOUS
  <2> QED
    BY <1>1, <1>3, <2>1, <2>2, Zenon
<1>6. Len(v) = n /\ \A i \in 1 .. n : v[i] = w[i]
  <2>1. 0 \in Nat /\ n \in Nat /\ n = 0 + n /\ n <= Len(w)
    BY <1>1, <1>4
  <2>2. IsSub(SubSeq(w, 0 + 1, n), w, 0, n, 0 .. DIG_MAX)
    BY ONLY <1>1, <2>1, Subs
  <2>3. Len(v) = n /\ \A i \in 1 .. n : v[i] = w[0 + i]
    BY <1>5, <2>2 DEF IsSub
  <2> QED
    BY <2>3
<1>7. \A i \in 1 .. L : w[i] \in 0 .. DIG_MAX
  BY <1>1 DEF AreWords
<1>8. \A i \in 1 .. n : v[i] \in 0 .. DIG_MAX
  <2>1. \A i \in 1 .. n : i \in 1 .. L
    BY <1>4
  <2> QED
    BY <1>6, <1>7, <2>1
<1>9. AreWords(v, n)
  BY <1>8 DEF AreWords
<1>10. PICK V \in Nat : V = Positional(v, n)
  BY <1>4, <1>9, PositionalRange
<1>11. PICK m \in Nat, t \in Nat : m = n /\ t = L - n /\ L = m + t
  BY <1>4
<1>12. Positional(w, L) = V * Power(DIG_BASE, L - n)
  <2>1. PICK z : z = [i \in 1 .. t |-> w[m + i]]
    OBVIOUS
  <2>2. \A i \in 1 .. t : z[i] = w[m + i] /\ z[i] = 0
    <3>1. \A i \in 1 .. t : m + i \in 1 .. L /\ ~(m + i <= n)
      BY <1>11
    <3>2. \A i \in 1 .. t : z[i] = w[m + i]
      BY <2>1
    <3> QED
      BY <1>3, <3>1, <3>2
  <2>3. \A i \in 1 .. m + t : w[i] \in Int
    BY <1>0, <1>7, <1>11
  <2>4. Positional(w, m + t) = Positional(w, m) * Power(DIG_BASE, t) + Positional(z, t)
    BY ONLY <2>2, <2>3, m \in Nat, t \in Nat, PositionalSplit
  <2>5. Positional(z, t) = 0
    BY ONLY <2>2, t \in Nat, PositionalZeros
  <2>6. Positional(v, m) = Positional(w, m)
    <3>1. \A i \in 1 .. m : w[i] \in Int /\ v[i] = w[i]
      <4>1. \A i \in 1 .. m : i \in 1 .. m + t /\ i \in 1 .. n
        BY <1>11
      <4> QED
        BY <1>6, <2>3, <4>1
    <3> QED
      BY ONLY <3>1, m \in Nat, PositionalSame
  <2>7. Power(DIG_BASE, t) \in Int
    BY <1>0, Powers
  <2>8. Positional(w, m + t) = V * Power(DIG_BASE, t) + 0 /\ V * Power(DIG_BASE, t) \in Int
    BY <1>10, <1>11, <2>4, <2>5, <2>6, <2>7
  <2> QED
    BY <1>11, <2>8
<1>13. V # 0
  <2> SUFFICES ASSUME V = 0 PROVE FALSE
    OBVIOUS
  <2>1. \A i \in 1 .. n : v[i] = 0
    BY <1>4, <1>9, <1>10, NoWordsLeft
  <2> QED
    BY <1>3, <1>6, <2>1
<1>14. v[1] = u
  <2>1. 1 \in 1 .. n
    BY <1>4
  <2> QED
    BY <1>1, <1>6, <2>1
<1>15. IsDivisor(d, v, n, L, u, V)
  BY <1>1, <1>4, <1>6, <1>9, <1>10, <1>12, <1>14 DEF IsDivisor
<1> QED
  BY <1>4, <1>13, <1>15

LEMMA RoundUpShift ==
    ASSUME NEW n \in Int, NEW m \in Int, NEW k \in Int, k = n + m * DIG_PER_DEC1
    PROVE  ROUND_UP(k) = ROUND_UP(n) + m
<1>1. PICK D \in Nat \ {0} : D = DIG_PER_DEC1
  BY WordAssumption
<1>2. PICK r \in Int, rD \in Int, mD \in Int, q \in Int, qD \in Int :
        r = ROUND_UP(n) /\ rD = r * D /\ mD = m * D /\ q = r + m /\ qD = q * D
  <2>1. ROUND_UP(n) \in Int
    BY RoundUp
  <2> QED
    BY <2>1
<1>3. n <= rD /\ rD < n + D
  BY <1>1, <1>2, RoundUp
<1>4. qD = rD + mD
  BY <1>2
<1>5. k <= qD /\ qD < k + D
  BY ONLY <1>1, <1>2, <1>3, <1>4, k = n + m * DIG_PER_DEC1, n \in Int
<1>6. ROUND_UP(k) = q
  BY <1>1, <1>2, <1>5, RoundUpIs
<1> QED
  BY <1>2, <1>6

LEMMA PrecWords ==
    ASSUME NEW L \in Int, NEW k \in 1 .. DIG_PER_DEC1
    PROVE  ROUND_UP((L - 1) * DIG_PER_DEC1 + k) = L
<1>1. PICK D \in Nat \ {0} : D = DIG_PER_DEC1
  BY WordAssumption
<1>2. PICK m \in Int, j \in Int : m = L - 1 /\ j = k + m * D
  BY <1>1
<1>3. ROUND_UP(k) = 1
  <2>1. PICK q \in Int, i \in Int : q = 1 /\ i = k
    BY <1>1
  <2>2. i <= q * DIG_PER_DEC1 /\ q * DIG_PER_DEC1 < i + DIG_PER_DEC1
    BY <1>1, <2>1
  <2>3. ROUND_UP(i) = q
    BY <2>2, RoundUpIs
  <2> QED
    BY <2>1, <2>3
<1>4. ROUND_UP(j) = 1 + m
  <2>1. PICK i \in Int : i = k
    BY <1>1
  <2>2. j = i + m * DIG_PER_DEC1
    BY <1>1, <1>2, <2>1
  <2>3. ROUND_UP(j) = ROUND_UP(i) + m
    BY <2>2, RoundUpShift
  <2> QED
    BY <1>3, <2>1, <2>3
<1>5. (L - 1) * DIG_PER_DEC1 + k = j
  BY <1>1, <1>2
<1> QED
  BY <1>2, <1>4, <1>5

(* The dividend and the zeros behind it.                                   *)
IsDividend(tmp, w, L, len, f, incr) ==
    /\ IsLine(tmp, len)
    /\ \A k \in 1 .. len : tmp[k] = IF k <= L THEN w[k] ELSE 0
    /\ len >= 3
    /\ len >= L + 2 * f + ROUND_UP(incr) + 1

LEMMA DividendIs ==
    ASSUME NEW a \in Decimals, NEW w, NEW L \in Nat \ {0}, NEW u, NEW k \in 1 .. DIG_PER_DEC1,
           IsSignificant(a, w, L, u, k), NEW b \in Decimals, NEW f \in Nat, f = ROUND_UP(b.frac),
           NEW incr \in Nat
    PROVE  \E len \in Nat : IsDividend(Dividend(a, b, incr), w, L, len, f, incr)
<1>0. DIG_MAX \in Nat
  BY Base
<1>1. PICK D \in Nat \ {0} : D = DIG_PER_DEC1
  BY WordAssumption
<1>2. w = Significant(a) /\ Len(w) = L /\ AreWords(w, L) /\ Prec(a) = (L - 1) * DIG_PER_DEC1 + k
  BY DEF IsSignificant
<1>3. PICK h \in Int, m \in Int, j \in Int, r \in Int :
        h = 2 * FracDigits(b) + incr + 1 /\ m = 2 * f /\ j = incr + m * D /\ r = ROUND_UP(incr)
        /\ h = j + 1
  <2>1. FracDigits(b) = f * D
    BY <1>1 DEF FracDigits
  <2>2. PICK fD \in Int : fD = f * D
    OBVIOUS
  <2>3. (2 * f) * D = 2 * fD
    BY <2>2
  <2>4. ROUND_UP(incr) \in Int
    BY RoundUp
  <2> QED
    BY <2>1, <2>2, <2>3, <2>4
<1>4. PICK g \in Int : g = ROUND_UP(h) /\ g >= r + m
  <2>1. ROUND_UP(j) = r + m
    <3>1. j = incr + m * DIG_PER_DEC1 /\ incr \in Int
      BY <1>1, <1>3
    <3>2. ROUND_UP(j) = ROUND_UP(incr) + m
      BY <3>1, RoundUpShift
    <3> QED
      BY <1>3, <3>2
  <2>2. ROUND_UP(j) <= ROUND_UP(h)
    BY <1>3, RoundUpMonotonic
  <2>3. ROUND_UP(h) \in Int
    BY RoundUp
  <2> QED
    BY <2>1, <2>2, <2>3
<1>5. ROUND_UP(Prec(a)) = L
  BY <1>2, PrecWords
<1>6. PICK len \in Int : len = Max({3, L + g + 1}) /\ len >= 3 /\ len >= L + g + 1
  <2>1. PICK x \in Int : x = L + g + 1
    OBVIOUS
  <2>2. Max({3, x}) = IF 3 >= x THEN 3 ELSE x
    BY MaxOfTwo
  <2> QED
    BY <2>1, <2>2
<1>7. Dividend(a, b, incr) = [i \in 1 .. len |-> IF i <= L THEN w[i] ELSE 0]
  <2>1. len = Max({3, ROUND_UP(Prec(a)) + ROUND_UP(2 * FracDigits(b) + incr + 1) + 1})
    BY <1>3, <1>4, <1>5, <1>6, Zenon
  <2> QED
    BY <1>2, <2>1, Zenon DEF Dividend
<1>8. PICK tmp : tmp = Dividend(a, b, incr)
  OBVIOUS
<1>9. \A i \in 1 .. len : tmp[i] = IF i <= L THEN w[i] ELSE 0
  BY <1>7, <1>8, Zenon
<1>10. IsLine(tmp, len)
  <2>1. \A i \in 1 .. len : tmp[i] \in 0 .. DIG_MAX
    <3>1. \A i \in 1 .. len : i <= L => i \in 1 .. L
      OBVIOUS
    <3> QED
      BY <1>0, <1>2, <1>9, <3>1 DEF AreWords
  <2>2. tmp = [i \in 1 .. len |-> tmp[i]]
    BY <1>7, <1>8, Zenon
  <2> QED
    BY <2>1, <2>2 DEF IsLine
<1>11. len >= L + 2 * f + ROUND_UP(incr) + 1 /\ len \in Nat
  BY ONLY <1>3, <1>4, <1>6, L \in Nat, f \in Nat
<1>12. IsDividend(tmp, w, L, len, f, incr)
  BY <1>6, <1>9, <1>10, <1>11 DEF IsDividend
<1> QED
  BY <1>8, <1>11, <1>12

(* The words of a quotient before the point.                               *)
QuotientWords(a, b, La, Lb, fa, fb, e) ==
    /\ ROUND_UP(IntgDigits(a, b)) = La - Lb - fa + fb + e
    /\ ROUND_UP(Prec(a) - FracDigits(a)) = La - fa

LEMMA IntgWordsOf ==
    ASSUME NEW a, NEW v, NEW La \in Nat \ {0}, NEW ua \in Nat \ {0}, NEW ka \in 1 .. DIG_PER_DEC1,
           IsSignificant(a, v, La, ua, ka), NEW fa \in Nat, fa = ROUND_UP(a.frac),
           NEW b, NEW w, NEW Lb \in Nat \ {0}, NEW ub \in Nat \ {0}, NEW kb \in 1 .. DIG_PER_DEC1,
           IsSignificant(b, w, Lb, ub, kb), NEW fb \in Nat, fb = ROUND_UP(b.frac),
           NEW e \in 0 .. 1, e = IF ua < ub THEN 0 ELSE 1
    PROVE  QuotientWords(a, b, La, Lb, fa, fb, e)
<1>1. PICK D \in Nat \ {0} : D = DIG_PER_DEC1
  BY WordAssumption
<1>2. /\ v = Significant(a) /\ v[1] = ua /\ HasDigits(ua, Radix, ka)
      /\ Prec(a) = (La - 1) * DIG_PER_DEC1 + ka /\ FracDigits(a) = fa * DIG_PER_DEC1
  BY DEF IsSignificant
<1>3. /\ w = Significant(b) /\ w[1] = ub /\ HasDigits(ub, Radix, kb)
      /\ Prec(b) = (Lb - 1) * DIG_PER_DEC1 + kb /\ FracDigits(b) = fb * DIG_PER_DEC1
  BY DEF IsSignificant
<1>4. PICK LaD \in Int, LbD \in Int, faD \in Int, fbD \in Int :
        LaD = La * D /\ LbD = Lb * D /\ faD = fa * D /\ fbD = fb * D
  OBVIOUS
<1>5. (La - 1) * D = LaD - D /\ (Lb - 1) * D = LbD - D
  BY <1>4
<1>6. ka \in Int /\ kb \in Int /\ 1 <= ka /\ ka <= D /\ 1 <= kb /\ kb <= D
  BY <1>1
<1>7. PICK c \in Int : c = ka - kb + e
  BY <1>6
<1>8. e = 1 => kb <= ka
  <2> SUFFICES ASSUME e = 1 PROVE kb <= ka
    OBVIOUS
  <2>1. ub <= ua
    OBVIOUS
  <2>2. ub \in Nat /\ ua \in Nat /\ ka \in Nat \ {0} /\ kb \in Nat \ {0}
    BY <1>6
  <2> QED
    BY ONLY <1>2, <1>3, <2>1, <2>2, Base, DigitsOrdered
<1>9. e = 0 => ka <= kb
  <2> SUFFICES ASSUME e = 0 PROVE ka <= kb
    OBVIOUS
  <2>1. ua <= ub
    OBVIOUS
  <2>2. ub \in Nat /\ ua \in Nat /\ ka \in Nat \ {0} /\ kb \in Nat \ {0}
    BY <1>6
  <2> QED
    BY ONLY <1>2, <1>3, <2>1, <2>2, Base, DigitsOrdered
<1>10. ROUND_UP(c) = e
  <2>1. PICK q \in Int : q = e
    OBVIOUS
  <2>2. c <= q * DIG_PER_DEC1 /\ q * DIG_PER_DEC1 < c + DIG_PER_DEC1
    BY <1>1, <1>6, <1>7, <1>8, <1>9, <2>1
  <2> QED
    BY <2>1, <2>2, RoundUpIs
<1>11. PICK m \in Int, mD \in Int : m = La - Lb - fa + fb /\ mD = m * D
  OBVIOUS
<1>12. mD = LaD - LbD - faD + fbD
  BY <1>4, <1>11
<1>13. IntgDigits(a, b) = (((LaD - D) + ka) - faD) - (((LbD - D) + kb) - fbD) + e
  <2>1. e = IF v[1] >= w[1] THEN 1 ELSE 0
    BY <1>2, <1>3
  <2>2. IntgDigits(a, b) = (Prec(a) - FracDigits(a)) - (Prec(b) - FracDigits(b))
                             + IF v[1] >= w[1] THEN 1 ELSE 0
    BY <1>2, <1>3, Zenon DEF IntgDigits
  <2>3. /\ Prec(a) = (LaD - D) + ka /\ FracDigits(a) = faD
        /\ Prec(b) = (LbD - D) + kb /\ FracDigits(b) = fbD
    BY <1>1, <1>2, <1>3, <1>4, <1>5
  <2>4. IntgDigits(a, b) = (((LaD - D) + ka) - faD) - (((LbD - D) + kb) - fbD)
                             + IF v[1] >= w[1] THEN 1 ELSE 0
    BY <2>2, <2>3
  <2> QED
    BY ONLY <2>1, <2>4
<1>14. IntgDigits(a, b) = c + m * DIG_PER_DEC1
  <2>1. m * DIG_PER_DEC1 = mD
    BY <1>1, <1>11
  <2>2. e \in Int /\ D \in Int
    OBVIOUS
  <2> QED
    BY ONLY <1>6, <1>7, <1>12, <1>13, <2>1, <2>2, c \in Int, mD \in Int, LaD \in Int, LbD \in Int,
            faD \in Int, fbD \in Int
<1>15. ROUND_UP(IntgDigits(a, b)) = ROUND_UP(c) + m
  <2>1. PICK x \in Int : x = IntgDigits(a, b) /\ x = c + m * DIG_PER_DEC1
    BY <1>1, <1>14
  <2> QED
    BY <2>1, RoundUpShift
<1>16. ROUND_UP(Prec(a) - FracDigits(a)) = La - fa
  <2>1. PICK l \in Int : l = La - fa
    OBVIOUS
  <2>5. PICK lD \in Int : lD = l * D
    OBVIOUS
  <2>6. lD = LaD - faD
    BY <1>4, <2>1, <2>5
  <2>2. (l - 1) * D = (LaD - D) - faD
    <3>1. (l - 1) * D = lD - D
      BY <2>5
    <3> QED
      BY <2>6, <3>1, <1>4
  <2>3. (l - 1) * DIG_PER_DEC1 + ka = Prec(a) - FracDigits(a)
    <3>1. Prec(a) = (LaD - D) + ka /\ FracDigits(a) = faD
      BY <1>1, <1>2, <1>4, <1>5
    <3>2. (l - 1) * DIG_PER_DEC1 = (LaD - D) - faD
      BY <1>1, <2>2
    <3> QED
      BY ONLY <3>1, <3>2, LaD \in Int, faD \in Int, D \in Nat \ {0}, <1>6
  <2>4. ROUND_UP((l - 1) * DIG_PER_DEC1 + ka) = l
    BY PrecWords
  <2> QED
    BY <2>1, <2>3, <2>4
<1> QED
  BY <1>10, <1>11, <1>15, <1>16 DEF QuotientWords

-----------------------------------------------------------------------------
(* The quotient.                                                           *)

(* The first m words of L words of value M, or all of them and zeros.      *)
IsLead(P, M, L, m) ==
    \/ m >= L /\ P = M * Power(DIG_BASE, m - L)
    \/ m < L /\ \E r \in Nat : M = P * Power(DIG_BASE, L - m) + r /\ r < Power(DIG_BASE, L - m)

LEMMA PrefixIs ==
    ASSUME NEW w, NEW L \in Nat, AreWords(w, L), NEW m \in Nat, NEW tmp,
           \A k \in 1 .. m : tmp[k] = IF k <= L THEN w[k] ELSE 0,
           NEW M \in Nat, M = Positional(w, L), NEW P \in Nat, P = Positional(tmp, m)
    PROVE  IsLead(P, M, L, m)
<1>0. DIG_MAX \in Nat /\ DIG_BASE \in Nat \ {0} /\ DIG_BASE \in Int
  BY Base
<1>1. \A k \in 1 .. L : w[k] \in Int
  BY <1>0 DEF AreWords
<1>2. CASE m >= L
  <2>1. PICK t \in Nat : m = L + t /\ t = m - L
    BY <1>2
  <2>2. \A k \in 1 .. L : w[k] \in Int /\ tmp[k] = w[k]
    <3>1. \A k \in 1 .. L : k \in 1 .. m /\ k <= L
      BY <1>2
    <3> QED
      BY <1>1, <3>1
  <2>3. \A k \in 1 .. t : tmp[L + k] = 0
    <3>1. \A k \in 1 .. t : L + k \in 1 .. m /\ ~(L + k <= L)
      BY <2>1
    <3> QED
      BY <3>1
  <2>4. \A k \in 1 .. L + t : tmp[k] \in Int
    <3>1. \A k \in 1 .. L + t : k \in 1 .. m /\ (k <= L => k \in 1 .. L)
      BY <2>1
    <3> QED
      BY <1>1, <3>1
  <2>5. PICK z : z = [k \in 1 .. t |-> tmp[L + k]]
    OBVIOUS
  <2>6. \A k \in 1 .. t : z[k] = tmp[L + k] /\ z[k] = 0
    BY <2>3, <2>5
  <2>7. Positional(tmp, L + t) = Positional(tmp, L) * Power(DIG_BASE, t) + Positional(z, t)
    BY ONLY <2>4, <2>6, L \in Nat, t \in Nat, PositionalSplit
  <2>8. Positional(z, t) = 0 /\ Positional(tmp, L) = M
    BY <2>2, <2>6, PositionalZeros, PositionalSame
  <2>9. Power(DIG_BASE, t) \in Int
    BY <1>0, Powers
  <2>10. P = M * Power(DIG_BASE, t)
    BY <2>1, <2>7, <2>8, <2>9
  <2> QED
    BY <1>2, <2>1, <2>10 DEF IsLead
<1>3. CASE m < L
  <2>1. PICK t \in Nat : L = m + t /\ t = L - m
    BY <1>3
  <2>2. \A k \in 1 .. m : w[k] \in Int /\ tmp[k] = w[k]
    <3>1. \A k \in 1 .. m : k \in 1 .. L /\ k <= L
      BY <1>3
    <3> QED
      BY <1>1, <3>1
  <2>3. PICK z : z = [k \in 1 .. t |-> w[m + k]]
    OBVIOUS
  <2>4. \A k \in 1 .. t : z[k] = w[m + k]
    BY <2>3
  <2>5. AreWords(z, t)
    <3>1. \A k \in 1 .. t : m + k \in 1 .. L
      BY <2>1
    <3> QED
      BY <2>4, <3>1 DEF AreWords
  <2>6. Positional(w, m + t) = Positional(w, m) * Power(DIG_BASE, t) + Positional(z, t)
    <3>1. \A k \in 1 .. m + t : w[k] \in Int
      BY <1>1, <2>1
    <3> QED
      BY ONLY <2>4, <3>1, m \in Nat, t \in Nat, PositionalSplit
  <2>7. Positional(tmp, m) = Positional(w, m)
    BY <2>2, PositionalSame
  <2>8. PICK r \in Nat : r = Positional(z, t) /\ r < Power(DIG_BASE, t)
    BY <2>5, PositionalRange
  <2>9. M = P * Power(DIG_BASE, t) + r
    BY <2>1, <2>6, <2>7, <2>8
  <2> QED
    BY <1>3, <2>1, <2>8, <2>9 DEF IsLead
<1> QED
  BY <1>2, <1>3

(* A quotient of first words is one of all words.                          *)
LEMMA QuotientBounds ==
    ASSUME NEW M \in Nat, NEW V \in Nat \ {0}, NEW P \in Nat, NEW Q \in Nat,
           Q * V <= P, P < (Q + 1) * V,
           NEW L \in Nat, NEW m \in Nat, IsLead(P, M, L, m),
           NEW K \in Nat, NEW E \in Nat, K + L <= E + m, K + L = E + m \/ Q = 0
    PROVE  /\ Q * V * Power(DIG_BASE, E) <= M * Power(DIG_BASE, K)
           /\ M * Power(DIG_BASE, K) < (Q + 1) * V * Power(DIG_BASE, E)
<1>0. DIG_BASE \in Nat \ {0} /\ DIG_BASE \in Int
  BY Base
<1>1. PICK BE \in Nat \ {0}, BK \in Nat \ {0} : BE = Power(DIG_BASE, E) /\ BK = Power(DIG_BASE, K)
  BY <1>0, PowerPositive
<1>2. PICK QV \in Nat, Q1V \in Nat : QV = Q * V /\ Q1V = (Q + 1) * V /\ (Q = 0 => QV = 0)
  OBVIOUS
<1>3. QV <= P /\ P < Q1V /\ P + 1 <= Q1V
  BY <1>2
<1>4. QV * BE <= M * BK /\ M * BK < Q1V * BE
  <2>1. CASE m >= L /\ P = M * Power(DIG_BASE, m - L)
    <3>1. PICK t \in Nat : t = m - L /\ K <= E + t /\ (K = E + t \/ Q = 0)
      BY <2>1
    <3>2. PICK T \in Nat \ {0} : T = Power(DIG_BASE, t) /\ P = M * T
      BY <1>0, <2>1, <3>1, PowerPositive
    <3>3. Power(DIG_BASE, E + t) = BE * T
      BY <1>0, <1>1, <3>2, PowerSum
    <3>4. BK <= BE * T
      <4>1. E + t \in Nat
        OBVIOUS
      <4>2. Power(DIG_BASE, K) <= Power(DIG_BASE, E + t)
        BY ONLY <1>0, <3>1, <4>1, K \in Nat, PowerMonotonic
      <4> QED
        BY <1>1, <3>3, <4>2
    <3>5. K = E + t => BK = BE * T
      BY <1>1, <3>3
    <3>6. P * BE = M * (BE * T)
      BY <3>2
    <3>7. P * BE < Q1V * BE
      BY <1>3, MulOrder
    <3>8. BK * M <= (BE * T) * M
      BY <3>4, MulMonotonic
    <3>9. M * BK <= P * BE
      BY <3>6, <3>8
    <3>10. QV * BE <= P * BE
      BY <1>3, MulMonotonic
    <3>11. CASE K = E + t
      BY <3>5, <3>6, <3>7, <3>10, <3>11
    <3>12. CASE Q = 0
      <4>1. QV * BE = 0 /\ M * BK >= 0
        BY <1>2, <3>12
      <4> QED
        BY <3>7, <3>9, <4>1
    <3> QED
      BY <3>1, <3>11, <3>12
  <2>2. CASE m < L /\ \E r \in Nat : M = P * Power(DIG_BASE, L - m) + r /\ r < Power(DIG_BASE, L - m)
    <3>1. PICK t \in Nat : t = L - m /\ K + t <= E /\ (K + t = E \/ Q = 0)
      BY <2>2
    <3>2. PICK T \in Nat \ {0} : T = Power(DIG_BASE, t)
      BY <1>0, PowerPositive
    <3>3. PICK PT \in Nat, r \in Nat : PT = P * T /\ M = PT + r /\ r < T
      BY <2>2, <3>1, <3>2
    <3>4. Power(DIG_BASE, K + t) = BK * T
      BY <1>0, <1>1, <3>2, PowerSum
    <3>5. BK * T <= BE
      <4>1. K + t \in Nat
        OBVIOUS
      <4>2. Power(DIG_BASE, K + t) <= Power(DIG_BASE, E)
        BY ONLY <1>0, <3>1, <4>1, E \in Nat, PowerMonotonic
      <4> QED
        BY <1>1, <3>4, <4>2
    <3>6. K + t = E => BK * T = BE
      BY <1>1, <3>4
    <3>7. PICK P1 \in Nat, P1T \in Nat : P1 = P + 1 /\ P1T = P1 * T
      OBVIOUS
    <3>8. M < P1T /\ PT <= M
      BY <3>3, <3>7
    <3>9. M * BK < P1T * BK
      BY <3>8, MulOrder
    <3>10. P1T * BK = P1 * (BK * T)
      BY <3>7
    <3>11. (BK * T) * P1 <= BE * P1
      BY <3>5, MulMonotonic
    <3>12. P1 * BE <= Q1V * BE
      BY <1>3, <3>7, MulMonotonic
    <3>13. M * BK < Q1V * BE
      BY <3>9, <3>10, <3>11, <3>12
    <3>14. CASE Q = 0
      <4>1. QV * BE = 0 /\ M * BK >= 0
        BY <1>2, <3>14
      <4> QED
        BY <3>13, <4>1
    <3>15. CASE K + t = E
      <4>1. QV * BE <= P * BE
        BY <1>3, MulMonotonic
      <4>2. P * BE = PT * BK
        BY <3>3, <3>6, <3>15
      <4>3. PT * BK <= M * BK
        BY <3>8, MulMonotonic
      <4> QED
        BY <3>13, <4>1, <4>2, <4>3
    <3> QED
      BY <3>1, <3>14, <3>15
  <2> QED
    BY <2>1, <2>2 DEF IsLead
<1> QED
  BY <1>1, <1>2, <1>4

(* What the loop makes of a dividend of which P are the first words.       *)
MadeFrom(s, N, Q, P, V) ==
    /\ s.words \in Seq(0 .. DIG_MAX) /\ Len(s.words) = N /\ AreWords(s.words, N)
    /\ Q = Positional(s.words, N)
    /\ Q * V <= P /\ P < (Q + 1) * V

IsMade(s, tmp, N, m, V) ==
    \E Q \in Nat, P \in Nat : MadeFrom(s, N, Q, P, V) /\ P = Positional(tmp, m)

LEMMA SeqWords ==
    ASSUME NEW s \in Seq(0 .. DIG_MAX), NEW n, n = Len(s)
    PROVE  AreWords(s, n)
<1>1. s \in [1 .. Len(s) -> 0 .. DIG_MAX]
  BY LenProperties
<1>2. \A k \in 1 .. n : s[k] \in 0 .. DIG_MAX
  BY <1>1
<1> QED
  BY <1>2 DEF AreWords

LEMMA DividingMakes ==
    ASSUME NEW s, NEW tmp, NEW x, NEW n \in Nat \ {0}, NEW len, NEW V \in Nat \ {0},
           NEW e \in 0 .. 1, NEW N \in Nat, Dividing(s, tmp, x, n, len, V, e, N),
           NEW m \in Nat, m = N - e + n
    PROVE  IsMade(s, tmp, N, m, V)
<1>1. PICK Q \in Nat, Z \in Nat : Halfway(s, tmp, x, n, V, N, Q, Z)
  BY DEF Dividing
<1>2. s.words \in Seq(0 .. DIG_MAX) /\ Len(s.words) = N /\ s.start1 = 2 - e + N
  BY DEF Dividing
<1>3. s.start1 + n - 2 = m
  BY <1>2
<1>4. Q = Positional(s.words, N) /\ Z < V /\ Positional(tmp, m) = Q * V + Z
  BY <1>1, <1>3 DEF Halfway
<1>5. AreWords(s.words, N)
  BY <1>2, SeqWords
<1>6. PICK QV \in Nat, P \in Nat : QV = Q * V /\ P = QV + Z
  OBVIOUS
<1>7. (Q + 1) * V = QV + V
  BY <1>6
<1>8. QV <= P /\ P < QV + V
  BY <1>4, <1>6
<1>9. MadeFrom(s, N, Q, P, V)
  BY <1>2, <1>4, <1>5, <1>6, <1>7, <1>8 DEF MadeFrom
<1> QED
  BY <1>4, <1>6, <1>9 DEF IsMade

LEMMA NoTurns ==
    ASSUME NEW tmp, NEW x
    PROVE  Loop(tmp, x, 0) = StartOf(tmp, x)
<1>1. 0 \in Nat
  OBVIOUS
<1>2. PICK turn : Turns(turn, tmp, x, 0) /\ Loop(tmp, x, 0) = turn[0]
  BY <1>1, LoopIs
<1>3. 0 \in 0 .. 0 /\ ~(0 > 0)
  OBVIOUS
<1>4. turn = [i \in 0 .. 0 |-> IF i > 0 THEN NextWord(turn[i - 1], x) ELSE StartOf(tmp, x)]
  BY <1>2, Zenon DEF Turns
<1>5. turn[0] = StartOf(tmp, x)
  BY <1>3, <1>4, Zenon
<1> QED
  BY <1>2, <1>5

LoopMade(s, N, V, M, L, m) ==
    \E Q \in Nat, P \in Nat : MadeFrom(s, N, Q, P, V) /\ IsLead(P, M, L, m)

LEMMA LoopMakes ==
    ASSUME NEW v, NEW L \in Nat \ {0}, AreWords(v, L), NEW M \in Nat, M = Positional(v, L),
           NEW x, NEW n \in Nat \ {0}, n = Len(x), AreWords(x, n), x[1] # 0,
           NEW V \in Nat \ {0}, V = Positional(x, n),
           NEW tmp, NEW len \in Nat, NEW f, NEW incr, IsDividend(tmp, v, L, len, f, incr),
           NEW e \in 0 .. 1, e = IF v[1] < x[1] THEN 0 ELSE 1,
           NEW N \in Nat, N # 0 => N - e + n <= len /\ N - e + 2 <= len,
           NEW m \in Nat, m = N - e + n
    PROVE  LoopMade(Loop(tmp, x, N), N, V, M, L, m)
<1> SUFFICES \E Q \in Nat, P \in Nat : MadeFrom(Loop(tmp, x, N), N, Q, P, V) /\ IsLead(P, M, L, m)
  BY DEF LoopMade
<1>0. DIG_MAX \in Nat
  BY Base
<1>1. IsLine(tmp, len) /\ len >= 3 /\ \A k \in 1 .. len : tmp[k] = IF k <= L THEN v[k] ELSE 0
  BY DEF IsDividend
<1>2. tmp[1] = v[1]
  <2>1. 1 \in 1 .. len /\ 1 <= L
    BY <1>1
  <2> QED
    BY <1>1, <2>1
<1>3. e = IF tmp[1] < x[1] THEN 0 ELSE 1
  BY <1>2
<1>4. CASE N # 0
  <2>1. n <= len /\ N - e + n <= len /\ N - e + 2 <= len /\ m <= len
    BY <1>4
  <2>2. Dividing(Loop(tmp, x, N), tmp, x, n, len, V, e, N)
    BY ONLY <1>1, <1>3, <2>1, n = Len(x), AreWords(x, n), x[1] # 0, V = Positional(x, n),
            n \in Nat \ {0}, len \in Nat, V \in Nat \ {0}, e \in 0 .. 1, N \in Nat, LoopDivides
  <2>3. PICK Q \in Nat, P \in Nat : MadeFrom(Loop(tmp, x, N), N, Q, P, V) /\ P = Positional(tmp, m)
    <3>1. IsMade(Loop(tmp, x, N), tmp, N, m, V)
      BY ONLY <2>2, n \in Nat \ {0}, V \in Nat \ {0}, e \in 0 .. 1, N \in Nat, m \in Nat,
              m = N - e + n, DividingMakes
    <3> QED
      BY <3>1 DEF IsMade
  <2>4. \A k \in 1 .. m : tmp[k] = IF k <= L THEN v[k] ELSE 0
    <3>1. \A k \in 1 .. m : k \in 1 .. len
      BY <2>1
    <3> QED
      BY <1>1, <3>1
  <2>5. IsLead(P, M, L, m)
    BY <2>3, <2>4, PrefixIs
  <2> QED
    BY <2>3, <2>5
<1>5. CASE N = 0
  <2>1. PICK l \in Nat : l = len + n /\ n <= l /\ m <= l
    BY <1>5
  <2>2. PICK t : t = [k \in 1 .. l |-> IF k <= L THEN v[k] ELSE 0]
    OBVIOUS
  <2>3. \A k \in 1 .. l : t[k] = IF k <= L THEN v[k] ELSE 0
    BY <2>2
  <2>4. IsLine(t, l)
    <3>1. \A k \in 1 .. l : t[k] \in 0 .. DIG_MAX
      <4>1. \A k \in 1 .. l : k <= L => k \in 1 .. L
        OBVIOUS
      <4>2. \A k \in 1 .. L : v[k] \in 0 .. DIG_MAX
        BY DEF AreWords
      <4> QED
        BY ONLY <1>0, <2>3, <4>1, <4>2
    <3>2. t = [k \in 1 .. l |-> t[k]]
      BY <2>2
    <3> QED
      BY <3>1, <3>2 DEF IsLine
  <2>5. t[1] = v[1]
    <3>1. 1 \in 1 .. l /\ 1 <= L
      BY <2>1
    <3> QED
      BY <2>3, <3>1
  <2>6. e = IF t[1] < x[1] THEN 0 ELSE 1
    BY <2>5
  <2>7. Dividing(StartOf(t, x), t, x, n, l, V, e, 0)
    BY ONLY <2>1, <2>4, <2>6, AreWords(x, n), x[1] # 0, V = Positional(x, n),
            n \in Nat \ {0}, V \in Nat \ {0}, e \in 0 .. 1, LoopStarts
  <2>8. PICK Q \in Nat, P \in Nat : MadeFrom(StartOf(t, x), 0, Q, P, V) /\ P = Positional(t, m)
    <3>1. 0 \in Nat /\ m = 0 - e + n
      BY <1>5
    <3> QED
      <4>1. IsMade(StartOf(t, x), t, 0, m, V)
        BY ONLY <2>7, <3>1, n \in Nat \ {0}, V \in Nat \ {0}, e \in 0 .. 1, m \in Nat, DividingMakes
      <4> QED
        BY <4>1 DEF IsMade
  <2>9. IsLead(P, M, L, m)
    <3>1. \A k \in 1 .. m : t[k] = IF k <= L THEN v[k] ELSE 0
      <4>1. \A k \in 1 .. m : k \in 1 .. l
        BY <2>1
      <4> QED
        BY <2>3, <4>1
    <3> QED
      BY <2>8, <3>1, PrefixIs
  <2>10. Loop(tmp, x, 0).words = StartOf(t, x).words
    <3>1. StartOf(tmp, x).words = StartOf(t, x).words
      BY Zenon DEF StartOf
    <3> QED
      BY <3>1, NoTurns, Zenon
  <2>11. MadeFrom(Loop(tmp, x, 0), 0, Q, P, V)
    BY <2>8, <2>10 DEF MadeFrom
  <2> QED
    BY <1>5, <2>9, <2>11
<1> QED
  BY <1>4, <1>5

(* Two decimals that are not zero, and the divisor without zeros around it. *)
Operands(a, b, v, w, x, La, ua, ka, Lb, ub, kb, e, fa, fb, n, V) ==
    /\ a \in Decimals /\ b \in Decimals
    /\ IsSignificant(a, v, La, ua, ka) /\ fa = ROUND_UP(a.frac)
    /\ IsSignificant(b, w, Lb, ub, kb) /\ fb = ROUND_UP(b.frac)
    /\ e = IF ua < ub THEN 0 ELSE 1
    /\ x = Divisor(b) /\ IsDivisor(b, x, n, Lb, ub, V)

AreOperands(a, b) ==
    \E La \in Nat \ {0}, ua \in Nat \ {0}, ka \in 1 .. DIG_PER_DEC1,
       Lb \in Nat \ {0}, ub \in Nat \ {0}, kb \in 1 .. DIG_PER_DEC1, e \in 0 .. 1,
       fa \in Nat, fb \in Nat, n \in Nat \ {0}, V \in Nat \ {0} :
        Operands(a, b, Significant(a), Significant(b), Divisor(b),
                 La, ua, ka, Lb, ub, kb, e, fa, fb, n, V)

LEMMA OperandsExist ==
    ASSUME NEW a \in Decimals, NEW b \in Decimals, ~decimal_is_zero(a), ~decimal_is_zero(b)
    PROVE  AreOperands(a, b)
<1>1. PICK La \in Nat \ {0}, ua \in Nat \ {0}, ka \in 1 .. DIG_PER_DEC1 :
        IsSignificant(a, Significant(a), La, ua, ka)
  BY SignificantWords
<1>2. PICK Lb \in Nat \ {0}, ub \in Nat \ {0}, kb \in 1 .. DIG_PER_DEC1 :
        IsSignificant(b, Significant(b), Lb, ub, kb)
  BY SignificantWords
<1>3. PICK e \in 0 .. 1 : e = IF ua < ub THEN 0 ELSE 1
  OBVIOUS
<1>4. PICK fa \in Nat, fb \in Nat : fa = ROUND_UP(a.frac) /\ fb = ROUND_UP(b.frac)
  BY DecimalTypes
<1>5. PICK n \in Nat \ {0}, V \in Nat \ {0} : IsDivisor(b, Divisor(b), n, Lb, ub, V)
  BY <1>2, DivisorIs
<1>6. Operands(a, b, Significant(a), Significant(b), Divisor(b), La, ua, ka, Lb, ub, kb, e, fa, fb, n, V)
  BY <1>1, <1>2, <1>3, <1>4, <1>5 DEF Operands
<1> QED
  BY <1>6 DEF AreOperands

(* N words of a quotient of A and S.                                       *)
QuotedBy(s, N, Q, A, S) ==
    /\ s.words \in Seq(0 .. DIG_MAX) /\ Len(s.words) = N /\ AreWords(s.words, N)
    /\ Q = Positional(s.words, N)
    /\ Q * S <= A /\ A < (Q + 1) * S

Quoted(s, N, A, S) == \E Q \in Nat : QuotedBy(s, N, Q, A, S)

(* The loop has room for its words.                                        *)
LEMMA LoopRoom ==
    ASSUME NEW La \in Nat \ {0}, NEW Lb \in Nat \ {0}, NEW fa \in Nat, NEW fb \in Nat,
           NEW e \in 0 .. 1, NEW n \in Nat \ {0}, n <= Lb, NEW g \in Nat, NEW len \in Nat,
           len >= La + 2 * fb + g + 1, NEW F \in Nat, F <= fa + fb + g,
           NEW N \in Nat, N = La - Lb - fa + fb + e + F
    PROVE  N - e + n <= len /\ N - e + 2 <= len
OBVIOUS

(* The turns of the loop for a quotient of F fraction words.               *)
Turning(La, Lb, fa, fb, e, f, incr, I, F, N) ==
    /\ F <= fa + fb + ROUND_UP(incr)
    /\ I = La - Lb - fa + fb + e
    /\ N = I + F \/ (N = 0 /\ I + F <= 0)
    /\ fa <= f
    /\ fb <= f
QuotedWith(a, b, x, f, incr, F, N) ==
    Quoted(Loop(Dividend(a, b, incr), x, N), N, Scaled(a, f) * Power(DIG_BASE, F), Scaled(b, f))

(* The words of that many turns are the quotient.                          *)
LEMMA Quoting ==
    ASSUME NEW a, NEW b, NEW v, NEW w, NEW x, NEW La \in Nat \ {0}, NEW ua \in Nat \ {0},
           NEW ka \in 1 .. DIG_PER_DEC1, NEW Lb \in Nat \ {0}, NEW ub \in Nat \ {0},
           NEW kb \in 1 .. DIG_PER_DEC1, NEW e \in 0 .. 1, NEW fa \in Nat, NEW fb \in Nat,
           NEW n \in Nat \ {0}, NEW V \in Nat \ {0},
           Operands(a, b, v, w, x, La, ua, ka, Lb, ub, kb, e, fa, fb, n, V),
           NEW incr \in Nat, NEW F \in Nat, NEW I \in Int, NEW N \in Nat, NEW f \in Nat,
           Turning(La, Lb, fa, fb, e, f, incr, I, F, N)
    PROVE  QuotedWith(a, b, x, f, incr, F, N)
<1> /\ F <= fa + fb + ROUND_UP(incr)
    /\ I = La - Lb - fa + fb + e
    /\ N = I + F \/ (N = 0 /\ I + F <= 0)
    /\ fa <= f
    /\ fb <= f
  BY DEF Turning
<1>0. DIG_BASE \in Nat \ {0} /\ DIG_BASE \in Int
  BY Base
<1>1. /\ a \in Decimals /\ IsSignificant(a, v, La, ua, ka) /\ fa = ROUND_UP(a.frac)
      /\ b \in Decimals /\ IsSignificant(b, w, Lb, ub, kb) /\ fb = ROUND_UP(b.frac)
      /\ e = (IF ua < ub THEN 0 ELSE 1) /\ IsDivisor(b, x, n, Lb, ub, V)
  BY DEF Operands
<1>2. AreWords(v, La) /\ v[1] = ua /\ Positional(v, La) = Mantissa(a)
  BY <1>1 DEF IsSignificant
<1>3. /\ Len(x) = n /\ n <= Lb /\ AreWords(x, n) /\ x[1] = ub /\ V = Positional(x, n)
      /\ Mantissa(b) = V * Power(DIG_BASE, Lb - n)
  BY <1>1 DEF IsDivisor
<1>4. PICK g \in Nat : g = ROUND_UP(incr)
  BY RoundUp
<1>5. PICK len \in Nat : IsDividend(Dividend(a, b, incr), v, La, len, fb, incr)
  BY ONLY <1>1, La \in Nat \ {0}, ka \in 1 .. DIG_PER_DEC1, fb \in Nat, incr \in Nat, DividendIs
<1>6. len >= La + 2 * fb + g + 1
  BY <1>4, <1>5 DEF IsDividend
<1>7. N # 0 => N - e + n <= len /\ N - e + 2 <= len
  <2> SUFFICES ASSUME N # 0 PROVE N - e + n <= len /\ N - e + 2 <= len
    OBVIOUS
  <2>1. N = La - Lb - fa + fb + e + F /\ F <= fa + fb + g
    BY <1>4
  <2> QED
    BY ONLY <1>3, <1>6, <2>1, La \in Nat \ {0}, Lb \in Nat \ {0}, fa \in Nat, fb \in Nat, e \in 0 .. 1,
            n \in Nat \ {0}, g \in Nat, len \in Nat, F \in Nat, N \in Nat, LoopRoom
<1>8. PICK m \in Nat, M \in Nat : m = N - e + n /\ M = Mantissa(a)
  <2>1. N - e + n \in Nat
    OBVIOUS
  <2>2. Mantissa(a) \in Nat
    BY <1>1, ScaledTypes
  <2> QED
    BY <2>1, <2>2
<1>9. PICK Q \in Nat, P \in Nat :
        MadeFrom(Loop(Dividend(a, b, incr), x, N), N, Q, P, V) /\ IsLead(P, M, La, m)
  <2>1. M = Positional(v, La) /\ x[1] # 0 /\ (e = IF v[1] < x[1] THEN 0 ELSE 1)
    BY <1>1, <1>2, <1>3, <1>8
  <2>2. PICK tmp : tmp = Dividend(a, b, incr)
    OBVIOUS
  <2>3. IsDividend(tmp, v, La, len, fb, incr) /\ AreWords(v, La) /\ n = Len(x) /\ AreWords(x, n)
        /\ V = Positional(x, n) /\ m = N - e + n
    BY <1>2, <1>3, <1>5, <1>8, <2>2
  <2>4. LoopMade(Loop(tmp, x, N), N, V, M, La, m)
    BY ONLY <1>7, <2>1, <2>3, La \in Nat \ {0}, n \in Nat \ {0}, M \in Nat,
            V \in Nat \ {0}, len \in Nat, e \in 0 .. 1, N \in Nat, m \in Nat, LoopMakes
  <2>5. LoopMade(Loop(Dividend(a, b, incr), x, N), N, V, M, La, m)
    BY <2>2, <2>4, Zenon
  <2> QED
    BY <2>5, Zenon DEF LoopMade
<1>10. PICK K \in Nat, E \in Nat, s \in Nat, t \in Nat, z \in Nat :
         s = f - fa /\ t = f - fb /\ z = Lb - n /\ K = s + F /\ E = z + t
  BY <1>3, SMTT(60)
<1>11. K + La <= E + m /\ (K + La = E + m \/ N = 0)
  BY <1>8, <1>10
<1>12. Q * V <= P /\ P < (Q + 1) * V /\ Q = Positional(Loop(Dividend(a, b, incr), x, N).words, N)
  BY <1>9 DEF MadeFrom
<1>13. N = 0 => Q = 0
  <2> SUFFICES ASSUME N = 0 PROVE Q = 0
    OBVIOUS
  <2>1. PICK y : y = Loop(Dividend(a, b, incr), x, N).words
    OBVIOUS
  <2>2. 0 \in Nat /\ \A k \in 1 .. 0 : y[k] = 0
    OBVIOUS
  <2>3. Positional(y, 0) = 0
    BY <2>2, PositionalZeros
  <2> QED
    BY <1>12, <2>1, <2>3
<1>14. /\ Q * V * Power(DIG_BASE, E) <= M * Power(DIG_BASE, K)
       /\ M * Power(DIG_BASE, K) < (Q + 1) * V * Power(DIG_BASE, E)
  <2>1. K + La = E + m \/ Q = 0
    BY <1>11, <1>13
  <2> QED
    BY ONLY <1>9, <1>11, <1>12, <2>1, M \in Nat, V \in Nat \ {0}, P \in Nat, Q \in Nat, La \in Nat,
            m \in Nat, K \in Nat, E \in Nat, QuotientBounds
<1>15. PICK Bs \in Nat, BF \in Nat, Bz \in Nat, Bt \in Nat :
         Bs = Power(DIG_BASE, s) /\ BF = Power(DIG_BASE, F)
         /\ Bz = Power(DIG_BASE, z) /\ Bt = Power(DIG_BASE, t)
  BY <1>0, PowerPositive
<1>16. Power(DIG_BASE, K) = Bs * BF /\ Power(DIG_BASE, E) = Bz * Bt
  BY <1>0, <1>10, <1>15, PowerSum, SMTT(60)
<1>17. PICK A \in Nat, S \in Nat : A = (M * Bs) * BF /\ S = (V * Bz) * Bt
  OBVIOUS
<1>18. Scaled(a, f) * Power(DIG_BASE, F) = A /\ Scaled(b, f) = S
  BY <1>1, <1>3, <1>8, <1>10, <1>15, <1>17 DEF Scaled
<1>19. Q * S <= A /\ A < (Q + 1) * S
  <2>1. M * (Bs * BF) = A
    BY <1>17
  <2>2. Q * V * (Bz * Bt) = Q * S
    BY <1>17
  <2>3. PICK R \in Nat : R = Q + 1
    OBVIOUS
  <2>4. R * V * (Bz * Bt) = R * S
    BY <1>17
  <2> QED
    BY <1>14, <1>16, <2>1, <2>2, <2>3, <2>4
<1>20. QuotedBy(Loop(Dividend(a, b, incr), x, N), N, Q, A, S)
  BY <1>9, <1>19 DEF MadeFrom, QuotedBy
<1>q. Quoted(Loop(Dividend(a, b, incr), x, N), N, Scaled(a, f) * Power(DIG_BASE, F), Scaled(b, f))
  BY <1>18, <1>20 DEF Quoted
<1> QED
  BY <1>q, Zenon DEF QuotedWith

(* The first word and the number.                                          *)
LEMMA FirstWordBounds ==
    ASSUME NEW l \in Nat, NEW w, AreWords(w, l + 1), NEW u \in Nat, u = w[1],
           NEW M, M = Positional(w, l + 1)
    PROVE  /\ M \in Nat
           /\ u * Power(DIG_BASE, l) <= M
           /\ M < (u + 1) * Power(DIG_BASE, l)
<1>0. DIG_BASE \in Nat \ {0} /\ DIG_BASE \in Int /\ DIG_MAX \in Nat
  BY Base
<1>1. PICK z : z = [k \in 1 .. l |-> w[k + 1]]
  OBVIOUS
<1>2. \A k \in 1 .. l : z[k] = w[k + 1]
  BY <1>1
<1>3. \A k \in 1 .. l + 1 : w[k] \in Int
  BY <1>0 DEF AreWords
<1>4. Positional(w, l + 1) = w[1] * Power(DIG_BASE, l) + Positional(z, l)
  BY ONLY <1>2, <1>3, l \in Nat, PositionalFirst
<1>5. AreWords(z, l)
  <2>1. \A k \in 1 .. l : k + 1 \in 1 .. l + 1
    OBVIOUS
  <2> QED
    BY <1>2, <2>1 DEF AreWords
<1>6. PICK p \in Nat : p = Positional(z, l) /\ p < Power(DIG_BASE, l)
  BY <1>5, PositionalRange
<1>7. PICK c \in Nat, uc \in Nat : c = Power(DIG_BASE, l) /\ uc = u * c
  BY <1>0, PowerPositive
<1>8. M = uc + p /\ p < c
  BY <1>4, <1>6, <1>7
<1>9. (u + 1) * c = uc + c
  BY <1>7
<1> QED
  BY <1>7, <1>8, <1>9

(* A quotient of more words than a buffer has is that large.               *)
LEMMA LargeQuotient ==
    ASSUME NEW ua \in Nat \ {0}, NEW ub \in Nat \ {0}, ub <= DIG_MAX,
           NEW e \in 0 .. 1, e = IF ua < ub THEN 0 ELSE 1,
           NEW la \in Nat, NEW lb \in Nat, NEW N \in Nat, la + e >= lb + N + 1,
           NEW A \in Nat, NEW S \in Nat,
           ua * Power(DIG_BASE, la) <= A, S < (ub + 1) * Power(DIG_BASE, lb)
    PROVE  A * Radix >= S * Power(DIG_BASE, N)
<1>0. DIG_BASE \in Nat \ {0} /\ DIG_BASE \in Int /\ DIG_MAX = DIG_BASE - 1 /\ Radix \in Nat /\ Radix >= 2
  BY Base
<1>1. PICK X \in Nat \ {0}, Y \in Nat \ {0}, T \in Nat \ {0} :
        X = Power(DIG_BASE, lb) /\ Y = Power(DIG_BASE, N) /\ T = Power(DIG_BASE, lb + N) /\ T = X * Y
  <2>1. PICK j \in Nat : j = lb + N
    OBVIOUS
  <2>2. Power(DIG_BASE, lb) \in Nat \ {0} /\ Power(DIG_BASE, N) \in Nat \ {0}
        /\ Power(DIG_BASE, j) \in Nat \ {0}
    BY <1>0, PowerPositive
  <2>3. Power(DIG_BASE, lb + N) = Power(DIG_BASE, lb) * Power(DIG_BASE, N)
    BY <1>0, PowerSum
  <2> QED
    BY <2>1, <2>2, <2>3
<1>2. PICK U \in Nat \ {0} : U = Power(DIG_BASE, la)
  BY <1>0, PowerPositive
<1>3. PICK v \in Nat, vX \in Nat, vT \in Nat : v = ub + 1 /\ vX = v * X /\ vT = v * T /\ vT = vX * Y
  <2>1. PICK v \in Nat : v = ub + 1
    OBVIOUS
  <2>2. v * T = (v * X) * Y
    BY <1>1
  <2> QED
    BY <2>1, <2>2
<1>4. S * Y <= vT
  <2>1. S <= vX
    BY <1>1, <1>3
  <2> QED
    BY <1>3, <2>1, MulMonotonic
<1>5. vT <= A * Radix
  <2>1. PICK uU \in Nat, A2 \in Nat, AR \in Nat : uU = ua * U /\ A2 = A * 2 /\ AR = A * Radix
    BY <1>0
  <2>2. uU <= A
    BY <1>2, <2>1
  <2>3. A2 <= AR
    <3>1. 2 * A <= Radix * A
      BY <1>0, MulMonotonic
    <3> QED
      BY <2>1, <3>1, <1>0
  <2>4. CASE ub <= ua
    <3>1. lb + N <= la
      BY <2>4
    <3>2. T <= U
      <4>1. lb + N \in Nat
        OBVIOUS
      <4> QED
        BY ONLY <1>0, <1>1, <1>2, <3>1, <4>1, la \in Nat, PowerMonotonic
    <3>3. v <= 2 * ua
      BY <1>3, <2>4
    <3>4. v * T <= (2 * ua) * T
      BY <3>3, MulMonotonic
    <3>5. T * ua <= U * ua
      BY <3>2, MulMonotonic
    <3>6. (2 * ua) * T = 2 * (T * ua) /\ U * ua = uU
      BY <2>1
    <3> QED
      BY <1>3, <2>1, <2>2, <2>3, <3>4, <3>5, <3>6
  <2>5. CASE ua < ub
    <3>1. lb + N + 1 <= la
      BY <2>5
    <3>2. PICK TB \in Nat : TB = T * DIG_BASE /\ TB <= U
      <4>1. PICK j \in Nat : j = lb + N
        OBVIOUS
      <4>2. j + 1 <= la /\ j + 1 \in Nat
        BY <3>1, <4>1
      <4>3. Power(DIG_BASE, j + 1) <= Power(DIG_BASE, la)
        BY ONLY <1>0, <4>2, la \in Nat, PowerMonotonic
      <4>4. Power(DIG_BASE, j + 1) = Power(DIG_BASE, j) * DIG_BASE
        BY <1>0, Powers
      <4> QED
        BY <1>0, <1>1, <1>2, <4>1, <4>3, <4>4
    <3>3. v <= DIG_BASE
      BY <1>0, <1>3
    <3>4. v * T <= DIG_BASE * T
      BY <1>0, <3>3, MulMonotonic
    <3>5. U <= uU
      <4>1. 1 <= ua
        OBVIOUS
      <4>2. 1 * U <= ua * U
        BY <4>1, MulMonotonic
      <4> QED
        BY <2>1, <4>2
    <3>6. A <= A2
      BY <2>1
    <3> QED
      BY <1>0, <1>3, <2>1, <2>2, <2>3, <3>2, <3>4, <3>5, <3>6
  <2> QED
    BY <2>4, <2>5
<1> QED
  BY <1>1, <1>4, <1>5, <1>0

(* A decimal of whole words.                                               *)
LEMMA WholeWordsDecimal ==
    ASSUME NEW sign \in BOOLEAN, NEW I \in Nat, NEW F \in Nat, NEW s \in Seq(0 .. DIG_MAX),
           Len(s) = I + F, NEW d,
           d = [sign |-> sign, intg |-> I * DIG_PER_DEC1, frac |-> F * DIG_PER_DEC1, buf |-> s]
    PROVE  /\ d \in Decimals
           /\ ROUND_UP(d.intg) = I /\ ROUND_UP(d.frac) = F
<1>0. DIG_PER_DEC1 \in Nat
  BY WordAssumption
<1>1. d.sign = sign /\ d.intg = I * DIG_PER_DEC1 /\ d.frac = F * DIG_PER_DEC1 /\ d.buf = s
  OBVIOUS
<1>2. ROUND_UP(d.intg) = I /\ ROUND_UP(d.frac) = F
  BY <1>1, RoundUpWords
<1>3. d.intg % DIG_PER_DEC1 = 0 /\ d.frac % DIG_PER_DEC1 = 0
  BY <1>1, WholeWords
<1>4. d.intg \in Nat /\ d.frac \in Nat
  BY <1>0, <1>1
<1>5. \A k \in DOMAIN s : s[k] \in 0 .. DIG_MAX
  <2>1. s \in [1 .. Len(s) -> 0 .. DIG_MAX]
    BY LenProperties
  <2> QED
    BY <2>1
<1>6. WordsOK(d)
  BY <1>1, <1>2, <1>3, <1>5 DEF WordsOK
<1>7. d \in [sign : BOOLEAN, intg : Nat, frac : Nat, buf : Seq(0 .. DIG_MAX)]
  BY <1>1, <1>4
<1> QED
  BY <1>2, <1>6, <1>7 DEF Decimals

(* Zero words before others.                                               *)
AreZerosBefore(p, z, s, N) ==
    /\ p \in Seq(0 .. DIG_MAX) /\ Len(p) = z + N
    /\ Positional(p, z + N) = Positional(s, N)
    /\ \A k \in 1 .. z : p[k] = 0
    /\ \A k \in 1 .. N : p[z + k] = s[k]

LEMMA ZerosBefore ==
    ASSUME NEW z \in Nat, NEW s \in Seq(0 .. DIG_MAX), NEW N \in Nat, N = Len(s)
    PROVE  AreZerosBefore([k \in 1 .. z |-> 0] \o s, z, s, N)
<1>0. DIG_MAX \in Nat /\ DIG_BASE \in Nat \ {0} /\ DIG_BASE \in Int
  BY Base
<1>1. PICK y : y = [k \in 1 .. z |-> 0]
  OBVIOUS
<1>2. y \in Seq(0 .. DIG_MAX) /\ Len(y) = z /\ \A k \in 1 .. z : y[k] = 0
  <2>1. y \in [1 .. z -> 0 .. DIG_MAX]
    BY <1>0, <1>1
  <2> QED
    BY <1>1, <2>1, FunctionSeq
<1>3. PICK p : p = y \o s
  OBVIOUS
<1>4. /\ p \in Seq(0 .. DIG_MAX) /\ Len(p) = z + N
      /\ \A i \in 1 .. z + N : p[i] = IF i <= z THEN y[i] ELSE s[i - z]
  BY <1>2, <1>3, ConcatProperties
<1>5. \A k \in 1 .. z : p[k] = 0
  <2>1. \A k \in 1 .. z : k \in 1 .. z + N /\ k <= z
    OBVIOUS
  <2> QED
    BY <1>2, <1>4, <2>1
<1>6. \A k \in 1 .. N : p[z + k] = s[k]
  <2>1. \A k \in 1 .. N : z + k \in 1 .. z + N /\ ~(z + k <= z) /\ (z + k) - z = k
    OBVIOUS
  <2> QED
    BY <1>4, <2>1
<1>7. AreWords(p, z + N) /\ AreWords(s, N)
  BY <1>4, SeqWords
<1>8. Positional(p, z + N) = Positional(p, z) * Power(DIG_BASE, N) + Positional(s, N)
  <2>1. PICK c, t : c = p /\ t = s
    OBVIOUS
  <2>2. \A k \in 1 .. z + N : c[k] \in Int
    BY <1>0, <1>7, <2>1 DEF AreWords
  <2>3. \A k \in 1 .. N : t[k] = c[z + k]
    BY <1>6, <2>1
  <2>4. Positional(c, z + N) = Positional(c, z) * Power(DIG_BASE, N) + Positional(t, N)
    BY ONLY <2>2, <2>3, z \in Nat, N \in Nat, PositionalSplit, SMTT(60)
  <2> QED
    BY <2>1, <2>4
<1>9. Positional(p, z) = 0
  BY <1>5, PositionalZeros
<1>10. Power(DIG_BASE, N) \in Int /\ Positional(s, N) \in Nat
  <2>1. Positional(s, N) \in Nat
    <3>1. PICK t : t = s
      OBVIOUS
    <3>2. AreWords(t, N)
      BY <1>7, <3>1
    <3>3. Positional(t, N) \in Nat
      BY ONLY <3>2, N \in Nat, PositionalRange
    <3> QED
      BY <3>1, <3>3
  <2> QED
    BY <1>0, <2>1, Powers
<1>11. Positional(p, z + N) = Positional(s, N)
  BY <1>8, <1>9, <1>10
<1> QED
  BY <1>1, <1>3, <1>4, <1>5, <1>6, <1>11 DEF AreZerosBefore

(* scale_incr in whole words.                                              *)
IncrementWords(a, b, incr, fa, fb, i) ==
    /\ i \in Nat
    /\ ROUND_UP(i) \in Nat
    /\ ROUND_UP(FracDigits(a) + FracDigits(b) + i) = fa + fb + ROUND_UP(i)
    /\ (fa + fb + ROUND_UP(i)) * DIG_PER_DEC1 >= a.frac + b.frac + incr

LEMMA IncrementIs ==
    ASSUME NEW a \in Decimals, NEW b \in Decimals, NEW incr \in Nat,
           NEW fa \in Nat, fa = ROUND_UP(a.frac), NEW fb \in Nat, fb = ROUND_UP(b.frac),
           NEW i, i = Increment(a, b, incr)
    PROVE  IncrementWords(a, b, incr, fa, fb, i)
<1>1. PICK D \in Nat \ {0} : D = DIG_PER_DEC1
  BY WordAssumption
<1>2. PICK x \in Nat, y \in Nat, p \in Nat, q \in Nat :
        p = a.frac /\ q = b.frac /\ x = fa * D /\ y = fb * D /\ x = FracDigits(a) /\ y = FracDigits(b)
  <2>1. a.frac \in Nat /\ b.frac \in Nat
    BY DecimalTypes
  <2> QED
    BY <1>1, <2>1 DEF FracDigits
<1>3. p <= x /\ q <= y
  <2>1. a.frac <= ROUND_UP(a.frac) * DIG_PER_DEC1 /\ b.frac <= ROUND_UP(b.frac) * DIG_PER_DEC1
    BY <1>2, RoundUp
  <2> QED
    BY <1>1, <1>2, <2>1
<1>4. PICK j \in Int : j = incr - (x - p) - (y - q)
  OBVIOUS
<1>5. i \in Nat /\ i >= j
  <2>1. i = Max({0, j})
    BY <1>2, <1>4 DEF Increment
  <2>2. Max({0, j}) = IF 0 >= j THEN 0 ELSE j
    BY MaxOfTwo
  <2> QED
    BY <2>1, <2>2
<1>6. PICK g \in Nat : g = ROUND_UP(i)
  BY <1>5, RoundUp
<1>7. ROUND_UP(x + y + i) = fa + fb + g
  <2>1. PICK m \in Int, n \in Int, k \in Int : m = fa + fb /\ n = i /\ k = n + m * DIG_PER_DEC1
    BY <1>1, <1>5
  <2>2. ROUND_UP(k) = ROUND_UP(n) + m
    BY <2>1, RoundUpShift
  <2>3. (fa + fb) * D = x + y
    BY <1>2
  <2>4. k = x + y + i
    BY <1>1, <1>5, <2>1, <2>3
  <2> QED
    BY <1>6, <2>1, <2>2, <2>4
<1>8. (fa + fb + g) * D >= p + q + incr
  <2>1. i <= g * DIG_PER_DEC1
    BY <1>5, <1>6, RoundUp
  <2>2. PICK gD \in Nat : gD = g * D
    OBVIOUS
  <2>3. (fa + fb + g) * D = x + y + gD
    BY <1>2, <2>2
  <2>4. i <= gD
    BY <1>1, <2>1, <2>2
  <2> QED
    BY ONLY <1>3, <1>4, <1>5, <2>3, <2>4, x \in Nat, y \in Nat, p \in Nat, q \in Nat, incr \in Nat,
            gD \in Nat
<1> QED
  BY <1>1, <1>2, <1>5, <1>6, <1>7, <1>8 DEF IncrementWords

(* The words of a quotient: i before the point, F after it, z of them zero *)
(* without the loop.                                                       *)
CountsAre(I, F, i, z, N) ==
    /\ i \in Nat /\ z \in Nat /\ N \in Nat
    /\ z + N = i + F
    /\ N = I + F \/ (N = 0 /\ I + F <= 0)

LEMMA QuotientCount ==
    ASSUME NEW I \in Int, NEW F \in Nat, NEW i \in Int, i = Max({0, I}),
           NEW z \in Int, z = Min({Max({0, -I}), i + F}), NEW N \in Int, N = (i + F) - z
    PROVE  CountsAre(I, F, i, z, N)
<1>1. i = IF 0 >= I THEN 0 ELSE I
  BY MaxOfTwo
<1>2. PICK j \in Int : j = Max({0, -I}) /\ j = IF 0 >= -I THEN 0 ELSE -I
  <2>1. PICK k \in Int : k = -I
    OBVIOUS
  <2>2. Max({0, k}) = IF 0 >= k THEN 0 ELSE k
    BY MaxOfTwo
  <2> QED
    BY <2>1, <2>2
<1>3. PICK n \in Int : n = i + F
  OBVIOUS
<1>4. z = IF j <= n THEN j ELSE n
  <2>1. z = Min({j, n})
    BY <1>2, <1>3
  <2>2. Min({j, n}) = IF j <= n THEN j ELSE n
    BY MaxOfTwo
  <2> QED
    BY <2>1, <2>2
<1> QED
  BY <1>1, <1>2, <1>3, <1>4 DEF CountsAre

QFix(a, b, incr) ==
    FixIntgFrac(Max({0, ROUND_UP(IntgDigits(a, b))}),
                ROUND_UP(FracDigits(a) + FracDigits(b) + incr))

QZeros(a, b, fix) == Min({Max({0, -ROUND_UP(IntgDigits(a, b))}), fix.intg + fix.frac})

QLoop(a, b, incr, fix) ==
    Loop(Dividend(a, b, incr), Divisor(b), fix.intg + fix.frac - QZeros(a, b, fix))

QMade(a, b, incr, fix) ==
    [to |-> [sign |-> a.sign # b.sign,
             intg |-> fix.intg * DIG_PER_DEC1,
             frac |-> fix.frac * DIG_PER_DEC1,
             buf  |-> [k \in 1 .. QZeros(a, b, fix) |-> 0] \o QLoop(a, b, incr, fix).words],
     error |-> fix.error]

LEMMA QuotientUnfolds ==
    ASSUME NEW a, NEW b, NEW incr, NEW fix, fix = QFix(a, b, incr)
    PROVE  Quotient(a, b, incr) = QMade(a, b, incr, fix)
BY Zenon DEF Quotient, QFix, QZeros, QLoop, Done, QMade

(* A quotient of A and S, of i words before the point and F after it.      *)
QuotientMade(r, error, i, F, A, S) ==
    /\ r.error = error
    /\ r.to \in Decimals
    /\ Len(r.to.buf) = i + F
    /\ ROUND_UP(r.to.intg) = i /\ ROUND_UP(r.to.frac) = F
    /\ r.to.frac = F * DIG_PER_DEC1
    /\ Mantissa(r.to) \in Nat
    /\ Mantissa(r.to) * S <= A /\ A < (Mantissa(r.to) + 1) * S

LEMMA QuotientMakes ==
    ASSUME NEW a \in Decimals, NEW b \in Decimals, NEW incr, NEW I \in Int,
           I = ROUND_UP(IntgDigits(a, b)), NEW fix, fix = QFix(a, b, incr),
           NEW i \in Nat, i = Max({0, I}), fix.intg = i, NEW F \in Nat, fix.frac = F,
           NEW z \in Nat, z = QZeros(a, b, fix), NEW N \in Nat, z + N = i + F,
           NEW A, NEW S, Quoted(Loop(Dividend(a, b, incr), Divisor(b), N), N, A, S)
    PROVE  QuotientMade(Quotient(a, b, incr), fix.error, i, F, A, S)
<1>1. PICK s : s = QLoop(a, b, incr, fix).words
  OBVIOUS
<1>2. PICK l : l = Loop(Dividend(a, b, incr), Divisor(b), N)
  OBVIOUS
<1>3. s = l.words
  <2>1. fix.intg + fix.frac - QZeros(a, b, fix) = N
    OBVIOUS
  <2> QED
    BY <1>1, <1>2, <2>1, Zenon DEF QLoop
<1>4. PICK Q \in Nat : QuotedBy(l, N, Q, A, S)
  BY <1>2 DEF Quoted
<1>5. s \in Seq(0 .. DIG_MAX) /\ N = Len(s) /\ Q = Positional(s, N) /\ Q * S <= A /\ A < (Q + 1) * S
  BY <1>3, <1>4 DEF QuotedBy
<1>6. PICK p : p = [k \in 1 .. z |-> 0] \o s
  OBVIOUS
<1>7. p \in Seq(0 .. DIG_MAX) /\ Len(p) = i + F /\ Positional(p, i + F) = Q
  <2>1. AreZerosBefore(p, z, s, N)
    <3>1. AreZerosBefore([k \in 1 .. z |-> 0] \o s, z, s, N)
      BY ONLY <1>5, z \in Nat, N \in Nat, ZerosBefore
    <3> QED
      BY <1>6, <3>1
  <2> QED
    BY <1>5, <2>1 DEF AreZerosBefore
<1>8. PICK sign \in BOOLEAN : sign = (a.sign # b.sign)
  OBVIOUS
<1>9. PICK d : d = [sign |-> sign, intg |-> i * DIG_PER_DEC1, frac |-> F * DIG_PER_DEC1, buf |-> p]
  OBVIOUS
<1>10. d \in Decimals /\ ROUND_UP(d.intg) = i /\ ROUND_UP(d.frac) = F
  BY ONLY <1>7, <1>9, sign \in BOOLEAN, i \in Nat, F \in Nat, WholeWordsDecimal
<1>11. Mantissa(d) = Q /\ d.buf = p /\ d.frac = F * DIG_PER_DEC1
  BY <1>7, <1>9 DEF Mantissa
<1>12. Quotient(a, b, incr) = [to |-> d, error |-> fix.error]
  <2>1. Quotient(a, b, incr) = QMade(a, b, incr, fix)
    BY QuotientUnfolds
  <2>2. d = [sign |-> a.sign # b.sign,
             intg |-> fix.intg * DIG_PER_DEC1,
             frac |-> fix.frac * DIG_PER_DEC1,
             buf  |-> [k \in 1 .. QZeros(a, b, fix) |-> 0] \o QLoop(a, b, incr, fix).words]
    BY <1>1, <1>6, <1>8, <1>9, Zenon
  <2> QED
    BY <2>1, <2>2, Zenon DEF QMade
<1>13. PICK r : r = Quotient(a, b, incr) /\ r.to = d /\ r.error = fix.error
  BY <1>12
<1>14. QuotientMade(r, fix.error, i, F, A, S)
  BY <1>5, <1>7, <1>10, <1>11, <1>13 DEF QuotientMade
<1> QED
  BY <1>13, <1>14

LEMMA ScaledZero ==
    ASSUME NEW d \in Decimals, NEW f \in Nat, ROUND_UP(d.frac) <= f
    PROVE  /\ Mantissa(d) \in Nat /\ Scaled(d, f) \in Nat
           /\ Mantissa(d) = 0 <=> decimal_is_zero(d)
           /\ Scaled(d, f) = 0 <=> decimal_is_zero(d)
<1>0. DIG_BASE \in Nat \ {0}
  BY Base
<1>a. PICK w : w = d.buf
  OBVIOUS
<1>1. PICK n \in Nat : w = d.buf /\ n = Len(w) /\ AreWords(w, n) /\ DOMAIN w = 1 .. n
  <2>1. Len(d.buf) \in Nat /\ DOMAIN d.buf = 1 .. Len(d.buf) /\ AreWords(d.buf, Len(d.buf))
    BY DecimalTypes
  <2> QED
    BY <1>a, <2>1
<1>2. PICK M \in Nat : M = Positional(w, n) /\ M = Mantissa(d)
  <2>1. Positional(w, n) \in Nat
    BY ONLY <1>1, n \in Nat, PositionalRange
  <2> QED
    BY <1>1, <2>1 DEF Mantissa
<1>3. M = 0 <=> \A k \in 1 .. n : w[k] = 0
  <2>1. M = 0 => \A k \in 1 .. n : w[k] = 0
    BY ONLY <1>1, <1>2, n \in Nat, NoWordsLeft
  <2>2. (\A k \in 1 .. n : w[k] = 0) => M = 0
    BY ONLY <1>2, n \in Nat, PositionalZeros
  <2> QED
    BY <2>1, <2>2
<1>4. M = 0 <=> decimal_is_zero(d)
  BY <1>1, <1>3, Zenon DEF decimal_is_zero
<1>5. PICK c \in Nat \ {0} : c = Power(DIG_BASE, f - ROUND_UP(d.frac))
  <2>1. f - ROUND_UP(d.frac) \in Nat
    BY DecimalTypes
  <2> QED
    BY <1>0, <2>1, PowerPositive
<1>6. Scaled(d, f) = M * c
  BY <1>2, <1>5 DEF Scaled
<1>7. M * c = 0 <=> M = 0
  <2>1. M # 0 => 0 < M * c
    <3> SUFFICES ASSUME M # 0 PROVE 0 < M * c
      OBVIOUS
    <3>1. 0 < M /\ 0 \in Int /\ M \in Int
      OBVIOUS
    <3>2. 0 * c < M * c
      BY <3>1, MulOrder
    <3> QED
      BY <3>2
  <2>2. M = 0 => M * c = 0
    OBVIOUS
  <2> QED
    BY <2>1, <2>2
<1> QED
  BY <1>2, <1>4, <1>6, <1>7

(* The quotient of any two decimals, of which IsQuotient is that of acc.   *)
HonestQuotient(r, a, b, incr) ==
    LET q == Mantissa(r.to)
        frac == Max({ROUND_UP(a.frac), ROUND_UP(b.frac)})
        A == Scaled(a, frac)
        S == Scaled(b, frac)
        one == Power(DIG_BASE, ROUND_UP(r.to.frac))
    IN  /\ r.error = E_DEC_DIV_ZERO <=> S = 0
        /\ r.error \in {E_DEC_OK, E_DEC_TRUNCATED} =>
              /\ q * S <= A * one
              /\ A * one < (q + 1) * S
        /\ r.error = E_DEC_OK /\ A # 0 => r.to.frac >= a.frac + b.frac + incr
        /\ r.error = E_DEC_TRUNCATED => Len(r.to.buf) = DECIMAL_BUFF_LENGTH
        /\ r.error = E_DEC_OVERFLOW =>
              A * Radix >= S * Power(DIG_BASE, DECIMAL_BUFF_LENGTH)

GoodQuotient(r, a, b, incr) ==
    /\ HonestQuotient(r, a, b, incr)
    /\ r.error \in {E_DEC_OK, E_DEC_TRUNCATED, E_DEC_OVERFLOW}
    /\ r.error # E_DEC_OVERFLOW => r.to \in Decimals /\ Fits(r.to)

LEMMA MadeIsHonest ==
    ASSUME NEW a \in Decimals, NEW b \in Decimals, ~decimal_is_zero(b), NEW incr,
           NEW f \in Nat, f = FracOf(a, b), NEW r, NEW error, NEW i \in Nat, NEW F \in Nat,
           QuotientMade(r, error, i, F, Scaled(a, f) * Power(DIG_BASE, F), Scaled(b, f)),
           i + F <= DECIMAL_BUFF_LENGTH, error \in {E_DEC_OK, E_DEC_TRUNCATED},
           error = E_DEC_TRUNCATED => i + F = DECIMAL_BUFF_LENGTH,
           error = E_DEC_OK => F * DIG_PER_DEC1 >= a.frac + b.frac + incr
    PROVE  GoodQuotient(r, a, b, incr)
<1>1. f = Max({ROUND_UP(a.frac), ROUND_UP(b.frac)}) /\ ROUND_UP(b.frac) <= f
  BY Ends DEF FracOf
<1>2. Scaled(b, f) # 0
  BY <1>1, ScaledZero
<1>3. /\ r.error = error /\ r.to \in Decimals /\ Len(r.to.buf) = i + F
      /\ ROUND_UP(r.to.intg) = i /\ ROUND_UP(r.to.frac) = F /\ r.to.frac = F * DIG_PER_DEC1
      /\ Mantissa(r.to) * Scaled(b, f) <= Scaled(a, f) * Power(DIG_BASE, F)
      /\ Scaled(a, f) * Power(DIG_BASE, F) < (Mantissa(r.to) + 1) * Scaled(b, f)
  BY Zenon DEF QuotientMade
<1>4. error # E_DEC_DIV_ZERO /\ error # E_DEC_OVERFLOW /\ E_DEC_OK # E_DEC_TRUNCATED
  BY DEF E_DEC_OK, E_DEC_TRUNCATED, E_DEC_OVERFLOW, E_DEC_DIV_ZERO
<1>5. HonestQuotient(r, a, b, incr)
  <2>1. r.error = E_DEC_DIV_ZERO <=> Scaled(b, f) = 0
    BY <1>2, <1>3, <1>4
  <2>2. r.error = E_DEC_OK => r.to.frac >= a.frac + b.frac + incr
    BY <1>3
  <2>3. r.error = E_DEC_TRUNCATED => Len(r.to.buf) = DECIMAL_BUFF_LENGTH
    BY <1>3
  <2>4. r.error # E_DEC_OVERFLOW
    BY <1>3, <1>4
  <2> QED
    BY <1>1, <1>3, <2>1, <2>2, <2>3, <2>4, Zenon DEF HonestQuotient
<1>6. Fits(r.to)
  BY <1>3 DEF Fits
<1>7. r.error \in {E_DEC_OK, E_DEC_TRUNCATED, E_DEC_OVERFLOW}
  BY <1>3
<1> QED
  BY <1>3, <1>5, <1>6, <1>7 DEF GoodQuotient

(* A quotient of too many words.                                           *)
LEMMA Overflows ==
    ASSUME NEW a, NEW b, NEW v, NEW w, NEW x, NEW La \in Nat \ {0}, NEW ua \in Nat \ {0},
           NEW ka \in 1 .. DIG_PER_DEC1, NEW Lb \in Nat \ {0}, NEW ub \in Nat \ {0},
           NEW kb \in 1 .. DIG_PER_DEC1, NEW e \in 0 .. 1, NEW fa \in Nat, NEW fb \in Nat,
           NEW n \in Nat \ {0}, NEW V \in Nat \ {0},
           Operands(a, b, v, w, x, La, ua, ka, Lb, ub, kb, e, fa, fb, n, V),
           NEW f \in Nat, fa <= f, fb <= f, NEW N \in Nat, La - Lb - fa + fb + e >= N + 1
    PROVE  Scaled(a, f) * Radix >= Scaled(b, f) * Power(DIG_BASE, N)
<1>0. DIG_BASE \in Nat \ {0} /\ DIG_BASE \in Int
  BY Base
<1>1. /\ a \in Decimals /\ IsSignificant(a, v, La, ua, ka) /\ fa = ROUND_UP(a.frac)
      /\ b \in Decimals /\ IsSignificant(b, w, Lb, ub, kb) /\ fb = ROUND_UP(b.frac)
      /\ e = (IF ua < ub THEN 0 ELSE 1)
  BY DEF Operands
<1>2. PICK l \in Nat, m \in Nat, s \in Nat, t \in Nat :
        La = l + 1 /\ Lb = m + 1 /\ s = f - fa /\ t = f - fb
  <2>1. La - 1 \in Nat /\ Lb - 1 \in Nat /\ f - fa \in Nat /\ f - fb \in Nat
    OBVIOUS
  <2> QED
    BY <2>1
<1>3. PICK A \in Nat : A = Mantissa(a) /\ ua * Power(DIG_BASE, l) <= A
  <2>1. AreWords(v, l + 1) /\ ua = v[1] /\ Mantissa(a) = Positional(v, l + 1)
    BY <1>1, <1>2 DEF IsSignificant
  <2>2. PICK M : M = Positional(v, l + 1)
    OBVIOUS
  <2>3. M \in Nat /\ ua * Power(DIG_BASE, l) <= M
    BY ONLY <2>1, <2>2, l \in Nat, ua \in Nat, FirstWordBounds
  <2> QED
    BY <2>1, <2>2, <2>3
<1>4. PICK S \in Nat : S = Mantissa(b) /\ S < (ub + 1) * Power(DIG_BASE, m)
  <2>1. AreWords(w, m + 1) /\ ub = w[1] /\ Mantissa(b) = Positional(w, m + 1)
    BY <1>1, <1>2 DEF IsSignificant
  <2>2. PICK M : M = Positional(w, m + 1)
    OBVIOUS
  <2>3. M \in Nat /\ M < (ub + 1) * Power(DIG_BASE, m)
    BY ONLY <2>1, <2>2, m \in Nat, ub \in Nat, FirstWordBounds
  <2> QED
    BY <2>1, <2>2, <2>3
<1>5. PICK Bs \in Nat \ {0}, Bt \in Nat \ {0}, Bl \in Nat \ {0}, Bm \in Nat \ {0} :
        Bs = Power(DIG_BASE, s) /\ Bt = Power(DIG_BASE, t)
        /\ Bl = Power(DIG_BASE, l) /\ Bm = Power(DIG_BASE, m)
  BY <1>0, PowerPositive
<1>6. PICK la \in Nat, lb \in Nat : la = l + s /\ lb = m + t
  OBVIOUS
<1>7. Power(DIG_BASE, la) = Bl * Bs /\ Power(DIG_BASE, lb) = Bm * Bt
  BY <1>0, <1>5, <1>6, PowerSum
<1>8. PICK As \in Nat, St \in Nat : As = A * Bs /\ St = S * Bt
  OBVIOUS
<1>9. ua * Power(DIG_BASE, la) <= As
  <2>1. PICK c \in Nat : c = ua * Bl
    OBVIOUS
  <2>2. c * Bs <= A * Bs
    BY <1>3, <1>5, <2>1, MulMonotonic
  <2>3. c * Bs = ua * (Bl * Bs)
    BY <2>1
  <2> QED
    BY <1>7, <1>8, <2>2, <2>3
<1>10. St < (ub + 1) * Power(DIG_BASE, lb)
  <2>1. PICK k \in Nat, c \in Nat : k = ub + 1 /\ c = k * Bm
    OBVIOUS
  <2>2. S * Bt < c * Bt
    BY <1>4, <1>5, <2>1, MulOrder
  <2>3. c * Bt = k * (Bm * Bt)
    BY <2>1
  <2> QED
    BY <1>7, <1>8, <2>1, <2>2, <2>3
<1>11. la + e >= lb + N + 1
  BY <1>2, <1>6
<1>12. As * Radix >= St * Power(DIG_BASE, N)
  <2>1. ub <= DIG_MAX /\ e = IF ua < ub THEN 0 ELSE 1
    BY <1>1 DEF IsSignificant
  <2> QED
    BY ONLY <1>9, <1>10, <1>11, <2>1, ua \in Nat \ {0}, ub \in Nat \ {0}, e \in 0 .. 1, la \in Nat,
            lb \in Nat, N \in Nat, As \in Nat, St \in Nat, LargeQuotient
<1>13. Scaled(a, f) = As /\ Scaled(b, f) = St
  BY <1>1, <1>2, <1>3, <1>4, <1>5, <1>8 DEF Scaled
<1> QED
  BY <1>12, <1>13

(* What is made of operands that are not zero.                             *)
LEMMA QuotientIsGood ==
    ASSUME NEW a \in Decimals, NEW b \in Decimals, ~decimal_is_zero(a), ~decimal_is_zero(b),
           NEW incr \in Nat
    PROVE  GoodQuotient(Quotient(a, b, Increment(a, b, incr)), a, b, incr)
<1>0. DECIMAL_BUFF_LENGTH \in Nat \ {0}
  BY WordAssumption
<1>1. PICK La \in Nat \ {0}, ua \in Nat \ {0}, ka \in 1 .. DIG_PER_DEC1,
           Lb \in Nat \ {0}, ub \in Nat \ {0}, kb \in 1 .. DIG_PER_DEC1, e \in 0 .. 1,
           fa \in Nat, fb \in Nat, n \in Nat \ {0}, V \in Nat \ {0} :
        Operands(a, b, Significant(a), Significant(b), Divisor(b),
                 La, ua, ka, Lb, ub, kb, e, fa, fb, n, V)
  <2>1. AreOperands(a, b)
    BY OperandsExist
  <2> QED
    BY <2>1, Zenon DEF AreOperands
<1>2. /\ IsSignificant(a, Significant(a), La, ua, ka) /\ fa = ROUND_UP(a.frac)
      /\ IsSignificant(b, Significant(b), Lb, ub, kb) /\ fb = ROUND_UP(b.frac)
      /\ e = (IF ua < ub THEN 0 ELSE 1)
  BY <1>1, Zenon DEF Operands
<1>3. PICK I \in Int : I = ROUND_UP(IntgDigits(a, b)) /\ I = La - Lb - fa + fb + e
  <2>1. QuotientWords(a, b, La, Lb, fa, fb, e)
    BY ONLY <1>2, La \in Nat \ {0}, ua \in Nat \ {0}, ka \in 1 .. DIG_PER_DEC1, fa \in Nat,
            Lb \in Nat \ {0}, ub \in Nat \ {0}, kb \in 1 .. DIG_PER_DEC1, fb \in Nat, e \in 0 .. 1,
            IntgWordsOf
  <2> QED
    BY <2>1 DEF QuotientWords
<1>a. IncrementWords(a, b, incr, fa, fb, Increment(a, b, incr))
  BY ONLY <1>2, a \in Decimals, b \in Decimals, incr \in Nat, fa \in Nat, fb \in Nat, IncrementIs
<1>4. PICK j \in Nat : j = Increment(a, b, incr)
  BY <1>a DEF IncrementWords
<1>5. PICK g \in Nat : /\ g = ROUND_UP(j)
                       /\ ROUND_UP(FracDigits(a) + FracDigits(b) + j) = fa + fb + g
                       /\ (fa + fb + g) * DIG_PER_DEC1 >= a.frac + b.frac + incr
  BY <1>4, <1>a DEF IncrementWords
<1>6. PICK fix : fix = QFix(a, b, j)
  OBVIOUS
<1>7. PICK i \in Nat, F0 \in Nat : i = Max({0, I}) /\ F0 = fa + fb + g /\ fix = FixIntgFrac(i, F0)
  <2>1. Max({0, I}) \in Nat
    <3>1. Max({0, I}) = IF 0 >= I THEN 0 ELSE I
      BY MaxOfTwo
    <3> QED
      BY <3>1
  <2>2. fix = FixIntgFrac(Max({0, I}), fa + fb + g)
    BY <1>3, <1>5, <1>6, Zenon DEF QFix
  <2> QED
    BY <2>1, <2>2
<1>8. FixCut(fix, i, F0)
  BY <1>7, FixCuts
<1>9. PICK f \in Nat : f = FracOf(a, b) /\ fa <= f /\ fb <= f
  BY <1>2, Ends
<1>10. CASE fix.error # E_DEC_OVERFLOW
  <2>1. /\ fix.intg = i /\ fix.frac \in Nat /\ fix.frac <= F0 /\ i + fix.frac <= DECIMAL_BUFF_LENGTH
        /\ fix.error \in {E_DEC_OK, E_DEC_TRUNCATED} /\ i <= DECIMAL_BUFF_LENGTH
        /\ fix.error = E_DEC_OK => fix.frac = F0
        /\ fix.error = E_DEC_OK <=> i + F0 <= DECIMAL_BUFF_LENGTH
    BY <1>0, <1>8, <1>10 DEF FixCut
  <2>2. PICK F \in Nat : F = fix.frac
    BY <2>1
  <2>3. PICK z \in Int : z = QZeros(a, b, fix) /\ z = Min({Max({0, -I}), i + F})
    <3>1. QZeros(a, b, fix) = Min({Max({0, -I}), i + F})
      BY <1>3, <2>1, <2>2, Zenon DEF QZeros
    <3>2. PICK k \in Int, l \in Int : k = Max({0, -I}) /\ l = i + F
      <4>1. PICK h \in Int : h = -I
        OBVIOUS
      <4>2. Max({0, h}) = IF 0 >= h THEN 0 ELSE h
        BY MaxOfTwo
      <4>3. Max({0, h}) \in Int
        BY <4>2
      <4> QED
        BY <4>1, <4>3
    <3>3. Min({k, l}) = IF k <= l THEN k ELSE l
      BY MaxOfTwo
    <3>4. Min({k, l}) \in Int
      BY <3>3
    <3> QED
      BY <3>1, <3>2, <3>4
  <2>4. PICK N \in Int : N = (i + F) - z
    OBVIOUS
  <2>5. z \in Nat /\ N \in Nat /\ z + N = i + F /\ (N = I + F \/ (N = 0 /\ I + F <= 0))
    <3>1. i \in Int
      OBVIOUS
    <3>2. CountsAre(I, F, i, z, N)
      BY ONLY <1>7, <2>3, <2>4, <3>1, I \in Int, F \in Nat, z \in Int, N \in Int, QuotientCount
    <3> QED
      BY <3>2 DEF CountsAre
  <2>6. F <= fa + fb + ROUND_UP(j)
    BY <1>5, <1>7, <2>1, <2>2
  <2>7. Quoted(Loop(Dividend(a, b, j), Divisor(b), N), N, Scaled(a, f) * Power(DIG_BASE, F), Scaled(b, f))
    <3>1. Turning(La, Lb, fa, fb, e, f, j, I, F, N)
      BY <1>3, <1>9, <2>5, <2>6 DEF Turning
    <3>2. QuotedWith(a, b, Divisor(b), f, j, F, N)
      BY ONLY <1>1, <2>5, <3>1, La \in Nat \ {0}, ua \in Nat \ {0}, ka \in 1 .. DIG_PER_DEC1,
              Lb \in Nat \ {0}, ub \in Nat \ {0}, kb \in 1 .. DIG_PER_DEC1, e \in 0 .. 1,
              fa \in Nat, fb \in Nat, n \in Nat \ {0}, V \in Nat \ {0}, j \in Nat, F \in Nat,
              I \in Int, f \in Nat, Quoting
    <3> QED
      BY <3>2, Zenon DEF QuotedWith
  <2>8. QuotientMade(Quotient(a, b, j), fix.error, i, F, Scaled(a, f) * Power(DIG_BASE, F), Scaled(b, f))
    <3>1. fix.intg = i /\ fix.frac = F /\ z + N = i + F /\ z = QZeros(a, b, fix)
          /\ i = Max({0, I}) /\ I = ROUND_UP(IntgDigits(a, b)) /\ z \in Nat /\ N \in Nat
      BY <1>3, <1>7, <2>1, <2>2, <2>3, <2>5
    <3> QED
      BY ONLY <1>6, <2>7, <3>1, a \in Decimals, b \in Decimals, I \in Int, i \in Nat, F \in Nat,
              QuotientMakes
  <2>9. fix.error = E_DEC_TRUNCATED => i + F = DECIMAL_BUFF_LENGTH
    <3> SUFFICES ASSUME fix.error = E_DEC_TRUNCATED PROVE i + F = DECIMAL_BUFF_LENGTH
      OBVIOUS
    <3>1. E_DEC_TRUNCATED # E_DEC_OK
      BY DEF E_DEC_TRUNCATED, E_DEC_OK
    <3>2. i + F0 > DECIMAL_BUFF_LENGTH
      BY <1>0, <2>1, <3>1
    <3>3. fix = [intg |-> i, frac |-> DECIMAL_BUFF_LENGTH - i, error |-> E_DEC_TRUNCATED]
      BY <1>7, <2>1, <3>2, FixIs
    <3>4. F = DECIMAL_BUFF_LENGTH - i
      BY <2>2, <3>3
    <3> QED
      BY <1>0, <3>4
  <2>10. fix.error = E_DEC_OK => F * DIG_PER_DEC1 >= a.frac + b.frac + incr
    BY <1>5, <1>7, <2>1, <2>2
  <2>11. i + F <= DECIMAL_BUFF_LENGTH /\ fix.error \in {E_DEC_OK, E_DEC_TRUNCATED}
    BY <2>1, <2>2
  <2>12. GoodQuotient(Quotient(a, b, j), a, b, incr)
    BY ONLY <1>9, <2>8, <2>9, <2>10, <2>11, a \in Decimals, b \in Decimals, ~decimal_is_zero(b),
            f \in Nat, i \in Nat, F \in Nat, MadeIsHonest
  <2> QED
    BY <1>4, <2>12
<1>11. CASE fix.error = E_DEC_OVERFLOW
  <2>1. i > DECIMAL_BUFF_LENGTH
    BY <1>8, <1>11 DEF FixCut
  <2>2. La - Lb - fa + fb + e >= DECIMAL_BUFF_LENGTH + 1
    <3>1. Max({0, I}) = IF 0 >= I THEN 0 ELSE I
      BY MaxOfTwo
    <3>2. I >= DECIMAL_BUFF_LENGTH + 1
      BY <1>0, <1>7, <2>1, <3>1
    <3> QED
      BY <1>3, <3>2
  <2>3. PICK N \in Nat : N = DECIMAL_BUFF_LENGTH
    BY <1>0
  <2>4. La - Lb - fa + fb + e >= N + 1
    BY <2>2, <2>3
  <2>5. Scaled(a, f) * Radix >= Scaled(b, f) * Power(DIG_BASE, N)
    BY ONLY <1>1, <1>9, <2>4, La \in Nat \ {0}, ua \in Nat \ {0}, ka \in 1 .. DIG_PER_DEC1,
            Lb \in Nat \ {0}, ub \in Nat \ {0}, kb \in 1 .. DIG_PER_DEC1, e \in 0 .. 1,
            fa \in Nat, fb \in Nat, n \in Nat \ {0}, V \in Nat \ {0}, f \in Nat, N \in Nat, Overflows
  <2>6. PICK r : r = Quotient(a, b, j)
    OBVIOUS
  <2>7. r.error = E_DEC_OVERFLOW
    <3>1. Quotient(a, b, j) = QMade(a, b, j, fix)
      BY <1>6, QuotientUnfolds
    <3> QED
      BY <1>11, <2>6, <3>1 DEF QMade
  <2>8. Scaled(b, f) # 0
    BY <1>2, <1>9, ScaledZero
  <2>9. f = Max({ROUND_UP(a.frac), ROUND_UP(b.frac)})
    BY <1>9 DEF FracOf
  <2>10. E_DEC_OVERFLOW \notin {E_DEC_OK, E_DEC_TRUNCATED, E_DEC_DIV_ZERO}
    BY DEF E_DEC_OK, E_DEC_TRUNCATED, E_DEC_OVERFLOW, E_DEC_DIV_ZERO
  <2>11. HonestQuotient(r, a, b, incr)
    <3>1. r.error # E_DEC_DIV_ZERO /\ r.error # E_DEC_OK /\ r.error # E_DEC_TRUNCATED
      BY <2>7, <2>10
    <3>2. Scaled(a, f) * Radix >= Scaled(b, f) * Power(DIG_BASE, DECIMAL_BUFF_LENGTH)
      BY <2>3, <2>5
    <3> QED
      BY <2>8, <2>9, <3>1, <3>2, Zenon DEF HonestQuotient
  <2> QED
    BY <1>4, <2>6, <2>7, <2>11 DEF GoodQuotient
<1> QED
  BY <1>10, <1>11

(* The answer of any division.                                             *)
DivAnswer(r, a, b, incr) ==
    /\ HonestQuotient(r, a, b, incr)
    /\ r.error < E_DEC_OVERFLOW => r.to \in Decimals /\ Fits(r.to)

LEMMA DivIsHonest ==
    ASSUME NEW a \in Decimals, NEW b \in Decimals, NEW incr \in Nat
    PROVE  DivAnswer(decimal_div(a, b, incr), a, b, incr)
<1>0. /\ E_DEC_OK = 0 /\ E_DEC_TRUNCATED = 1 /\ E_DEC_OVERFLOW = 2 /\ E_DEC_DIV_ZERO = 4
  BY DEF E_DEC_OK, E_DEC_TRUNCATED, E_DEC_OVERFLOW, E_DEC_DIV_ZERO
<1>1. PICK f \in Nat : f = Max({ROUND_UP(a.frac), ROUND_UP(b.frac)})
                       /\ ROUND_UP(a.frac) <= f /\ ROUND_UP(b.frac) <= f
  BY Ends DEF FracOf
<1>2. PICK A \in Nat, S \in Nat : A = Scaled(a, f) /\ S = Scaled(b, f)
        /\ (A = 0 <=> decimal_is_zero(a)) /\ (S = 0 <=> decimal_is_zero(b))
  BY <1>1, ScaledZero
<1>3. CASE decimal_is_zero(b)
  <2>1. decimal_div(a, b, incr) = [to |-> a, error |-> E_DEC_DIV_ZERO]
    BY <1>3, Zenon DEF decimal_div, Done
  <2>2. PICK r : r = decimal_div(a, b, incr) /\ r.error = E_DEC_DIV_ZERO
    BY <2>1
  <2>3. HonestQuotient(r, a, b, incr)
    <3>1. r.error # E_DEC_OK /\ r.error # E_DEC_TRUNCATED /\ r.error # E_DEC_OVERFLOW
      BY <1>0, <2>2
    <3>2. S = 0
      BY <1>2, <1>3
    <3> QED
      BY <1>1, <1>2, <2>2, <3>1, <3>2, Zenon DEF HonestQuotient
  <2>4. ~(r.error < E_DEC_OVERFLOW)
    BY <1>0, <2>2
  <2> QED
    BY <2>2, <2>3, <2>4 DEF DivAnswer
<1>4. CASE decimal_is_zero(a) /\ ~decimal_is_zero(b)
  <2>1. decimal_div(a, b, incr) = [to |-> Zero, error |-> E_DEC_OK]
    BY <1>4, Zenon DEF decimal_div, Done
  <2>2. PICK r : r = decimal_div(a, b, incr) /\ r.error = E_DEC_OK /\ r.to = Zero
    BY <2>1
  <2>3. Zero \in Decimals /\ Fits(Zero)
    BY ZeroIs
  <2>4. Mantissa(Zero) = 0
    <3>1. decimal_is_zero(Zero)
      BY DEF Zero, decimal_is_zero
    <3>2. ROUND_UP(Zero.frac) \in Nat /\ ROUND_UP(Zero.frac) <= ROUND_UP(Zero.frac)
      BY <2>3, DecimalTypes
    <3> QED
      BY <2>3, <3>1, <3>2, ScaledZero
  <2>5. PICK c \in Nat : c = Power(DIG_BASE, ROUND_UP(r.to.frac))
    <3>1. ROUND_UP(Zero.frac) \in Nat
      BY <2>3, DecimalTypes
    <3> QED
      BY <2>2, <3>1, Base, PowerPositive
  <2>6. A = 0 /\ S # 0
    BY <1>2, <1>4
  <2>7. 0 * S <= A * c /\ A * c < (0 + 1) * S
    BY <2>6
  <2>8. HonestQuotient(r, a, b, incr)
    <3>1. r.error # E_DEC_DIV_ZERO /\ r.error # E_DEC_TRUNCATED /\ r.error # E_DEC_OVERFLOW
      BY <1>0, <2>2
    <3>2. Mantissa(r.to) = 0
      BY <2>2, <2>4
    <3> QED
      BY <1>1, <1>2, <2>2, <2>5, <2>6, <2>7, <3>1, <3>2, Zenon DEF HonestQuotient
  <2> QED
    BY <2>2, <2>3, <2>8 DEF DivAnswer
<1>5. CASE ~decimal_is_zero(a) /\ ~decimal_is_zero(b)
  <2>1. decimal_div(a, b, incr) = Quotient(a, b, Increment(a, b, incr))
    BY <1>5, Zenon DEF decimal_div
  <2>2. GoodQuotient(Quotient(a, b, Increment(a, b, incr)), a, b, incr)
    BY <1>5, QuotientIsGood
  <2>3. PICK r : r = decimal_div(a, b, incr) /\ GoodQuotient(r, a, b, incr)
    BY <2>1, <2>2
  <2>4. r.error < E_DEC_OVERFLOW => r.error # E_DEC_OVERFLOW
    BY <1>0
  <2> QED
    BY <2>3, <2>4 DEF DivAnswer, GoodQuotient
<1> QED
  BY <1>3, <1>4, <1>5

-----------------------------------------------------------------------------
(* The remainder.                                                          *)

(* The digits after the last one of a fraction are zeros.                  *)
LEMMA ScaledMultiple ==
    ASSUME NEW d \in Decimals, NEW f \in Nat, ROUND_UP(d.frac) <= f, NEW frac \in Nat, d.frac <= frac,
           NEW t \in Nat, t = f * DIG_PER_DEC1 - frac
    PROVE  Multiple(Scaled(d, f), Power(Radix, t))
<1>0. Radix \in Nat \ {0} /\ Radix \in Int /\ DIG_BASE = Power(Radix, DIG_PER_DEC1)
  BY Base DEF DIG_BASE
<1>1. PICK D \in Nat : D = DIG_PER_DEC1
  BY WordAssumption
<1>2. PICK g \in Nat, q \in Nat, M \in Nat : g = ROUND_UP(d.frac) /\ q = d.frac /\ M = Mantissa(d)
  <2>1. ROUND_UP(d.frac) \in Nat /\ d.frac \in Nat /\ Mantissa(d) \in Nat
    BY DecimalTypes, ScaledTypes
  <2> QED
    BY <2>1
<1>3. PICK s \in Nat, gD \in Nat, sD \in Nat : s = f - g /\ gD = g * D /\ sD = D * s
  <2>1. f - g \in Nat
    BY <1>2
  <2> QED
    BY <2>1
<1>4. f * D = gD + sD
  <2>1. f = g + s
    BY <1>2, <1>3
  <2> QED
    BY <1>3, <2>1
<1>5. PICK u \in Nat : u = gD - q
  <2>1. d.frac <= ROUND_UP(d.frac) * DIG_PER_DEC1
    BY <1>2, RoundUp
  <2>2. q <= gD
    BY <1>1, <1>2, <1>3, <2>1
  <2> QED
    BY <2>2
<1>6. PICK h \in Nat : u + sD = t + h
  <2>1. t = gD + sD - frac /\ q <= frac
    BY <1>1, <1>2, <1>4
  <2>2. (u + sD) - t \in Nat
    BY <1>5, <2>1
  <2> QED
    BY <2>2
<1>7. Multiple(M, Power(Radix, u))
  <2>1. u = g * DIG_PER_DEC1 - d.frac
    BY <1>1, <1>2, <1>3, <1>5
  <2> QED
    BY <1>2, <2>1, MantissaMultiple
<1>8. PICK Pu \in Nat, Ps \in Nat, Pt \in Nat, Ph \in Nat :
        Pu = Power(Radix, u) /\ Ps = Power(Radix, sD) /\ Pt = Power(Radix, t) /\ Ph = Power(Radix, h)
  BY <1>0, PowerPositive
<1>9. Ps = Power(DIG_BASE, s)
  <2>1. Power(Power(Radix, D), s) = Power(Radix, D * s)
    BY <1>0, PowerPower
  <2> QED
    BY <1>0, <1>1, <1>3, <1>8, <2>1
<1>10. Pu * Ps = Pt * Ph
  <2>1. Power(Radix, u + sD) = Pu * Ps /\ Power(Radix, t + h) = Pt * Ph
    <3>1. Power(Radix, u + sD) = Power(Radix, u) * Power(Radix, sD)
      BY <1>0, PowerSum
    <3>2. Power(Radix, t + h) = Power(Radix, t) * Power(Radix, h)
      BY <1>0, PowerSum
    <3> QED
      BY <1>8, <3>1, <3>2
  <2> QED
    BY <1>6, <2>1
<1>11. PICK k \in Int : M = k * Pu
  BY <1>7, <1>8 DEF Multiple
<1>12. Scaled(d, f) = M * Ps
  BY <1>2, <1>3, <1>9 DEF Scaled
<1>13. M * Ps = (k * Ph) * Pt
  <2>1. M * Ps = k * (Pu * Ps)
    BY <1>11
  <2>2. k * (Pt * Ph) = (k * Ph) * Pt
    OBVIOUS
  <2> QED
    BY <1>10, <2>1, <2>2
<1>14. PICK l \in Int : l = k * Ph
  OBVIOUS
<1> QED
  BY <1>8, <1>12, <1>13, <1>14 DEF Multiple

(* The word carried and those from start1 to j.                            *)
Rest(s, l) == [k \in 1 .. l |-> IF k = 1 THEN s.dcarry ELSE s.rem[s.start1 + (k - 2)]]

(* c words of rem from start to j, which are rho together.                 *)
Left(rem, start, c, len, j, rho) ==
    /\ IsLine(rem, len) /\ j <= len
    /\ start + c = j + 1
    /\ rho = Positional(Span(rem, start, c), c)

LeftFrom(s, start) ==
    \/ start = s.start1 /\ s.dcarry = 0
    \/ start = s.start1 - 1 /\ s.dcarry # 0

LeavesOf(a, b, s, start, c, len, j, rho) ==
    \E rem : /\ LeftBy(a, b, s) = Remainder(a, b, rem, start)
             /\ Left(rem, start, c, len, j, rho)

LEMMA LeftIs ==
    ASSUME NEW a, NEW b, NEW s, IsState(s), NEW len \in Nat, IsLine(s.rem, len),
           NEW j \in Nat, j <= len, NEW n \in Nat \ {0}, s.start1 = n, s.dcarry \in 0 .. DIG_MAX,
           n = 1 => s.dcarry = 0, NEW l \in Nat \ {0}, l = j - n + 2,
           NEW rho, rho = Positional(Rest(s, l), l)
    PROVE  \E start \in Nat \ {0}, c \in Nat :
               LeftFrom(s, start) /\ LeavesOf(a, b, s, start, c, len, j, rho)
<1>0. DIG_MAX \in Nat
  BY Base
<1>1. PICK R : R = Rest(s, l)
  OBVIOUS
<1>2. \A k \in 1 .. l : R[k] = IF k = 1 THEN s.dcarry ELSE s.rem[n + (k - 2)]
  BY <1>1 DEF Rest
<1>3. \A k \in 1 .. len : s.rem[k] \in 0 .. DIG_MAX
  BY DEF IsLine
<1>4. CASE s.dcarry = 0
  <2>1. LeftBy(a, b, s) = Remainder(a, b, s.rem, s.start1)
    BY <1>4, Zenon DEF LeftBy
  <2>2. PICK c \in Nat : l = c + 1 /\ n + c = j + 1
    <3>1. l - 1 \in Nat
      OBVIOUS
    <3> QED
      BY <3>1
  <2>3. PICK y : y = Span(s.rem, n, c)
    OBVIOUS
  <2>4. \A k \in 1 .. c : y[k] = R[k + 1]
    <3>1. \A k \in 1 .. c : k + 1 \in 1 .. l /\ k + 1 # 1 /\ n + ((k + 1) - 2) = n + k - 1
      BY <2>2
    <3>2. \A k \in 1 .. c : y[k] = s.rem[n + k - 1]
      BY <2>3 DEF Span
    <3> QED
      BY <1>2, <3>1, <3>2
  <2>5. \A k \in 1 .. c + 1 : R[k] \in Int
    <3>1. \A k \in 1 .. c + 1 : k \in 1 .. l /\ (k # 1 => n + (k - 2) \in 1 .. len)
      BY ONLY <2>2, c \in Nat, l \in Nat, n \in Nat \ {0}, j \in Nat, j <= len, len \in Nat
    <3>2. \A k \in 1 .. c + 1 : k # 1 => s.rem[n + (k - 2)] \in Int
      BY <1>0, <1>3, <3>1
    <3> QED
      BY <1>2, <1>4, <3>1, <3>2
  <2>6. Positional(R, c + 1) = R[1] * Power(DIG_BASE, c) + Positional(y, c)
    BY ONLY <2>4, <2>5, c \in Nat, PositionalFirst
  <2>7. R[1] = 0
    <3>1. 1 \in 1 .. l
      OBVIOUS
    <3> QED
      BY <1>2, <1>4, <3>1
  <2>8. Positional(y, c) \in Int /\ Power(DIG_BASE, c) \in Int
    <3>1. \A k \in 1 .. c : y[k] \in Int
      <4>1. \A k \in 1 .. c : k + 1 \in 1 .. c + 1
        OBVIOUS
      <4> QED
        BY <2>4, <2>5, <4>1
    <3>2. c \in 0 .. c
      OBVIOUS
    <3>3. \A m \in 0 .. c : Positional(y, m) \in Int
      BY ONLY <3>1, c \in Nat, Positionals
    <3>4. DIG_BASE \in Int
      BY Base
    <3> QED
      BY <3>2, <3>3, <3>4, Powers
  <2>9. rho = Positional(y, c)
    BY <1>1, <2>2, <2>6, <2>7, <2>8
  <2>10. Left(s.rem, n, c, len, j, rho)
    BY <2>2, <2>3, <2>9 DEF Left
  <2>11. LeftFrom(s, n) /\ LeavesOf(a, b, s, n, c, len, j, rho)
    BY <1>4, <2>1, <2>10 DEF LeftFrom, LeavesOf
  <2> QED
    BY <2>11
<1>5. CASE s.dcarry # 0
  <2>1. PICK m \in Nat \ {0} : m = n - 1 /\ m + l = j + 1 /\ m = s.start1 - 1
    <3>1. n # 1
      BY <1>5
    <3>2. n - 1 \in Nat \ {0}
      BY <3>1
    <3> QED
      BY <3>2
  <2>2. PICK rem : rem = [s.rem EXCEPT ![m] = s.dcarry]
    OBVIOUS
  <2>3. LeftBy(a, b, s) = Remainder(a, b, rem, m)
    BY <1>5, <2>1, <2>2, Zenon DEF LeftBy
  <2>4. IsLine(rem, len) /\ \A k \in 1 .. len : rem[k] = IF k = m THEN s.dcarry ELSE s.rem[k]
    BY <2>2 DEF IsLine
  <2>5. PICK y : y = Span(rem, m, l)
    OBVIOUS
  <2>6. \A k \in 1 .. l : y[k] = R[k]
    <3>1. \A k \in 1 .. l : m + k - 1 \in 1 .. len /\ (k = 1 <=> m + k - 1 = m)
                            /\ n + (k - 2) = m + k - 1
      BY ONLY <2>1, l \in Nat, m \in Nat \ {0}, n \in Nat, j \in Nat, j <= len, len \in Nat
    <3>2. \A k \in 1 .. l : y[k] = rem[m + k - 1]
      BY <2>5 DEF Span
    <3> QED
      BY <1>2, <2>4, <3>1, <3>2
  <2>7. \A k \in 1 .. l : R[k] \in Int
    <3>1. \A k \in 1 .. l : m + k - 1 \in 1 .. len
      BY ONLY <2>1, l \in Nat, m \in Nat \ {0}, n \in Nat, j \in Nat, j <= len, len \in Nat
    <3>2. \A k \in 1 .. l : y[k] = rem[m + k - 1]
      BY <2>5 DEF Span
    <3>3. \A k \in 1 .. len : rem[k] \in Int
      BY <1>0, <2>4 DEF IsLine
    <3> QED
      BY <2>6, <3>1, <3>2, <3>3
  <2>8. Positional(y, l) = Positional(R, l)
    BY ONLY <2>6, <2>7, l \in Nat, PositionalSame
  <2>9. Left(rem, m, l, len, j, rho)
    BY <1>1, <2>1, <2>4, <2>5, <2>8 DEF Left
  <2>10. LeftFrom(s, m) /\ LeavesOf(a, b, s, m, l, len, j, rho)
    BY <1>5, <2>1, <2>3, <2>9 DEF LeftFrom, LeavesOf
  <2> QED
    BY <2>10
<1> QED
  BY <1>4, <1>5

(* The rest is that of the words up to j.                                  *)
RestDivides(tmp, s, j, l, S) ==
    \E Q \in Nat, rho \in Nat :
        /\ rho = Positional(Rest(s, l), l)
        /\ Positional(tmp, j) = Q * S + rho
        /\ rho < S

LEMMA RestOf ==
    ASSUME NEW s, NEW tmp, NEW x, NEW n \in Nat \ {0}, NEW len \in Nat, NEW V \in Nat \ {0},
           NEW e \in 0 .. 1, NEW N \in Nat, Dividing(s, tmp, x, n, len, V, e, N), IsLine(tmp, len),
           NEW m \in Nat, m = N - e + n, NEW E \in Nat, NEW j \in Nat, j = m + E, j <= len,
           NEW l \in Nat, l = n + E, NEW S \in Nat, S = V * Power(DIG_BASE, E)
    PROVE  RestDivides(tmp, s, j, l, S)
<1>0. DIG_MAX \in Nat /\ DIG_BASE \in Nat \ {0} /\ DIG_BASE \in Int
  BY Base
<1>1. /\ IsLine(s.rem, len) /\ s.start1 = 2 - e + N /\ s.dcarry \in 0 .. DIG_MAX
      /\ \A k \in 1 .. len : k >= s.start1 + n - 1 => s.rem[k] = tmp[k]
  BY DEF Dividing
<1>2. PICK Q \in Nat, Z \in Nat : Halfway(s, tmp, x, n, V, N, Q, Z)
  BY DEF Dividing
<1>3. PICK a \in Nat : a = s.start1 /\ a + n = m + 2 /\ a >= 1
  BY <1>1
<1>4. Z = Positional(Window(s, n), n) /\ Z < V /\ Positional(tmp, m) = Q * V + Z
  <2>1. s.start1 + n - 2 = m
    BY <1>3
  <2> QED
    BY <1>2, <2>1 DEF Halfway
<1>5. PICK W, R, z : W = Window(s, n) /\ R = Rest(s, l) /\ z = [k \in 1 .. E |-> tmp[m + k]]
  OBVIOUS
<1>6. \A k \in 1 .. l : R[k] = IF k = 1 THEN s.dcarry ELSE s.rem[a + (k - 2)]
  BY <1>3, <1>5 DEF Rest
<1>7. \A k \in 1 .. n : W[k] = R[k]
  <2>1. \A k \in 1 .. n : k \in 1 .. l
    OBVIOUS
  <2>2. \A k \in 1 .. n : W[k] = IF k = 1 THEN s.dcarry ELSE s.rem[a + (k - 2)]
    BY <1>3, <1>5 DEF Window
  <2> QED
    BY <1>6, <2>1, <2>2
<1>8. \A k \in 1 .. len : s.rem[k] \in 0 .. DIG_MAX /\ tmp[k] \in 0 .. DIG_MAX
  BY <1>1 DEF IsLine
<1>9. \A k \in 1 .. l : R[k] \in Int
  <2>1. \A k \in 1 .. l : k # 1 => a + (k - 2) \in 1 .. len
    BY ONLY <1>3, l = n + E, l \in Nat, n \in Nat \ {0}, E \in Nat, m \in Nat, j = m + E, j \in Nat,
            j <= len, len \in Nat, a \in Nat
  <2>2. \A k \in 1 .. l : k # 1 => s.rem[a + (k - 2)] \in Int
    BY <1>0, <1>8, <2>1
  <2> QED
    BY <1>0, <1>1, <1>6, <2>2
<1>10. \A k \in 1 .. E : z[k] = R[n + k] /\ z[k] = tmp[m + k] /\ z[k] \in 0 .. DIG_MAX
  <2>1. \A k \in 1 .. E : /\ n + k \in 1 .. l /\ n + k # 1 /\ a + ((n + k) - 2) = m + k
                          /\ m + k \in 1 .. len /\ m + k >= a + n - 1
    BY ONLY <1>3, l = n + E, l \in Nat, n \in Nat \ {0}, E \in Nat, m \in Nat, j = m + E, j \in Nat,
            j <= len, len \in Nat, a \in Nat
  <2>2. \A k \in 1 .. E : z[k] = tmp[m + k]
    BY <1>5
  <2>3. \A k \in 1 .. E : R[n + k] = s.rem[m + k]
    BY <1>6, <2>1
  <2>4. \A k \in 1 .. E : s.rem[m + k] = tmp[m + k]
    BY <1>1, <1>3, <2>1
  <2> QED
    BY <1>8, <2>1, <2>2, <2>3, <2>4
<1>11. PICK T \in Nat : T = Positional(z, E) /\ T < Power(DIG_BASE, E)
  <2>1. AreWords(z, E)
    BY <1>10 DEF AreWords
  <2> QED
    BY <2>1, PositionalRange
<1>12. PICK c \in Nat \ {0} : c = Power(DIG_BASE, E)
  BY <1>0, PowerPositive
<1>13. Positional(R, n + E) = Positional(R, n) * Power(DIG_BASE, E) + Positional(z, E)
  <2>1. (\A k \in 1 .. n + E : R[k] \in Int) /\ \A k \in 1 .. E : z[k] = R[n + k]
    BY <1>9, <1>10
  <2> QED
    BY ONLY <2>1, n \in Nat, E \in Nat, PositionalSplit
<1>14. Positional(R, n) = Z
  <2>1. \A k \in 1 .. n : R[k] \in Int /\ W[k] = R[k]
    <3>1. \A k \in 1 .. n : k \in 1 .. l
      OBVIOUS
    <3> QED
      BY <1>7, <1>9, <3>1
  <2>2. Positional(W, n) = Positional(R, n)
    BY ONLY <2>1, n \in Nat, PositionalSame
  <2> QED
    BY <1>4, <1>5, <2>2
<1>15. Positional(tmp, m + E) = Positional(tmp, m) * Power(DIG_BASE, E) + Positional(z, E)
  <2>1. \A k \in 1 .. m + E : tmp[k] \in Int
    <3>1. \A k \in 1 .. m + E : k \in 1 .. len
      OBVIOUS
    <3> QED
      BY <1>0, <1>8, <3>1
  <2>2. \A k \in 1 .. E : z[k] = tmp[m + k]
    BY <1>10
  <2> QED
    BY ONLY <2>1, <2>2, m \in Nat, E \in Nat, PositionalSplit
<1>16. PICK Zc \in Nat, Vc \in Nat, rho \in Nat : Zc = Z * c /\ Vc = V * c /\ rho = Zc + T
  OBVIOUS
<1>17. rho = Positional(R, l)
  BY <1>11, <1>12, <1>13, <1>14, <1>16
<1>18. rho < S
  <2>1. Z + 1 <= V /\ V \in Int
    BY <1>4
  <2>2. (Z + 1) * c <= V * c
    <3>1. PICK k \in Int : k = Z + 1
      OBVIOUS
    <3>2. k * c <= V * c
      BY <2>1, <3>1, MulMonotonic
    <3> QED
      BY <3>1, <3>2
  <2>3. (Z + 1) * c = Zc + c
    BY <1>16
  <2> QED
    BY <1>11, <1>12, <1>16, <2>2, <2>3
<1>19. Positional(tmp, j) = Q * S + rho
  <2>1. PICK QV \in Nat, QS \in Nat : QV = Q * V /\ QS = Q * S
    OBVIOUS
  <2>2. (QV + Z) * c = QV * c + Zc
    BY <1>16, <2>1
  <2>3. QV * c = Q * (V * c)
    BY <2>1
  <2>4. QV * c = QS
    BY <1>12, <2>1, <2>3
  <2>5. Positional(tmp, j) = (QV + Z) * c + T
    BY <1>4, <1>11, <1>12, <1>15, <2>1
  <2> QED
    BY <1>16, <2>1, <2>2, <2>4, <2>5
<1> QED
  BY <1>5, <1>17, <1>18, <1>19 DEF RestDivides

(* What is left of a and b, from a word that is not before those of b.     *)
LeavesRest(rem, start, c, len, a, b, La, fa, Lb, fb, f) ==
    /\ Modulus(a, b) = Remainder(a, b, rem, start)
    /\ Left(rem, start, c, len, La - fa + f, Scaled(a, f) % Scaled(b, f))
    /\ La - fa - start + 1 <= Lb - fb

ModulusLeaves(a, b, La, fa, Lb, fb, f) ==
    \E start \in Nat \ {0}, c \in Nat, len \in Nat : \E rem :
        LeavesRest(rem, start, c, len, a, b, La, fa, Lb, fb, f)

AllWords(tmp, j, a, f) == Positional(tmp, j) = Scaled(a, f)

LEMMA WholeDividend ==
    ASSUME NEW a \in Decimals, NEW v, NEW La \in Nat, NEW ua, NEW ka, IsSignificant(a, v, La, ua, ka),
           NEW fa \in Nat, fa = ROUND_UP(a.frac), NEW f \in Nat, fa <= f,
           NEW tmp, NEW len \in Nat, NEW fb, NEW incr, IsDividend(tmp, v, La, len, fb, incr),
           NEW j \in Nat, j = La - fa + f, j <= len
    PROVE  AllWords(tmp, j, a, f)
<1>0. DIG_MAX \in Nat /\ DIG_BASE \in Nat \ {0} /\ DIG_BASE \in Int
  BY Base
<1>1. AreWords(v, La) /\ Mantissa(a) = Positional(v, La)
  BY DEF IsSignificant
<1>2. IsLine(tmp, len) /\ \A k \in 1 .. len : tmp[k] = IF k <= La THEN v[k] ELSE 0
  BY DEF IsDividend
<1>3. \A k \in 1 .. j : k \in 1 .. len
  OBVIOUS
<1>4. \A k \in 1 .. j : tmp[k] = IF k <= La THEN v[k] ELSE 0
  BY <1>2, <1>3
<1>5. PICK M \in Nat : M = Mantissa(a)
  BY ScaledTypes
<1>6. PICK P \in Nat : P = Positional(tmp, j)
  <2>1. AreWords(tmp, j)
    BY <1>2, <1>3 DEF IsLine, AreWords
  <2> QED
    BY <2>1, PositionalRange
<1>7. IsLead(P, M, La, j)
  <2>1. M = Positional(v, La)
    BY <1>1, <1>5
  <2> QED
    BY ONLY <1>1, <1>4, <1>6, <2>1, La \in Nat, j \in Nat, M \in Nat, P \in Nat, PrefixIs
<1>8. j >= La /\ j - La = f - fa
  OBVIOUS
<1>9. P = M * Power(DIG_BASE, f - fa)
  BY <1>7, <1>8 DEF IsLead
<1> QED
  BY <1>5, <1>6, <1>9 DEF Scaled, AllWords

LEMMA RestStart ==
    ASSUME NEW s, NEW a, NEW j, NEW m, NEW e \in 0 .. 1, NEW N \in Nat, NEW n \in Nat \ {0},
           NEW E \in Nat, a = s.start1, s.start1 = 2 - e + N, m = N - e + n, j = m + E,
           (e = 1 /\ N = 0 => s.dcarry = 0)
    PROVE  /\ a \in Nat \ {0}
           /\ a = 1 => s.dcarry = 0
           /\ n + E = j - a + 2
OBVIOUS

LEMMA ModulusLong ==
    ASSUME NEW a, NEW b, NEW v, NEW w, NEW x, NEW La \in Nat \ {0}, NEW ua \in Nat \ {0},
           NEW ka \in 1 .. DIG_PER_DEC1, NEW Lb \in Nat \ {0}, NEW ub \in Nat \ {0},
           NEW kb \in 1 .. DIG_PER_DEC1, NEW e \in 0 .. 1, NEW fa \in Nat, NEW fb \in Nat,
           NEW n \in Nat \ {0}, NEW V \in Nat \ {0},
           Operands(a, b, v, w, x, La, ua, ka, Lb, ub, kb, e, fa, fb, n, V),
           NEW f \in Nat, fa <= f, fb <= f, f <= fa + fb,
           NEW N \in Nat, N = ROUND_UP(IntgDigits(a, b)), N = La - Lb - fa + fb + e
    PROVE  ModulusLeaves(a, b, La, fa, Lb, fb, f)
<1>0. DIG_BASE \in Nat \ {0} /\ DIG_BASE \in Int
  BY Base
<1>1. /\ a \in Decimals /\ IsSignificant(a, v, La, ua, ka) /\ fa = ROUND_UP(a.frac)
      /\ b \in Decimals /\ IsSignificant(b, w, Lb, ub, kb) /\ fb = ROUND_UP(b.frac)
      /\ e = (IF ua < ub THEN 0 ELSE 1) /\ x = Divisor(b) /\ IsDivisor(b, x, n, Lb, ub, V)
  BY DEF Operands
<1>2. AreWords(v, La) /\ v[1] = ua
  BY <1>1 DEF IsSignificant
<1>3. /\ Len(x) = n /\ n <= Lb /\ AreWords(x, n) /\ x[1] = ub /\ V = Positional(x, n)
      /\ Mantissa(b) = V * Power(DIG_BASE, Lb - n)
  BY <1>1 DEF IsDivisor
<1>4. PICK incr \in Nat : incr = 0 /\ ROUND_UP(incr) \in Nat
  <2>1. 0 \in Nat /\ 0 \in Int /\ 0 >= 0
    OBVIOUS
  <2>2. ROUND_UP(0) \in Nat
    BY <2>1, RoundUp
  <2> QED
    BY <2>1, <2>2
<1>5. PICK tmp : tmp = Dividend(a, b, incr)
  OBVIOUS
<1>6. PICK len \in Nat : IsDividend(tmp, v, La, len, fb, incr)
  <2>1. \E len \in Nat : IsDividend(Dividend(a, b, incr), v, La, len, fb, incr)
    BY ONLY <1>1, La \in Nat \ {0}, ka \in 1 .. DIG_PER_DEC1, fb \in Nat, incr \in Nat, DividendIs
  <2> QED
    BY <1>5, <2>1
<1>7. len >= La + 2 * fb + 1 /\ len >= 3 /\ IsLine(tmp, len)
      /\ \A k \in 1 .. len : tmp[k] = IF k <= La THEN v[k] ELSE 0
  BY <1>4, <1>6 DEF IsDividend
<1>8. n <= len /\ N - e + n <= len /\ N - e + 2 <= len
  BY ONLY <1>3, <1>7, N = La - Lb - fa + fb + e, N \in Nat, La \in Nat \ {0}, Lb \in Nat \ {0},
          fa \in Nat, fb \in Nat, e \in 0 .. 1, n \in Nat, len \in Nat
<1>9. PICK s : s = Loop(tmp, x, N)
  OBVIOUS
<1>10. Dividing(s, tmp, x, n, len, V, e, N)
  <2>1. tmp[1] = v[1]
    <3>1. 1 \in 1 .. len /\ 1 <= La
      BY <1>7
    <3> QED
      BY <1>7, <3>1
  <2>2. e = IF tmp[1] < x[1] THEN 0 ELSE 1
    BY <1>1, <1>2, <1>3, <2>1
  <2>3. n = Len(x) /\ AreWords(x, n) /\ x[1] # 0 /\ V = Positional(x, n) /\ IsLine(tmp, len)
    BY <1>3, <1>7
  <2>4. Dividing(Loop(tmp, x, N), tmp, x, n, len, V, e, N)
    BY ONLY <1>8, <2>2, <2>3, n \in Nat \ {0}, len \in Nat, V \in Nat \ {0}, e \in 0 .. 1, N \in Nat,
            LoopDivides
  <2> QED
    BY <1>9, <2>4
<1>11. PICK m \in Nat, E \in Nat, j \in Nat, l \in Nat \ {0}, z \in Nat, t \in Nat :
         /\ m = N - e + n /\ z = Lb - n /\ t = f - fb /\ E = z + t /\ j = La - fa + f /\ l = n + E
  <2>1. N - e + n \in Nat /\ Lb - n \in Nat /\ f - fb \in Nat /\ La - fa + f \in Nat
    BY <1>3
  <2> QED
    BY <2>1
<1>12. j = m + E /\ j <= len
  BY ONLY <1>7, <1>11, N = La - Lb - fa + fb + e, f <= fa + fb, La \in Nat, Lb \in Nat,
          fa \in Nat, fb \in Nat, e \in 0 .. 1, n \in Nat, len \in Nat, f \in Nat, N \in Nat
<1>13. PICK S \in Nat \ {0} : S = V * Power(DIG_BASE, E) /\ S = Scaled(b, f)
  <2>1. PICK Bz \in Nat \ {0}, Bt \in Nat \ {0} : Bz = Power(DIG_BASE, z) /\ Bt = Power(DIG_BASE, t)
    BY <1>0, PowerPositive
  <2>2. Power(DIG_BASE, z + t) = Bz * Bt
    BY <1>0, <2>1, PowerSum
  <2>3. PICK c \in Nat \ {0} : c = Power(DIG_BASE, E)
    BY <1>0, PowerPositive
  <2>4. PICK S \in Nat \ {0} : S = V * c
    OBVIOUS
  <2>5. Scaled(b, f) = (V * Bz) * Bt
    BY <1>1, <1>3, <1>11, <2>1 DEF Scaled
  <2>6. V * (Bz * Bt) = (V * Bz) * Bt
    OBVIOUS
  <2> QED
    BY <1>11, <2>2, <2>3, <2>4, <2>5, <2>6
<1>14. PICK Q \in Nat, rho \in Nat :
         rho = Positional(Rest(s, l), l) /\ Positional(tmp, j) = Q * S + rho /\ rho < S
  <2>1. RestDivides(tmp, s, j, l, S)
    BY ONLY <1>7, <1>10, <1>11, <1>12, <1>13, n \in Nat \ {0}, len \in Nat, V \in Nat \ {0},
            e \in 0 .. 1, N \in Nat, m \in Nat, E \in Nat, j \in Nat, l \in Nat, S \in Nat, RestOf
  <2> QED
    BY <2>1 DEF RestDivides
<1>15. PICK A \in Nat : A = Scaled(a, f) /\ A = Q * S + rho
  <2>1. Positional(tmp, j) = Scaled(a, f)
    <3>1. a \in Decimals /\ IsSignificant(a, v, La, ua, ka) /\ fa = ROUND_UP(a.frac)
          /\ j = La - fa + f /\ j <= len
      BY <1>1, <1>11, <1>12
    <3>2. AllWords(tmp, j, a, f)
      BY ONLY <1>6, <3>1, La \in Nat, fa \in Nat, f \in Nat, fa <= f, len \in Nat, j \in Nat,
              WholeDividend
    <3> QED
      BY <3>2 DEF AllWords
  <2>2. Scaled(a, f) \in Nat
    BY <1>1, ScaledTypes
  <2> QED
    BY <1>14, <2>1, <2>2
<1>16. rho = A % S
  <2>1. A = S * Q + rho /\ rho \in 0 .. S - 1
    BY <1>14, <1>15
  <2>2. A \in Int /\ Q \in Int
    OBVIOUS
  <2>3. A \div S = Q /\ A % S = rho
    BY ONLY <2>1, <2>2, S \in Nat \ {0}, DivisionIs
  <2> QED
    BY <2>3
<1>17. /\ IsState(s) /\ IsLine(s.rem, len) /\ s.start1 = 2 - e + N /\ s.dcarry \in 0 .. DIG_MAX
       /\ (e = 1 /\ N = 0 => s.dcarry = 0)
  BY <1>10 DEF Dividing
<1>18. PICK k \in Nat \ {0} : k = s.start1 /\ (k = 1 => s.dcarry = 0) /\ l = j - k + 2
  <2>1. PICK k : k = s.start1
    OBVIOUS
  <2>2. k \in Nat \ {0} /\ (k = 1 => s.dcarry = 0) /\ n + E = j - k + 2
    BY ONLY <1>11, <1>12, <1>17, <2>1, e \in 0 .. 1, N \in Nat, n \in Nat \ {0}, E \in Nat, RestStart
  <2> QED
    BY <1>11, <2>1, <2>2
<1>19. PICK start \in Nat \ {0}, c \in Nat : LeftFrom(s, start) /\ LeavesOf(a, b, s, start, c, len, j, rho)
  BY ONLY <1>12, <1>14, <1>17, <1>18, len \in Nat, j \in Nat, k \in Nat \ {0}, l \in Nat \ {0}, LeftIs
<1>20. PICK rem : LeftBy(a, b, s) = Remainder(a, b, rem, start) /\ Left(rem, start, c, len, j, rho)
  BY <1>19 DEF LeavesOf
<1>21. Modulus(a, b) = LeftBy(a, b, s)
  <2>1. Max({0, N}) = N
    <3>1. Max({0, N}) = IF 0 >= N THEN 0 ELSE N
      BY MaxOfTwo
    <3> QED
      BY <3>1
  <2>2. Modulus(a, b) = LeftBy(a, b, Loop(Dividend(a, b, 0), Divisor(b), Max({0, ROUND_UP(IntgDigits(a, b))})))
    BY Zenon DEF Modulus
  <2> QED
    BY <1>1, <1>4, <1>5, <1>9, <2>1, <2>2
<1>22. La - fa - start + 1 <= Lb - fb
  <2>1. start >= 1 - e + N
    BY <1>17, <1>19 DEF LeftFrom
  <2> QED
    BY ONLY <2>1, N = La - Lb - fa + fb + e, N \in Nat, La \in Nat, Lb \in Nat, fa \in Nat, fb \in Nat,
            e \in 0 .. 1, start \in Nat
<1>23. LeavesRest(rem, start, c, len, a, b, La, fa, Lb, fb, f)
  BY <1>11, <1>13, <1>15, <1>16, <1>20, <1>21, <1>22 DEF LeavesRest
<1> QED
  BY <1>23 DEF ModulusLeaves

(* Without a turn of the loop, all of the dividend is left.                *)
LEMMA StartLeaves ==
    ASSUME NEW a, NEW b, NEW tmp, NEW x, NEW len, IsLine(tmp, len), tmp[1] # 0
    PROVE  LeftBy(a, b, StartOf(tmp, x)) = Remainder(a, b, tmp, 1)
<1>1. PICK s : s = StartOf(tmp, x)
  OBVIOUS
<1>2. CASE tmp[1] < x[1]
  <2>1. s = [rem |-> tmp, start1 |-> 2, dcarry |-> tmp[1], words |-> <<>>]
    BY <1>1, <1>2, Zenon DEF StartOf
  <2>2. s.rem = tmp /\ s.start1 = 2 /\ s.dcarry = tmp[1] /\ s.start1 - 1 = 1
    BY <2>1
  <2>3. LeftBy(a, b, s) = Remainder(a, b, [s.rem EXCEPT ![s.start1 - 1] = s.dcarry], s.start1 - 1)
    BY <2>2, Zenon DEF LeftBy
  <2>4. [tmp EXCEPT ![1] = tmp[1]] = tmp
    BY DEF IsLine
  <2>5. [s.rem EXCEPT ![s.start1 - 1] = s.dcarry] = tmp
    BY <2>2, <2>4
  <2>6. LeftBy(a, b, s) = Remainder(a, b, tmp, 1)
    BY <2>2, <2>3, <2>5, Zenon
  <2> QED
    BY <1>1, <2>6, Zenon
<1>3. CASE ~(tmp[1] < x[1])
  <2>1. s = [rem |-> tmp, start1 |-> 1, dcarry |-> 0, words |-> <<>>]
    BY <1>1, <1>3, Zenon DEF StartOf
  <2>2. s.rem = tmp /\ s.start1 = 1 /\ s.dcarry = 0
    BY <2>1
  <2>3. LeftBy(a, b, s) = Remainder(a, b, s.rem, s.start1)
    BY <2>2, Zenon DEF LeftBy
  <2> QED
    BY <1>1, <2>2, <2>3, Zenon
<1> QED
  BY <1>2, <1>3

LEMMA ModulusShort ==
    ASSUME NEW a, NEW b, NEW v, NEW w, NEW x, NEW La \in Nat \ {0}, NEW ua \in Nat \ {0},
           NEW ka \in 1 .. DIG_PER_DEC1, NEW Lb \in Nat \ {0}, NEW ub \in Nat \ {0},
           NEW kb \in 1 .. DIG_PER_DEC1, NEW e \in 0 .. 1, NEW fa \in Nat, NEW fb \in Nat,
           NEW n \in Nat \ {0}, NEW V \in Nat \ {0},
           Operands(a, b, v, w, x, La, ua, ka, Lb, ub, kb, e, fa, fb, n, V),
           NEW f \in Nat, fa <= f, fb <= f, f <= fa + fb,
           NEW I \in Int, I = ROUND_UP(IntgDigits(a, b)), I = La - Lb - fa + fb + e, I < 0
    PROVE  ModulusLeaves(a, b, La, fa, Lb, fb, f)
<1>0. DIG_BASE \in Nat \ {0} /\ DIG_BASE \in Int /\ DIG_MAX \in Nat
  BY Base
<1>1. /\ a \in Decimals /\ IsSignificant(a, v, La, ua, ka) /\ fa = ROUND_UP(a.frac)
      /\ b \in Decimals /\ fb = ROUND_UP(b.frac) /\ x = Divisor(b)
  BY DEF Operands
<1>2. AreWords(v, La) /\ v[1] = ua
  BY <1>1 DEF IsSignificant
<1>3. PICK incr \in Nat : incr = 0 /\ ROUND_UP(incr) \in Nat
  <2>1. 0 \in Nat /\ 0 \in Int /\ 0 >= 0
    OBVIOUS
  <2>2. ROUND_UP(0) \in Nat
    BY <2>1, RoundUp
  <2> QED
    BY <2>1, <2>2
<1>4. PICK tmp : tmp = Dividend(a, b, incr)
  OBVIOUS
<1>5. PICK len \in Nat : IsDividend(tmp, v, La, len, fb, incr)
  <2>1. \E len \in Nat : IsDividend(Dividend(a, b, incr), v, La, len, fb, incr)
    BY ONLY <1>1, La \in Nat \ {0}, ka \in 1 .. DIG_PER_DEC1, fb \in Nat, incr \in Nat, DividendIs
  <2> QED
    BY <1>4, <2>1
<1>6. len >= La + 2 * fb + 1 /\ len >= 3 /\ IsLine(tmp, len)
      /\ \A k \in 1 .. len : tmp[k] = IF k <= La THEN v[k] ELSE 0
  BY <1>3, <1>5 DEF IsDividend
<1>7. tmp[1] # 0
  <2>1. 1 \in 1 .. len /\ 1 <= La
    BY <1>6
  <2> QED
    BY <1>2, <1>6, <2>1
<1>8. Modulus(a, b) = Remainder(a, b, tmp, 1)
  <2>1. Max({0, I}) = 0
    <3>1. Max({0, I}) = IF 0 >= I THEN 0 ELSE I
      BY MaxOfTwo
    <3> QED
      BY <3>1
  <2>2. Modulus(a, b) = LeftBy(a, b, Loop(Dividend(a, b, 0), Divisor(b), Max({0, ROUND_UP(IntgDigits(a, b))})))
    BY Zenon DEF Modulus
  <2>3. Modulus(a, b) = LeftBy(a, b, Loop(tmp, x, 0))
    BY <1>1, <1>3, <1>4, <2>1, <2>2
  <2>4. Loop(tmp, x, 0) = StartOf(tmp, x)
    BY NoTurns
  <2>5. LeftBy(a, b, StartOf(tmp, x)) = Remainder(a, b, tmp, 1)
    BY <1>6, <1>7, StartLeaves
  <2> QED
    BY <2>3, <2>4, <2>5
<1>9. PICK A \in Nat, S \in Nat : A = Scaled(a, f) /\ S = Scaled(b, f)
  BY <1>1, ScaledTypes
<1>10. A < S
  <2>1. PICK F \in Nat, N \in Nat : F = 0 /\ N = 0 /\ I + F <= 0 /\ F <= fa + fb + ROUND_UP(incr)
    BY <1>3
  <2>2. Quoted(Loop(Dividend(a, b, incr), x, N), N, Scaled(a, f) * Power(DIG_BASE, F), Scaled(b, f))
    <3>1. N = I + F \/ (N = 0 /\ I + F <= 0)
      BY <2>1
    <3>2. Turning(La, Lb, fa, fb, e, f, incr, I, F, N)
      BY <2>1, <3>1 DEF Turning
    <3>3. QuotedWith(a, b, x, f, incr, F, N)
      BY ONLY <3>2, Operands(a, b, v, w, x, La, ua, ka, Lb, ub, kb, e, fa, fb, n, V),
              La \in Nat \ {0}, ua \in Nat \ {0}, ka \in 1 .. DIG_PER_DEC1,
              Lb \in Nat \ {0}, ub \in Nat \ {0}, kb \in 1 .. DIG_PER_DEC1, e \in 0 .. 1,
              fa \in Nat, fb \in Nat, n \in Nat \ {0}, V \in Nat \ {0}, incr \in Nat, F \in Nat,
              I \in Int, N \in Nat, f \in Nat, Quoting
    <3> QED
      BY <3>3, Zenon DEF QuotedWith
  <2>3. PICK l : l = Loop(Dividend(a, b, incr), x, N)
    OBVIOUS
  <2>4. PICK Q \in Nat : QuotedBy(l, N, Q, Scaled(a, f) * Power(DIG_BASE, F), Scaled(b, f))
    BY <2>2, <2>3 DEF Quoted
  <2>5. PICK y : y = l.words
    OBVIOUS
  <2>6. Q = 0
    <3>1. \A k \in 1 .. N : y[k] = 0
      BY <2>1
    <3>2. Positional(y, N) = 0
      BY <3>1, PositionalZeros
    <3> QED
      BY <2>4, <2>5, <3>2 DEF QuotedBy
  <2>7. Power(DIG_BASE, F) = 1
    BY <1>0, <2>1, Powers
  <2>8. A * 1 < (0 + 1) * S
    BY <1>9, <2>4, <2>6, <2>7 DEF QuotedBy
  <2> QED
    BY <2>8
<1>11. A % S = A
  <2>1. A = S * 0 + A /\ A \in 0 .. S - 1 /\ S \in Nat \ {0} /\ 0 \in Int /\ A \in Int
    BY <1>10
  <2>2. A \div S = 0 /\ A % S = A
    BY ONLY <2>1, DivisionIs
  <2> QED
    BY <2>2
<1>12. PICK j \in Nat : j = La - fa + f
  OBVIOUS
<1>13. j <= len
  BY <1>6, <1>12
<1>14. A = Positional(tmp, j)
  <2>1. a \in Decimals /\ IsSignificant(a, v, La, ua, ka) /\ fa = ROUND_UP(a.frac)
    BY <1>1
  <2>2. AllWords(tmp, j, a, f)
    BY ONLY <1>5, <1>12, <1>13, <2>1, La \in Nat, fa \in Nat, f \in Nat, fa <= f, len \in Nat, j \in Nat,
            WholeDividend
  <2> QED
    BY <1>9, <2>2 DEF AllWords
<1>15. Positional(Span(tmp, 1, j), j) = Positional(tmp, j)
  <2>1. PICK y : y = Span(tmp, 1, j)
    OBVIOUS
  <2>2. \A k \in 1 .. j : y[k] = tmp[k]
    <3>1. \A k \in 1 .. j : y[k] = tmp[1 + k - 1]
      BY <2>1 DEF Span
    <3>2. \A k \in 1 .. j : 1 + k - 1 = k
      OBVIOUS
    <3> QED
      BY <3>1, <3>2
  <2>3. \A k \in 1 .. j : tmp[k] \in Int
    <3>1. \A k \in 1 .. j : k \in 1 .. len
      BY <1>13
    <3>2. \A k \in 1 .. len : tmp[k] \in 0 .. DIG_MAX
      BY <1>6 DEF IsLine
    <3>3. \A k \in 1 .. len : tmp[k] \in Int
      BY ONLY <1>0, <3>2
    <3> QED
      BY ONLY <3>1, <3>3
  <2>4. Positional(y, j) = Positional(tmp, j)
    BY ONLY <2>2, <2>3, j \in Nat, PositionalSame
  <2> QED
    BY <2>1, <2>4
<1>16. Left(tmp, 1, j, len, j, A)
  BY <1>6, <1>13, <1>14, <1>15 DEF Left
<1>17. La - fa - 1 + 1 <= Lb - fb
  OBVIOUS
<1>18. LeavesRest(tmp, 1, j, len, a, b, La, fa, Lb, fb, f)
  BY <1>8, <1>9, <1>11, <1>12, <1>16, <1>17 DEF LeavesRest
<1> QED
  BY <1>18 DEF ModulusLeaves

(* The first word of a number of few digits.                               *)
LEMMA FirstWordFits ==
    ASSUME NEW i \in Nat, NEW I \in Nat, I = ROUND_UP(i), i % DIG_PER_DEC1 # 0, NEW f \in Nat,
           NEW p, AreWords(p, I + f), NEW M, M = Positional(p, I + f),
           M < Power(Radix, i) * Power(DIG_BASE, f)
    PROVE  p[1] < Power(Radix, i % DIG_PER_DEC1)
<1>0. /\ Radix \in Nat \ {0} /\ Radix \in Int /\ DIG_BASE \in Nat \ {0} /\ DIG_BASE \in Int
      /\ DIG_BASE = Power(Radix, DIG_PER_DEC1) /\ DIG_PER_DEC1 \in Nat
  BY Base, WordAssumption DEF DIG_BASE
<1>1. PICK r \in Nat : r = i % DIG_PER_DEC1 /\ i = (I - 1) * DIG_PER_DEC1 + r /\ I >= 1
  <2>1. I \in Int
    OBVIOUS
  <2> QED
    BY <2>1, LastWordDigits
<1>2. PICK h \in Nat, l \in Nat, hD \in Nat :
        h = I - 1 /\ l = h + f /\ I + f = l + 1 /\ hD = DIG_PER_DEC1 * h /\ i = hD + r
  <2>1. I - 1 \in Nat /\ (I - 1) + f \in Nat /\ I + f = ((I - 1) + f) + 1
    BY <1>1
  <2>2. PICK h \in Nat : h = I - 1
    BY <2>1
  <2>3. PICK hD \in Nat : hD = DIG_PER_DEC1 * h /\ hD = h * DIG_PER_DEC1
    BY <1>0
  <2> QED
    BY <1>1, <2>1, <2>2, <2>3
<1>3. PICK Bh \in Nat \ {0}, Bf \in Nat \ {0}, Rr \in Nat \ {0}, Bl \in Nat \ {0} :
        /\ Bh = Power(DIG_BASE, h) /\ Bf = Power(DIG_BASE, f) /\ Rr = Power(Radix, r)
        /\ Bl = Power(DIG_BASE, l)
  BY <1>0, PowerPositive
<1>4. Bl = Bh * Bf
  <2>1. Power(DIG_BASE, h + f) = Power(DIG_BASE, h) * Power(DIG_BASE, f)
    BY <1>0, PowerSum
  <2> QED
    BY <1>2, <1>3, <2>1
<1>5. Power(Radix, i) = Bh * Rr
  <2>1. Power(Radix, hD + r) = Power(Radix, hD) * Power(Radix, r)
    BY <1>0, PowerSum
  <2>2. Power(Power(Radix, DIG_PER_DEC1), h) = Power(Radix, DIG_PER_DEC1 * h)
    BY <1>0, PowerPower
  <2> QED
    BY <1>0, <1>2, <1>3, <2>1, <2>2
<1>6. PICK u \in Nat : u = p[1]
  <2>1. 1 \in 1 .. I + f
    BY <1>1
  <2> QED
    BY <2>1, Base DEF AreWords
<1>7. M \in Nat /\ u * Bl <= M
  <2>1. AreWords(p, l + 1) /\ M = Positional(p, l + 1)
    BY <1>2
  <2> QED
    BY <1>3, <1>6, <2>1, FirstWordBounds
<1>8. u * Bl < Rr * Bl
  <2>1. (Bh * Rr) * Bf = Rr * (Bh * Bf)
    OBVIOUS
  <2>2. M < Rr * Bl
    BY <1>3, <1>4, <1>5, <2>1
  <2>3. u * Bl \in Int /\ Rr * Bl \in Int
    OBVIOUS
  <2> QED
    BY <1>7, <2>2, <2>3
<1>9. u < Rr
  BY <1>8, MulOrder
<1> QED
  BY <1>1, <1>3, <1>6, <1>9

(* A number of so many digits, before the point and after it.              *)
NumberMade(d, i, frac, f, M) ==
    /\ d \in Decimals /\ d.intg = i /\ d.frac = frac
    /\ ROUND_UP(d.frac) = f /\ Mantissa(d) = M

LEMMA NumberDecimal ==
    ASSUME NEW sign \in BOOLEAN, NEW i \in Nat, NEW I \in Nat, I = ROUND_UP(i),
           NEW frac \in Nat, NEW f \in Nat, f = ROUND_UP(frac), NEW p \in Seq(0 .. DIG_MAX), Len(p) = I + f,
           NEW M, M = Positional(p, I + f), M < Power(Radix, i) * Power(DIG_BASE, f),
           NEW t \in Nat, t = f * DIG_PER_DEC1 - frac, Multiple(M, Power(Radix, t)),
           NEW d, d = [sign |-> sign, intg |-> i, frac |-> frac, buf |-> p]
    PROVE  NumberMade(d, i, frac, f, M)
<1>1. d.sign = sign /\ d.intg = i /\ d.frac = frac /\ d.buf = p
  OBVIOUS
<1>2. PICK n \in Nat, w \in Seq(0 .. DIG_MAX) : w = p /\ n = I + f /\ Len(w) = n
  OBVIOUS
<1>3. AreWords(w, n)
  BY <1>2, SeqWords
<1>4. DOMAIN p = 1 .. n /\ \A k \in DOMAIN p : p[k] \in 0 .. DIG_MAX
  <2>1. p \in [1 .. Len(p) -> 0 .. DIG_MAX]
    BY LenProperties
  <2> QED
    BY <1>2, <2>1
<1>5. i % DIG_PER_DEC1 # 0 => p[1] < Power(Radix, i % DIG_PER_DEC1)
  <2>1. AreWords(w, I + f) /\ M = Positional(w, I + f)
    BY <1>2, <1>3
  <2>2. i % DIG_PER_DEC1 # 0 => w[1] < Power(Radix, i % DIG_PER_DEC1)
    BY ONLY <2>1, i \in Nat, I \in Nat, I = ROUND_UP(i), f \in Nat,
            M < Power(Radix, i) * Power(DIG_BASE, f), FirstWordFits
  <2> QED
    BY <1>2, <2>2
<1>6. frac % DIG_PER_DEC1 # 0 =>
        Last(p) % Power(Radix, DIG_PER_DEC1 - (frac % DIG_PER_DEC1)) = 0
  <2>1. AreWords(w, I + f) /\ Multiple(Positional(w, I + f), Power(Radix, t)) /\ f <= f
    BY <1>2, <1>3
  <2>2. ZeroEnd(w, I, f, f, frac)
    BY ONLY <2>1, I \in Nat, f \in Nat, frac \in Nat, f = ROUND_UP(frac), t \in Nat,
            t = f * DIG_PER_DEC1 - frac, LastZeros
  <2>3. Last(p) = w[I + f]
    BY <1>2 DEF Last
  <2> QED
    BY <2>2, <2>3 DEF ZeroEnd
<1>7. WordsOK(d)
  <2>1. Len(d.buf) = ROUND_UP(d.intg) + ROUND_UP(d.frac)
    BY <1>1
  <2>2. \A k \in DOMAIN d.buf : d.buf[k] \in 0 .. DIG_MAX
    BY <1>1, <1>4
  <2> QED
    BY <1>1, <1>5, <1>6, <2>1, <2>2, Zenon DEF WordsOK
<1>8. d \in [sign : BOOLEAN, intg : Nat, frac : Nat, buf : Seq(0 .. DIG_MAX)]
  OBVIOUS
<1>9. Mantissa(d) = M
  BY <1>1 DEF Mantissa
<1> QED
  BY <1>1, <1>7, <1>8, <1>9 DEF NumberMade, Decimals

(* A number of some words of rem, after zeros.                             *)
LEMMA LineWords ==
    ASSUME NEW rem, NEW len \in Nat, IsLine(rem, len), NEW start \in Nat \ {0}, NEW n \in Nat,
           start + n <= len + 1, NEW m \in Int, m = start + n - 1
    PROVE  /\ SubSeq(rem, start, m) \in Seq(0 .. DIG_MAX)
           /\ Len(SubSeq(rem, start, m)) = n
           /\ Positional(SubSeq(rem, start, m), n) = Positional(Span(rem, start, n), n)
<1>0. DIG_MAX \in Nat
  BY Base
<1>1. rem \in Seq(0 .. DIG_MAX) /\ Len(rem) = len
  BY FunctionSeq DEF IsLine
<1>2. PICK z \in Nat : z = start - 1 /\ start = z + 1 /\ m = z + n /\ m \in Nat /\ m <= len
  <2>1. start - 1 \in Nat /\ start = (start - 1) + 1 /\ m = (start - 1) + n /\ (start - 1) + n \in Nat
        /\ (start - 1) + n <= len
    OBVIOUS
  <2> QED
    BY <2>1
<1>3. PICK y : y = SubSeq(rem, start, m)
  OBVIOUS
<1>4. IsSub(y, rem, z, n, 0 .. DIG_MAX)
  <2>1. m <= Len(rem)
    BY <1>1, <1>2
  <2>2. IsSub(SubSeq(rem, z + 1, m), rem, z, n, 0 .. DIG_MAX)
    BY <1>1, <1>2, <2>1, Subs
  <2> QED
    BY <1>2, <1>3, <2>2
<1>5. y \in Seq(0 .. DIG_MAX) /\ Len(y) = n /\ \A k \in 1 .. n : y[k] = rem[z + k]
  BY <1>4 DEF IsSub
<1>6. PICK v : v = Span(rem, start, n)
  OBVIOUS
<1>7. \A k \in 1 .. n : v[k] = rem[z + k]
  <2>1. \A k \in 1 .. n : v[k] = rem[start + k - 1]
    BY <1>6 DEF Span
  <2>2. \A k \in 1 .. n : start + k - 1 = z + k
    BY <1>2
  <2> QED
    BY <2>1, <2>2
<1>8. \A k \in 1 .. n : rem[z + k] \in Int
  <2>1. \A k \in 1 .. n : z + k \in 1 .. len
    BY <1>2
  <2>2. \A k \in 1 .. len : rem[k] \in 0 .. DIG_MAX
    BY DEF IsLine
  <2>3. \A k \in 1 .. len : rem[k] \in Int
    BY ONLY <1>0, <2>2
  <2> QED
    BY ONLY <2>1, <2>3
<1>9. PICK x : x = y
  OBVIOUS
<1>10. Positional(x, n) = Positional(v, n)
  <2>1. \A k \in 1 .. n : v[k] \in Int /\ x[k] = v[k]
    BY ONLY <1>5, <1>7, <1>8, <1>9
  <2> QED
    BY ONLY <2>1, n \in Nat, PositionalSame
<1> QED
  BY <1>3, <1>5, <1>6, <1>9, <1>10

LEMMA LineDecimal ==
    ASSUME NEW rem, NEW len \in Nat, IsLine(rem, len), NEW start \in Nat \ {0}, NEW n \in Nat,
           start + n <= len + 1, NEW m \in Int, m = start + n - 1, NEW z \in Nat,
           NEW sign \in BOOLEAN, NEW i \in Nat, NEW I \in Nat, I = ROUND_UP(i),
           NEW frac \in Nat, NEW f \in Nat, f = ROUND_UP(frac), z + n = I + f,
           NEW M, M = Positional(Span(rem, start, n), n), M < Power(Radix, i) * Power(DIG_BASE, f),
           NEW t \in Nat, t = f * DIG_PER_DEC1 - frac, Multiple(M, Power(Radix, t)),
           NEW d, d = [sign |-> sign, intg |-> i, frac |-> frac,
                       buf |-> [k \in 1 .. z |-> 0] \o SubSeq(rem, start, m)]
    PROVE  NumberMade(d, i, frac, f, M)
<1>1. PICK s \in Seq(0 .. DIG_MAX) : s = SubSeq(rem, start, m) /\ Len(s) = n /\ Positional(s, n) = M
  <2>1. /\ SubSeq(rem, start, m) \in Seq(0 .. DIG_MAX)
        /\ Len(SubSeq(rem, start, m)) = n
        /\ Positional(SubSeq(rem, start, m), n) = Positional(Span(rem, start, n), n)
    BY ONLY len \in Nat, IsLine(rem, len), start \in Nat \ {0}, n \in Nat,
            start + n <= len + 1, m \in Int, m = start + n - 1, LineWords
  <2> QED
    BY <2>1, Zenon
<1>2. AreZerosBefore([k \in 1 .. z |-> 0] \o s, z, s, n)
  BY <1>1, ZerosBefore
<1>3. PICK p : p = [k \in 1 .. z |-> 0] \o s
  OBVIOUS
<1>4. p \in Seq(0 .. DIG_MAX) /\ Len(p) = z + n /\ Positional(p, z + n) = Positional(s, n)
  BY <1>2, <1>3 DEF AreZerosBefore
<1>5. Len(p) = I + f /\ M = Positional(p, I + f)
  BY <1>1, <1>4
<1>6. d = [sign |-> sign, intg |-> i, frac |-> frac, buf |-> p]
  BY <1>1, <1>3
<1>7. NumberMade(d, i, frac, f, M)
  BY ONLY <1>4, <1>5, <1>6, sign \in BOOLEAN, i \in Nat, I \in Nat, I = ROUND_UP(i),
          frac \in Nat, f \in Nat, f = ROUND_UP(frac), M < Power(Radix, i) * Power(DIG_BASE, f),
          t \in Nat, t = f * DIG_PER_DEC1 - frac, Multiple(M, Power(Radix, t)), NumberDecimal
<1> QED
  BY <1>7

(* The remainder, with names for what it is made from.                     *)
RBuf(rem, start, g, kept) ==
    [k \in 1 .. Max({0, -g}) |-> 0] \o SubSeq(rem, start, start + Max({0, g}) + kept - 1)

Remaining(a, b, rem, start, g, frac, f, have, kept) ==
    CASE f = 0 /\ g = 0 -> [to |-> Zero, error |-> E_DEC_OK]
      [] -g >= DECIMAL_BUFF_LENGTH -> [to |-> Zero, error |-> E_DEC_TRUNCATED]
      [] g > DECIMAL_BUFF_LENGTH -> [to |-> Zero, error |-> E_DEC_OVERFLOW]
      [] OTHER ->
           [to |-> [sign |-> a.sign,
                    intg |-> IF g <= 0 THEN 0 ELSE Min({g * DIG_PER_DEC1, b.intg}),
                    frac |-> IF kept < have THEN kept * DIG_PER_DEC1 ELSE frac,
                    buf  |-> RBuf(rem, start, g, kept)],
            error |-> IF kept < have THEN E_DEC_TRUNCATED ELSE E_DEC_OK]

RHave(f, g) == IF g <= 0 THEN f + g ELSE f
RRoom(g) == IF g <= 0 THEN DECIMAL_BUFF_LENGTH - 1 ELSE DECIMAL_BUFF_LENGTH - g

LEMMA RemainderUnfolds ==
    ASSUME NEW a, NEW b, NEW rem, NEW start,
           NEW g, g = ROUND_UP(Prec(a) - FracDigits(a)) - (start - 1),
           NEW frac, frac = Max({a.frac, b.frac}), NEW f, f = ROUND_UP(frac),
           NEW have, have = RHave(f, g), NEW kept, kept = Min({have, RRoom(g)})
    PROVE  Remainder(a, b, rem, start) = Remaining(a, b, rem, start, g, frac, f, have, kept)
BY Zenon DEF Remainder, Remaining, RBuf, RHave, RRoom, Done

(* What is left: g words before the point and f after it, c altogether,    *)
(* which are rho, less than the divisor S.                                 *)
Leaving(a, b, rem, start, c, len, g, f, frac, rho, S) ==
    /\ a \in Decimals /\ b \in Decimals /\ Fits(a) /\ Fits(b)
    /\ frac = Max({a.frac, b.frac}) /\ f = ROUND_UP(frac)
    /\ ROUND_UP(b.frac) <= f /\ f <= DECIMAL_BUFF_LENGTH
    /\ g = ROUND_UP(Prec(a) - FracDigits(a)) - (start - 1)
    /\ c = g + f
    /\ IsLine(rem, len) /\ start + c <= len + 1
    /\ rho = Positional(Span(rem, start, c), c)
    /\ S = Scaled(b, f) /\ rho < S
    /\ g > 0 => g + f <= DECIMAL_BUFF_LENGTH
    /\ g <= ROUND_UP(b.intg)

(* What the remainder should be.                                           *)
RemainderMade(r, a, f, rho) ==
    /\ r.error \in {E_DEC_OK, E_DEC_TRUNCATED}
    /\ r.to \in Decimals /\ Fits(r.to) /\ ROUND_UP(r.to.frac) <= f
    /\ Scaled(r.to, f) # 0 => r.to.sign = a.sign
    /\ r.error = E_DEC_OK => Scaled(r.to, f) = rho
    /\ r.error = E_DEC_TRUNCATED =>
          f = DECIMAL_BUFF_LENGTH /\ Scaled(r.to, f) = rho - (rho % DIG_BASE)

LEMMA SpanWords ==
    ASSUME NEW rem, NEW len \in Nat, IsLine(rem, len), NEW start \in Nat \ {0}, NEW n \in Nat,
           start + n <= len + 1
    PROVE  AreWords(Span(rem, start, n), n)
<1>1. PICK y : y = Span(rem, start, n)
  OBVIOUS
<1>2. \A k \in 1 .. n : y[k] = rem[start + k - 1]
  BY <1>1 DEF Span
<1>3. \A k \in 1 .. n : start + k - 1 \in 1 .. len
  OBVIOUS
<1>4. \A k \in 1 .. len : rem[k] \in 0 .. DIG_MAX
  BY DEF IsLine
<1>5. AreWords(y, n)
  BY ONLY <1>2, <1>3, <1>4 DEF AreWords
<1> QED
  BY <1>1, <1>5

(* Nothing is left.                                                        *)
LEMMA NothingLeft ==
    ASSUME NEW a, NEW f \in Nat, NEW r, r.to = Zero,
           r.error = E_DEC_OK \/ (r.error = E_DEC_TRUNCATED /\ f = DECIMAL_BUFF_LENGTH)
    PROVE  RemainderMade(r, a, f, 0)
<1>0. DIG_BASE \in Nat \ {0} /\ DIG_PER_DEC1 \in Nat \ {0}
  BY Base, WordAssumption
<1>1. Zero \in Decimals /\ Fits(Zero)
  BY ZeroIs
<1>2. ROUND_UP(Zero.frac) = 0
  <2>1. 0 * DIG_PER_DEC1 = 0 /\ 0 \in Int
    BY <1>0
  <2>2. ROUND_UP(0 * DIG_PER_DEC1) = 0
    BY <2>1, RoundUpWords
  <2>3. Zero.frac = 0
    BY DEF Zero
  <2> QED
    BY <2>1, <2>2, <2>3
<1>3. Scaled(Zero, f) = 0
  <2>1. decimal_is_zero(Zero)
    BY DEF Zero, decimal_is_zero
  <2> QED
    BY <1>1, <1>2, <2>1, ScaledZero
<1>4. 0 - (0 % DIG_BASE) = 0
  <2>1. 0 = DIG_BASE * 0 + 0 /\ 0 \in 0 .. DIG_BASE - 1 /\ 0 \in Int
    BY <1>0
  <2>2. 0 \div DIG_BASE = 0 /\ 0 % DIG_BASE = 0
    BY ONLY <1>0, <2>1, DivisionIs
  <2> QED
    BY <2>2
<1>5. r.to \in Decimals /\ Fits(r.to) /\ ROUND_UP(r.to.frac) <= f /\ Scaled(r.to, f) = 0
  BY <1>1, <1>2, <1>3
<1>6. r.error \in {E_DEC_OK, E_DEC_TRUNCATED} /\ (r.error = E_DEC_TRUNCATED => f = DECIMAL_BUFF_LENGTH)
  BY DEF E_DEC_OK, E_DEC_TRUNCATED
<1> QED
  BY <1>4, <1>5, <1>6 DEF RemainderMade

(* A number that is all that is left.                                      *)
LEMMA AllLeft ==
    ASSUME NEW a, NEW f \in Nat, NEW r, r.error = E_DEC_OK, NEW i \in Nat, NEW frac, NEW rho \in Nat,
           NumberMade(r.to, i, frac, f, rho), ROUND_UP(i) + f <= DECIMAL_BUFF_LENGTH,
           r.to.sign = a.sign
    PROVE  RemainderMade(r, a, f, rho)
<1>1. r.to \in Decimals /\ r.to.intg = i /\ ROUND_UP(r.to.frac) = f /\ Mantissa(r.to) = rho
  BY DEF NumberMade
<1>2. Fits(r.to)
  BY <1>1 DEF Fits
<1>3. Scaled(r.to, f) = rho
  <2>1. f - f = 0 /\ DIG_BASE \in Int
    BY Base
  <2>2. Power(DIG_BASE, 0) = 1
    BY <2>1, Powers
  <2>3. Scaled(r.to, f) = rho * 1
    BY <1>1, <2>1, <2>2 DEF Scaled
  <2> QED
    BY <2>3
<1>4. r.error # E_DEC_TRUNCATED
  BY DEF E_DEC_OK, E_DEC_TRUNCATED
<1> QED
  BY <1>1, <1>2, <1>3, <1>4 DEF RemainderMade

(* The digits before the point: no more than those of the divisor.         *)
LEMMA WholeDigits ==
    ASSUME NEW b \in Decimals, NEW g \in Nat, g <= ROUND_UP(b.intg), NEW f \in Nat, ROUND_UP(b.frac) <= f,
           NEW rho \in Nat, rho < Power(DIG_BASE, g + f), rho < Scaled(b, f),
           NEW i, i = Min({g * DIG_PER_DEC1, b.intg})
    PROVE  i \in Nat /\ ROUND_UP(i) = g /\ rho < Power(Radix, i) * Power(DIG_BASE, f)
<1>0. /\ Radix \in Nat \ {0} /\ Radix \in Int /\ DIG_BASE \in Nat \ {0} /\ DIG_BASE \in Int
      /\ DIG_BASE = Power(Radix, DIG_PER_DEC1) /\ DIG_PER_DEC1 \in Nat
  BY Base, WordAssumption DEF DIG_BASE
<1>1. PICK n \in Nat, m \in Nat, j \in Nat : n = g * DIG_PER_DEC1 /\ m = b.intg /\ j = ROUND_UP(m)
  <2>1. g * DIG_PER_DEC1 \in Nat
    BY <1>0
  <2>2. b.intg \in Nat /\ ROUND_UP(b.intg) \in Nat
    BY DecimalTypes
  <2> QED
    BY <2>1, <2>2
<1>2. i = IF n <= m THEN n ELSE m
  <2>0. n \in Int /\ m \in Int
    OBVIOUS
  <2>1. Min({n, m}) = IF n <= m THEN n ELSE m
    BY <2>0, MaxOfTwo
  <2> QED
    BY <1>1, <2>1
<1>3. ROUND_UP(n) = g
  BY <1>1, RoundUpWords
<1>4. g <= j
  BY <1>1
<1>5. PICK Bf \in Nat \ {0} : Bf = Power(DIG_BASE, f)
  BY <1>0, PowerPositive
<1>6. CASE n <= m
  <2>1. i = n
    BY <1>2, <1>6
  <2>2. Power(DIG_BASE, g + f) = Power(DIG_BASE, g) * Power(DIG_BASE, f)
    BY <1>0, PowerSum
  <2>3. Power(DIG_BASE, g) = Power(Radix, i)
    <3>1. Power(Power(Radix, DIG_PER_DEC1), g) = Power(Radix, DIG_PER_DEC1 * g)
      BY <1>0, PowerPower
    <3>2. DIG_PER_DEC1 * g = g * DIG_PER_DEC1
      BY <1>0
    <3> QED
      BY <1>0, <1>1, <2>1, <3>1, <3>2
  <2> QED
    BY <1>3, <2>1, <2>2, <2>3
<1>7. CASE ~(n <= m)
  <2>1. i = m
    BY <1>2, <1>7
  <2>2. ROUND_UP(m) <= ROUND_UP(n)
    <3>1. m <= n /\ m \in Int /\ n \in Int
      BY <1>7
    <3> QED
      BY <3>1, RoundUpMonotonic
  <2>3. j = g
    BY <1>1, <1>3, <1>4, <2>2
  <2>4. PICK e \in Nat, h \in Nat : e = ROUND_UP(b.frac) /\ h = f - e /\ e + h = f
    <3>1. ROUND_UP(b.frac) \in Nat
      BY DecimalTypes
    <3> QED
      BY <3>1
  <2>5. PICK Be \in Nat \ {0}, Bh \in Nat \ {0}, Rm \in Nat \ {0}, M \in Nat :
          Be = Power(DIG_BASE, e) /\ Bh = Power(DIG_BASE, h) /\ Rm = Power(Radix, m) /\ M = Mantissa(b)
    <3>1. /\ Power(DIG_BASE, e) \in Nat \ {0} /\ Power(DIG_BASE, h) \in Nat \ {0}
          /\ Power(Radix, m) \in Nat \ {0}
      BY <1>0, PowerPositive
    <3>2. Mantissa(b) \in Nat
      BY ScaledTypes
    <3> QED
      BY <3>1, <3>2
  <2>6. Bf = Be * Bh
    <3>1. Power(DIG_BASE, e + h) = Power(DIG_BASE, e) * Power(DIG_BASE, h)
      BY <1>0, PowerSum
    <3> QED
      BY <1>5, <2>4, <2>5, <3>1
  <2>7. M < Rm * Be
    BY <1>1, <2>4, <2>5, MantissaBound
  <2>8. M * Bh < (Rm * Be) * Bh
    BY <2>7, MulOrder
  <2>9. (Rm * Be) * Bh = Rm * Bf
    <3>1. (Rm * Be) * Bh = Rm * (Be * Bh)
      OBVIOUS
    <3> QED
      BY <2>6, <3>1
  <2>10. Scaled(b, f) = M * Bh
    BY <2>4, <2>5 DEF Scaled
  <2>11. rho < Rm * Bf
    <3>1. PICK x \in Nat, y \in Nat : x = M * Bh /\ y = Rm * Bf
      OBVIOUS
    <3>2. rho < x /\ x < y
      BY <2>8, <2>9, <2>10, <3>1
    <3> QED
      BY <3>1, <3>2
  <2> QED
    BY <1>1, <1>5, <2>1, <2>3, <2>5, <2>11
<1> QED
  BY <1>6, <1>7

LEMMA RemainderWhole ==
    ASSUME NEW a, NEW b, NEW rem, NEW start \in Nat \ {0}, NEW c \in Nat, NEW len \in Nat,
           NEW g \in Int, NEW f \in Nat, NEW frac \in Nat, NEW rho \in Nat, NEW S \in Nat,
           Leaving(a, b, rem, start, c, len, g, f, frac, rho, S), g > 0,
           NEW t \in Nat, t = f * DIG_PER_DEC1 - frac, Multiple(rho, Power(Radix, t))
    PROVE  RemainderMade(Remainder(a, b, rem, start), a, f, rho)
<1>0. DECIMAL_BUFF_LENGTH \in Nat \ {0}
  BY WordAssumption
<1>1. /\ a \in Decimals /\ b \in Decimals
      /\ frac = Max({a.frac, b.frac}) /\ f = ROUND_UP(frac)
      /\ ROUND_UP(b.frac) <= f
      /\ g = ROUND_UP(Prec(a) - FracDigits(a)) - (start - 1)
      /\ c = g + f
      /\ IsLine(rem, len) /\ start + c <= len + 1
      /\ rho = Positional(Span(rem, start, c), c)
      /\ rho < Scaled(b, f)
      /\ g + f <= DECIMAL_BUFF_LENGTH
      /\ g <= ROUND_UP(b.intg)
  BY DEF Leaving
<1>2. Min({RHave(f, g), RRoom(g)}) = f /\ RHave(f, g) = f
  <2>1. PICK k \in Int : k = DECIMAL_BUFF_LENGTH - g
    BY <1>0
  <2>0. f \in Int
    OBVIOUS
  <2>2. Min({f, k}) = IF f <= k THEN f ELSE k
    BY <2>0, MaxOfTwo
  <2>3. RHave(f, g) = f /\ RRoom(g) = k
    BY <2>1 DEF RHave, RRoom
  <2>4. f <= k
    BY <1>0, <1>1, <2>1
  <2> QED
    BY <2>2, <2>3, <2>4
<1>3. PICK r : r = Remaining(a, b, rem, start, g, frac, f, f, f) /\ r = Remainder(a, b, rem, start)
  <2>1. PICK have, kept : have = RHave(f, g) /\ kept = Min({have, RRoom(g)})
    OBVIOUS
  <2>2. Remainder(a, b, rem, start) = Remaining(a, b, rem, start, g, frac, f, have, kept)
    BY ONLY <1>1, <2>1, RemainderUnfolds
  <2> QED
    BY <1>2, <2>1, <2>2
<1>4. PICK i : i = Min({g * DIG_PER_DEC1, b.intg})
  OBVIOUS
<1>5. i \in Nat /\ ROUND_UP(i) = g /\ rho < Power(Radix, i) * Power(DIG_BASE, f)
  <2>1. AreWords(Span(rem, start, c), c)
    BY <1>1, SpanWords
  <2>2. rho < Power(DIG_BASE, g + f)
    BY <1>1, <2>1, PositionalRange
  <2>3. g \in Nat
    OBVIOUS
  <2> QED
    BY ONLY <1>1, <1>4, <2>2, <2>3, f \in Nat, rho \in Nat, WholeDigits
<1>6. PICK m \in Int, z \in Nat : m = start + c - 1 /\ z = 0
  OBVIOUS
<1>7. RBuf(rem, start, g, f) = [k \in 1 .. z |-> 0] \o SubSeq(rem, start, m)
  <2>1. Max({0, g}) = g /\ Max({0, -g}) = 0
    <3>1. PICK h \in Int : h = -g
      OBVIOUS
    <3>2. (Max({0, h}) = IF 0 >= h THEN 0 ELSE h) /\ (Max({0, g}) = IF 0 >= g THEN 0 ELSE g)
      BY MaxOfTwo
    <3> QED
      BY <3>1, <3>2
  <2>2. start + g + f - 1 = m
    BY <1>1, <1>6
  <2> QED
    BY <1>6, <2>1, <2>2 DEF RBuf
<1>8. PICK d : d = [sign |-> a.sign, intg |-> i, frac |-> frac,
                    buf |-> [k \in 1 .. z |-> 0] \o SubSeq(rem, start, m)]
  OBVIOUS
<1>9. r = [to |-> d, error |-> E_DEC_OK]
  <2>1. ~(f = 0 /\ g = 0) /\ ~(-g >= DECIMAL_BUFF_LENGTH) /\ ~(g > DECIMAL_BUFF_LENGTH) /\ ~(g <= 0)
        /\ ~(f < f)
    BY <1>0, <1>1
  <2> QED
    BY <1>3, <1>4, <1>7, <1>8, <2>1, Zenon DEF Remaining
<1>10. a.sign \in BOOLEAN
  BY <1>1, DecimalTypes
<1>11. NumberMade(d, i, frac, f, rho)
  <2>1. z + c = g + f /\ z \in Nat /\ g \in Nat /\ m \in Int /\ m = start + c - 1
    BY <1>1, <1>6
  <2>2. g = ROUND_UP(i) /\ i \in Nat /\ rho < Power(Radix, i) * Power(DIG_BASE, f)
    BY <1>5
  <2>3. IsLine(rem, len) /\ start + c <= len + 1 /\ f = ROUND_UP(frac)
        /\ rho = Positional(Span(rem, start, c), c)
    BY <1>1
  <2> QED
    BY ONLY <1>8, <1>10, <2>1, <2>2, <2>3, len \in Nat, start \in Nat \ {0}, c \in Nat,
            frac \in Nat, f \in Nat, t \in Nat, t = f * DIG_PER_DEC1 - frac,
            Multiple(rho, Power(Radix, t)), LineDecimal, ZenonT(60)
<1>12. r.to = d /\ r.error = E_DEC_OK /\ d.sign = a.sign
  BY <1>8, <1>9
<1> QED
  BY <1>1, <1>3, <1>5, <1>11, <1>12, AllLeft

(* A remainder less than one.                                              *)
LEMMA RemainderFraction ==
    ASSUME NEW a, NEW b, NEW rem, NEW start \in Nat \ {0}, NEW c \in Nat, NEW len \in Nat,
           NEW g \in Int, NEW f \in Nat, NEW frac \in Nat, NEW rho \in Nat, NEW S \in Nat,
           Leaving(a, b, rem, start, c, len, g, f, frac, rho, S), g <= 0,
           ~(f = 0 /\ g = 0), ~(-g >= DECIMAL_BUFF_LENGTH), c < DECIMAL_BUFF_LENGTH,
           NEW t \in Nat, t = f * DIG_PER_DEC1 - frac, Multiple(rho, Power(Radix, t))
    PROVE  RemainderMade(Remainder(a, b, rem, start), a, f, rho)
<1>0. DECIMAL_BUFF_LENGTH \in Nat \ {0} /\ DIG_BASE \in Nat \ {0} /\ DIG_BASE \in Int /\ Radix \in Int
      /\ DIG_PER_DEC1 \in Nat
  BY WordAssumption, Base
<1>1. /\ a \in Decimals /\ b \in Decimals
      /\ frac = Max({a.frac, b.frac}) /\ f = ROUND_UP(frac)
      /\ f <= DECIMAL_BUFF_LENGTH
      /\ g = ROUND_UP(Prec(a) - FracDigits(a)) - (start - 1)
      /\ c = g + f
      /\ IsLine(rem, len) /\ start + c <= len + 1
      /\ rho = Positional(Span(rem, start, c), c)
  BY DEF Leaving
<1>2. Min({RHave(f, g), RRoom(g)}) = c /\ RHave(f, g) = c
  <2>1. PICK k \in Int : k = DECIMAL_BUFF_LENGTH - 1
    BY <1>0
  <2>0. c \in Int
    OBVIOUS
  <2>2. Min({c, k}) = IF c <= k THEN c ELSE k
    BY <2>0, MaxOfTwo
  <2>3. RHave(f, g) = c /\ RRoom(g) = k
    BY <1>1, <2>1 DEF RHave, RRoom
  <2>4. c <= k
    BY <1>0, <2>1
  <2> QED
    BY <2>2, <2>3, <2>4
<1>3. PICK r : r = Remaining(a, b, rem, start, g, frac, f, c, c) /\ r = Remainder(a, b, rem, start)
  <2>1. PICK have, kept : have = RHave(f, g) /\ kept = Min({have, RRoom(g)})
    OBVIOUS
  <2>2. Remainder(a, b, rem, start) = Remaining(a, b, rem, start, g, frac, f, have, kept)
    BY ONLY <1>1, <2>1, RemainderUnfolds
  <2> QED
    BY <1>2, <2>1, <2>2
<1>4. PICK i \in Nat, m \in Int, z \in Nat : i = 0 /\ m = start + c - 1 /\ z = -g
  OBVIOUS
<1>5. i \in Nat /\ ROUND_UP(i) = i /\ rho < Power(Radix, i) * Power(DIG_BASE, f)
  <2>1. AreWords(Span(rem, start, c), c)
    BY <1>1, SpanWords
  <2>2. rho < Power(DIG_BASE, c)
    BY <1>1, <2>1, PositionalRange
  <2>3. Power(DIG_BASE, c) <= Power(DIG_BASE, f)
    BY <1>0, <1>1, PowerMonotonic
  <2>4. Power(DIG_BASE, c) \in Nat \ {0} /\ Power(DIG_BASE, f) \in Nat \ {0}
    BY <1>0, PowerPositive
  <2>5. Power(Radix, i) = 1
    BY <1>0, <1>4, Powers
  <2>6. ROUND_UP(i * DIG_PER_DEC1) = i /\ i * DIG_PER_DEC1 = i
    BY <1>0, <1>4, RoundUpWords
  <2>7. rho < 1 * Power(DIG_BASE, f)
    BY <2>2, <2>3, <2>4
  <2> QED
    BY <2>5, <2>6, <2>7
<1>6. RBuf(rem, start, g, c) = [k \in 1 .. z |-> 0] \o SubSeq(rem, start, m)
  <2>1. Max({0, g}) = 0 /\ Max({0, -g}) = z
    <3>1. PICK h \in Int : h = -g
      OBVIOUS
    <3>2. (Max({0, h}) = IF 0 >= h THEN 0 ELSE h) /\ (Max({0, g}) = IF 0 >= g THEN 0 ELSE g)
      BY MaxOfTwo
    <3>3. IF 0 >= h THEN z = 0 ELSE z = h
      BY <1>4, <3>1
    <3>4. Max({0, g}) = 0
      BY <3>2
    <3> QED
      BY <3>1, <3>2, <3>3, <3>4
  <2>2. start + 0 + c - 1 = m
    BY <1>4
  <2> QED
    BY <2>1, <2>2 DEF RBuf
<1>8. PICK d : d = [sign |-> a.sign, intg |-> i, frac |-> frac,
                    buf |-> [k \in 1 .. z |-> 0] \o SubSeq(rem, start, m)]
  OBVIOUS
<1>9. r = [to |-> d, error |-> E_DEC_OK]
  <2>1. ~(g > DECIMAL_BUFF_LENGTH) /\ g <= 0 /\ ~(c < c)
    BY <1>0
  <2>2. r = [to |-> [sign |-> a.sign, intg |-> 0, frac |-> frac, buf |-> RBuf(rem, start, g, c)],
             error |-> E_DEC_OK]
    BY <1>3, <2>1, Zenon DEF Remaining
  <2> QED
    BY <1>4, <1>6, <1>8, <2>2
<1>10. a.sign \in BOOLEAN
  BY <1>1, DecimalTypes
<1>11. NumberMade(d, i, frac, f, rho)
  <2>1. z + c = i + f /\ z \in Nat /\ m \in Int /\ m = start + c - 1
    BY <1>1, <1>4
  <2>2. i = ROUND_UP(i) /\ i \in Nat /\ rho < Power(Radix, i) * Power(DIG_BASE, f)
    BY <1>5
  <2>3. IsLine(rem, len) /\ start + c <= len + 1 /\ f = ROUND_UP(frac)
        /\ rho = Positional(Span(rem, start, c), c)
    BY <1>1
  <2> QED
    BY ONLY <1>8, <1>10, <2>1, <2>2, <2>3, len \in Nat, start \in Nat \ {0}, c \in Nat,
            frac \in Nat, f \in Nat, t \in Nat, t = f * DIG_PER_DEC1 - frac,
            Multiple(rho, Power(Radix, t)), LineDecimal, ZenonT(60)
<1>12. r.to = d /\ r.error = E_DEC_OK /\ d.sign = a.sign
  BY <1>8, <1>9
<1>13. ROUND_UP(i) + f <= DECIMAL_BUFF_LENGTH
  BY <1>1, <1>4, <1>5
<1> QED
  BY <1>3, <1>4, <1>11, <1>12, <1>13, AllLeft

(* A fraction of a full buffer loses its last word.                        *)
LEMMA RemainderCut ==
    ASSUME NEW a, NEW b, NEW rem, NEW start \in Nat \ {0}, NEW c \in Nat, NEW len \in Nat,
           NEW g \in Int, NEW f \in Nat, NEW frac \in Nat, NEW rho \in Nat, NEW S \in Nat,
           Leaving(a, b, rem, start, c, len, g, f, frac, rho, S), g = 0, c = DECIMAL_BUFF_LENGTH
    PROVE  RemainderMade(Remainder(a, b, rem, start), a, f, rho)
<1>0. DECIMAL_BUFF_LENGTH \in Nat \ {0} /\ DIG_BASE \in Nat \ {0} /\ DIG_BASE \in Int /\ Radix \in Int
      /\ DIG_PER_DEC1 \in Nat /\ DIG_MAX = DIG_BASE - 1
  BY WordAssumption, Base
<1>1. /\ a \in Decimals /\ b \in Decimals
      /\ frac = Max({a.frac, b.frac}) /\ f = ROUND_UP(frac)
      /\ g = ROUND_UP(Prec(a) - FracDigits(a)) - (start - 1)
      /\ c = g + f
      /\ IsLine(rem, len) /\ start + c <= len + 1
      /\ rho = Positional(Span(rem, start, c), c)
  BY DEF Leaving
<1>2. PICK n \in Nat : n = DECIMAL_BUFF_LENGTH - 1 /\ c = n + 1 /\ f = c /\ n < c
  <2>1. DECIMAL_BUFF_LENGTH - 1 \in Nat
    BY <1>0
  <2> QED
    BY <1>1, <2>1
<1>3. Min({RHave(f, g), RRoom(g)}) = n /\ RHave(f, g) = c
  <2>1. c \in Int /\ n \in Int
    OBVIOUS
  <2>2. Min({c, n}) = IF c <= n THEN c ELSE n
    BY <2>1, MaxOfTwo
  <2>3. RHave(f, g) = c /\ RRoom(g) = n
    BY <1>1, <1>2 DEF RHave, RRoom
  <2> QED
    BY <1>2, <2>2, <2>3
<1>4. PICK r : r = Remaining(a, b, rem, start, g, frac, f, c, n) /\ r = Remainder(a, b, rem, start)
  <2>1. PICK have, kept : have = RHave(f, g) /\ kept = Min({have, RRoom(g)})
    OBVIOUS
  <2>2. Remainder(a, b, rem, start) = Remaining(a, b, rem, start, g, frac, f, have, kept)
    BY ONLY <1>1, <2>1, RemainderUnfolds
  <2> QED
    BY <1>3, <2>1, <2>2
<1>5. PICK i \in Nat, m \in Int, z \in Nat, h \in Nat :
        i = 0 /\ m = start + n - 1 /\ z = 0 /\ h = n * DIG_PER_DEC1
  <2>1. PICK h \in Nat : h = n * DIG_PER_DEC1
    BY <1>0
  <2>2. PICK i \in Nat, m \in Int, z \in Nat : i = 0 /\ m = start + n - 1 /\ z = 0
    OBVIOUS
  <2> QED
    BY <2>1, <2>2, Zenon
<1>6. RBuf(rem, start, g, n) = [k \in 1 .. z |-> 0] \o SubSeq(rem, start, m)
  <2>1. Max({0, g}) = 0 /\ Max({0, -g}) = z
    <3>1. PICK k \in Int : k = -g /\ k = 0
      OBVIOUS
    <3>2. (Max({0, k}) = IF 0 >= k THEN 0 ELSE k) /\ (Max({0, g}) = IF 0 >= g THEN 0 ELSE g)
      BY MaxOfTwo
    <3>3. Max({0, k}) = 0 /\ Max({0, g}) = 0
      BY <3>1, <3>2
    <3> QED
      BY <1>5, <3>1, <3>3
  <2>2. start + 0 + n - 1 = m
    BY <1>5
  <2> QED
    BY <2>1, <2>2 DEF RBuf
<1>7. PICK d : d = [sign |-> a.sign, intg |-> i, frac |-> h,
                    buf |-> [k \in 1 .. z |-> 0] \o SubSeq(rem, start, m)]
  OBVIOUS
<1>8. r = [to |-> d, error |-> E_DEC_TRUNCATED]
  <2>1. ~(f = 0 /\ g = 0) /\ ~(-g >= DECIMAL_BUFF_LENGTH) /\ ~(g > DECIMAL_BUFF_LENGTH) /\ g <= 0 /\ n < c
    BY <1>0, <1>2
  <2>2. r = [to |-> [sign |-> a.sign, intg |-> 0, frac |-> n * DIG_PER_DEC1, buf |-> RBuf(rem, start, g, n)],
             error |-> E_DEC_TRUNCATED]
    BY <1>4, <2>1, Zenon DEF Remaining
  <2> QED
    BY <1>5, <1>6, <1>7, <2>2
<1>9. a.sign \in BOOLEAN
  BY <1>1, DecimalTypes
<1>10. PICK M \in Nat, u \in 0 .. DIG_BASE - 1 :
         M = Positional(Span(rem, start, n), n) /\ rho = M * DIG_BASE + u /\ M < Power(DIG_BASE, n)
  <2>1. PICK v : v = Span(rem, start, c)
    OBVIOUS
  <2>2. PICK w : w = Span(rem, start, n)
    OBVIOUS
  <2>3. AreWords(v, c) /\ AreWords(w, n)
    <3>1. start + n <= len + 1
      BY <1>1, <1>2
    <3> QED
      BY <1>1, <2>1, <2>2, <3>1, SpanWords
  <2>4. (\A k \in 1 .. n + 1 : v[k] \in Int) /\ v[n + 1] \in 0 .. DIG_BASE - 1
    <3>1. \A k \in 1 .. c : v[k] \in 0 .. DIG_BASE - 1
      BY <1>0, <2>3 DEF AreWords
    <3>2. n + 1 \in 1 .. c
      BY <1>2
    <3> QED
      BY <1>0, <1>2, <3>1, <3>2
  <2>5. Positional(v, n + 1) = Positional(v, n) * DIG_BASE + v[n + 1]
    <3>1. n + 1 \in Nat /\ n \in 0 .. (n + 1) - 1
      OBVIOUS
    <3>2. \A k \in 0 .. (n + 1) - 1 : Positional(v, k + 1) = Positional(v, k) * DIG_BASE + v[k + 1]
      BY ONLY <2>4, <3>1, Positionals
    <3> QED
      BY <3>1, <3>2
  <2>6. Positional(v, n) = Positional(w, n)
    <3>1. \A k \in 1 .. n : w[k] = v[k]
      <4>1. \A k \in 1 .. n : w[k] = rem[start + k - 1]
        BY <2>2 DEF Span
      <4>2. \A k \in 1 .. c : v[k] = rem[start + k - 1]
        BY <2>1 DEF Span
      <4>3. \A k \in 1 .. n : k \in 1 .. c
        BY <1>2
      <4> QED
        BY <4>1, <4>2, <4>3
    <3>2. \A k \in 1 .. n : w[k] \in Int /\ v[k] = w[k]
      <4>1. \A k \in 1 .. n : k \in 1 .. n + 1
        OBVIOUS
      <4> QED
        BY <2>4, <3>1, <4>1
    <3> QED
      BY ONLY <3>2, n \in Nat, PositionalSame
  <2>7. Positional(w, n) \in Nat /\ Positional(w, n) < Power(DIG_BASE, n)
    <3>1. n \in 0 .. n
      OBVIOUS
    <3> QED
      BY ONLY <2>3, <3>1, n \in Nat, PositionalRange
  <2> QED
    BY <1>1, <1>2, <2>1, <2>2, <2>4, <2>5, <2>6, <2>7
<1>11. NumberMade(d, i, h, n, M)
  <2>1. z + n = i + n /\ z \in Nat /\ m \in Int /\ m = start + n - 1 /\ start + n <= len + 1
    BY <1>1, <1>2, <1>5
  <2>2. i = ROUND_UP(i) /\ i \in Nat
    <3>1. ROUND_UP(i * DIG_PER_DEC1) = i /\ i * DIG_PER_DEC1 = i
      BY <1>0, <1>5, RoundUpWords
    <3> QED
      BY <3>1
  <2>3. n = ROUND_UP(h) /\ h \in Nat
    BY <1>5, RoundUpWords
  <2>4. M < Power(Radix, i) * Power(DIG_BASE, n)
    <3>1. Power(Radix, i) = 1 /\ Power(DIG_BASE, n) \in Nat \ {0}
      BY <1>0, <1>5, Powers, PowerPositive
    <3>2. M < 1 * Power(DIG_BASE, n)
      BY <1>10, <3>1
    <3> QED
      BY <3>1, <3>2
  <2>5. PICK t \in Nat : t = n * DIG_PER_DEC1 - h /\ t = 0
    BY <1>5
  <2>6. Multiple(M, Power(Radix, t))
    <3>1. Power(Radix, t) = 1
      BY <1>0, <2>5, Powers
    <3>2. M = M * 1 /\ M \in Int
      OBVIOUS
    <3> QED
      BY <3>1, <3>2 DEF Multiple
  <2>7. IsLine(rem, len) /\ M = Positional(Span(rem, start, n), n)
    BY <1>1, <1>10
  <2>8. PICK I \in Nat, F \in Nat : I = ROUND_UP(i) /\ F = ROUND_UP(h) /\ F = n /\ I = i
    BY <2>2, <2>3
  <2>9. z + n = I + F /\ t = F * DIG_PER_DEC1 - h /\ M < Power(Radix, i) * Power(DIG_BASE, F)
        /\ h \in Nat /\ i \in Nat /\ I = ROUND_UP(i) /\ F = ROUND_UP(h)
    BY <2>1, <2>2, <2>3, <2>4, <2>5, <2>8
  <2>10. z \in Nat /\ m \in Int /\ m = start + n - 1 /\ start + n <= len + 1
    BY <2>1
  <2>11. NumberMade(d, i, h, F, M)
    BY ONLY <1>7, <1>9, <2>6, <2>7, <2>9, <2>10, len \in Nat, start \in Nat \ {0},
            n \in Nat, t \in Nat, M \in Nat, I \in Nat, F \in Nat, LineDecimal, ZenonT(60)
  <2> QED
    BY <2>8, <2>11
<1>12. r.to = d /\ r.error = E_DEC_TRUNCATED /\ d.sign = a.sign
  BY <1>7, <1>8
<1>13. d \in Decimals /\ d.intg = i /\ ROUND_UP(d.frac) = n /\ Mantissa(d) = M
  BY <1>11 DEF NumberMade
<1>14. Fits(d) /\ n <= f
  <2>1. ROUND_UP(i * DIG_PER_DEC1) = i /\ i * DIG_PER_DEC1 = i
    BY <1>0, <1>5, RoundUpWords
  <2> QED
    BY <1>0, <1>2, <1>5, <1>13, <2>1 DEF Fits
<1>15. Scaled(d, f) = rho - (rho % DIG_BASE)
  <2>1. f - n = 1 /\ Power(DIG_BASE, 1) = DIG_BASE
    <3>1. Power(DIG_BASE, 0) = 1 /\ Power(DIG_BASE, 0 + 1) = Power(DIG_BASE, 0) * DIG_BASE
      BY <1>0, Powers
    <3> QED
      BY <1>0, <1>2, <3>1
  <2>2. Scaled(d, f) = M * DIG_BASE
    BY <1>13, <2>1 DEF Scaled
  <2>3. rho = DIG_BASE * M + u /\ M \in Int /\ rho \in Int
    <3>1. DIG_BASE * M = M * DIG_BASE
      BY <1>0
    <3> QED
      BY <1>10, <3>1
  <2>4. rho \div DIG_BASE = M /\ rho % DIG_BASE = u
    BY ONLY <1>0, <2>3, u \in 0 .. DIG_BASE - 1, DivisionIs
  <2>5. PICK y \in Nat : y = M * DIG_BASE
    BY <1>0
  <2>6. (y + u) - u = y
    BY <1>0
  <2> QED
    BY <1>10, <2>2, <2>4, <2>5, <2>6
<1>16. r.error # E_DEC_OK /\ f = DECIMAL_BUFF_LENGTH
  BY <1>2, <1>12 DEF E_DEC_OK, E_DEC_TRUNCATED
<1>17. RemainderMade(r, a, f, rho)
  BY <1>12, <1>13, <1>14, <1>15, <1>16 DEF RemainderMade
<1> QED
  BY <1>4, <1>17

(* Dividing multiples leaves one.                                          *)
LEMMA RestMultiple ==
    ASSUME NEW A \in Nat, NEW S \in Nat \ {0}, NEW q \in Nat, Multiple(A, q), Multiple(S, q),
           NEW rho, rho = A % S
    PROVE  rho \in Nat /\ rho < S /\ Multiple(rho, q)
<1>1. PICK Q \in Int, x \in 0 .. S - 1 : x = rho /\ A = S * Q + x
  <2>1. A \in Int
    OBVIOUS
  <2>2. A \div S \in Int /\ A % S \in 0 .. S - 1 /\ A = S * (A \div S) + (A % S)
    BY <2>1, Division
  <2>3. PICK Q \in Int : Q = A \div S
    BY <2>2
  <2> QED
    BY <2>2, <2>3
<1>2. Multiple(S * Q, q)
  <2>1. S \in Int /\ q \in Nat
    OBVIOUS
  <2> QED
    BY <2>1, MultipleTimes
<1>3. PICK y \in Int : y = S * Q
  OBVIOUS
<1>4. Multiple(y + x, q) <=> Multiple(x, q)
  BY <1>2, <1>3, MultipleSum
<1> QED
  BY <1>1, <1>3, <1>4

(* The words of what is left.                                              *)
LEMMA LeftCount ==
    ASSUME NEW La \in Nat \ {0}, NEW Lb \in Nat \ {0}, NEW fa \in Nat, NEW fb \in Nat,
           NEW f \in {fa, fb}, NEW ia \in Nat, NEW ib \in Nat, La <= ia + fa, Lb <= ib + fb,
           NEW N \in Nat, ia + fa <= N, ib + fb <= N,
           NEW start \in Nat \ {0}, NEW c \in Nat, start + c = La - fa + f + 1,
           La - fa - start + 1 <= Lb - fb, NEW g \in Int, g = (La - fa) - (start - 1)
    PROVE  c = g + f /\ g <= ib /\ f <= N /\ (g > 0 => g + f <= N)
OBVIOUS

LEMMA ModulusIsGood ==
    ASSUME NEW a \in Decimals, NEW b \in Decimals, ~decimal_is_zero(a), ~decimal_is_zero(b),
           Fits(a), Fits(b), NEW f, f = FracOf(a, b)
    PROVE  RemainderMade(Modulus(a, b), a, f, Scaled(a, f) % Scaled(b, f))
<1>0. DECIMAL_BUFF_LENGTH \in Nat \ {0} /\ Radix \in Nat /\ DIG_PER_DEC1 \in Nat
  BY WordAssumption
<1>1. PICK La \in Nat \ {0}, ua \in Nat \ {0}, ka \in 1 .. DIG_PER_DEC1,
           Lb \in Nat \ {0}, ub \in Nat \ {0}, kb \in 1 .. DIG_PER_DEC1, e \in 0 .. 1,
           fa \in Nat, fb \in Nat, n \in Nat \ {0}, V \in Nat \ {0} :
        Operands(a, b, Significant(a), Significant(b), Divisor(b),
                 La, ua, ka, Lb, ub, kb, e, fa, fb, n, V)
  <2>1. AreOperands(a, b)
    BY OperandsExist
  <2> QED
    BY <2>1, Zenon DEF AreOperands
<1>2. /\ IsSignificant(a, Significant(a), La, ua, ka) /\ fa = ROUND_UP(a.frac)
      /\ IsSignificant(b, Significant(b), Lb, ub, kb) /\ fb = ROUND_UP(b.frac)
      /\ e = (IF ua < ub THEN 0 ELSE 1)
  BY <1>1, Zenon DEF Operands
<1>3. PICK I \in Int : /\ I = ROUND_UP(IntgDigits(a, b)) /\ I = La - Lb - fa + fb + e
                       /\ ROUND_UP(Prec(a) - FracDigits(a)) = La - fa
  <2>1. QuotientWords(a, b, La, Lb, fa, fb, e)
    BY ONLY <1>2, La \in Nat \ {0}, ua \in Nat \ {0}, ka \in 1 .. DIG_PER_DEC1, fa \in Nat,
            Lb \in Nat \ {0}, ub \in Nat \ {0}, kb \in 1 .. DIG_PER_DEC1, fb \in Nat, e \in 0 .. 1,
            IntgWordsOf
  <2> QED
    BY <2>1 DEF QuotientWords
<1>4. f \in Nat /\ f \in {fa, fb} /\ fa <= f /\ fb <= f /\ f <= fa + fb
  <2>1. f \in {fa, fb} /\ fa <= f /\ fb <= f
    BY <1>2, Ends
  <2> QED
    BY <2>1
<1>5. PICK frac \in Nat : frac = Max({a.frac, b.frac}) /\ f = ROUND_UP(frac) /\ a.frac <= frac /\ b.frac <= frac
  BY Ends
<1>6. ModulusLeaves(a, b, La, fa, Lb, fb, f)
  <2>1. CASE I < 0
    BY ONLY <1>1, <1>3, <1>4, <2>1, La \in Nat \ {0}, ua \in Nat \ {0}, ka \in 1 .. DIG_PER_DEC1,
            Lb \in Nat \ {0}, ub \in Nat \ {0}, kb \in 1 .. DIG_PER_DEC1, e \in 0 .. 1,
            fa \in Nat, fb \in Nat, n \in Nat \ {0}, V \in Nat \ {0}, I \in Int, ModulusShort
  <2>2. CASE ~(I < 0)
    <3>1. PICK N \in Nat : N = I
      BY <2>2
    <3>2. N = ROUND_UP(IntgDigits(a, b)) /\ N = La - Lb - fa + fb + e
      BY <1>3, <3>1
    <3> QED
      BY ONLY <1>1, <1>4, <3>2, La \in Nat \ {0}, ua \in Nat \ {0}, ka \in 1 .. DIG_PER_DEC1,
              Lb \in Nat \ {0}, ub \in Nat \ {0}, kb \in 1 .. DIG_PER_DEC1, e \in 0 .. 1,
              fa \in Nat, fb \in Nat, n \in Nat \ {0}, V \in Nat \ {0}, N \in Nat, ModulusLong
  <2> QED
    BY <2>1, <2>2
<1>7. PICK start \in Nat \ {0}, c \in Nat, len \in Nat : \E rem :
        LeavesRest(rem, start, c, len, a, b, La, fa, Lb, fb, f)
  BY <1>6, Zenon DEF ModulusLeaves
<1>8. PICK rem : LeavesRest(rem, start, c, len, a, b, La, fa, Lb, fb, f)
  BY <1>7
<1>9. /\ Modulus(a, b) = Remainder(a, b, rem, start)
      /\ Left(rem, start, c, len, La - fa + f, Scaled(a, f) % Scaled(b, f))
      /\ La - fa - start + 1 <= Lb - fb
  BY <1>8 DEF LeavesRest
<1>10. PICK A \in Nat, S \in Nat \ {0} : A = Scaled(a, f) /\ S = Scaled(b, f)
  <2>1. ROUND_UP(a.frac) <= f /\ ROUND_UP(b.frac) <= f
    BY <1>2, <1>4
  <2>2. Scaled(a, f) \in Nat /\ Scaled(b, f) \in Nat /\ Scaled(b, f) # 0
    BY <1>4, <2>1, ScaledZero
  <2> QED
    BY <2>2
<1>11. PICK rho : rho = A % S
  OBVIOUS
<1>12. PICK t \in Nat : t = f * DIG_PER_DEC1 - frac
  <2>1. PICK F \in Int : F = f * DIG_PER_DEC1
    BY <1>0, <1>4
  <2>2. frac <= ROUND_UP(frac) * DIG_PER_DEC1
    <3>1. frac \in Int
      OBVIOUS
    <3> QED
      BY <3>1, RoundUp
  <2>3. F - frac \in Nat
    BY <1>5, <2>1, <2>2
  <2> QED
    BY <2>1, <2>3
<1>13. PICK q \in Nat \ {0} : q = Power(Radix, t)
  BY PowerPositive, WordAssumption
<1>14. Multiple(A, q) /\ Multiple(S, q)
  <2>1. ROUND_UP(a.frac) <= f /\ ROUND_UP(b.frac) <= f
    BY <1>2, <1>4
  <2>2. Multiple(Scaled(a, f), Power(Radix, t))
    BY ONLY <1>4, <1>5, <1>12, <2>1, a \in Decimals, frac \in Nat, t \in Nat, ScaledMultiple
  <2>3. Multiple(Scaled(b, f), Power(Radix, t))
    BY ONLY <1>4, <1>5, <1>12, <2>1, b \in Decimals, frac \in Nat, t \in Nat, ScaledMultiple
  <2> QED
    BY <1>10, <1>13, <2>2, <2>3
<1>15. rho \in Nat /\ rho < S /\ Multiple(rho, q)
  BY <1>11, <1>14, RestMultiple
<1>16. /\ IsLine(rem, len) /\ La - fa + f <= len /\ start + c = La - fa + f + 1
       /\ rho = Positional(Span(rem, start, c), c)
  BY <1>9, <1>10, <1>11 DEF Left
<1>17. PICK g \in Int : g = (La - fa) - (start - 1)
  OBVIOUS
<1>18. c = g + f /\ g <= ROUND_UP(b.intg) /\ f <= DECIMAL_BUFF_LENGTH /\ (g > 0 => g + f <= DECIMAL_BUFF_LENGTH)
  <2>1. PICK ia \in Nat, ib \in Nat : ia = ROUND_UP(a.intg) /\ ib = ROUND_UP(b.intg)
    BY DecimalTypes
  <2>2. La <= ia + fa /\ Lb <= ib + fb
    <3>1. La <= Len(a.buf) /\ Lb <= Len(b.buf)
      BY <1>2 DEF IsSignificant
    <3>2. Len(a.buf) = ia + fa /\ Len(b.buf) = ib + fb
      BY <1>2, <2>1, DecimalTypes
    <3> QED
      BY <3>1, <3>2
  <2>3. ia + fa <= DECIMAL_BUFF_LENGTH /\ ib + fb <= DECIMAL_BUFF_LENGTH
    BY <1>2, <2>1 DEF Fits
  <2>4. DECIMAL_BUFF_LENGTH \in Nat
    BY <1>0
  <2>5. c = g + f /\ g <= ib /\ f <= DECIMAL_BUFF_LENGTH /\ (g > 0 => g + f <= DECIMAL_BUFF_LENGTH)
    BY ONLY <1>4, <1>9, <1>16, <1>17, <2>2, <2>3, <2>4, La \in Nat \ {0}, Lb \in Nat \ {0}, fa \in Nat,
            fb \in Nat, ia \in Nat, ib \in Nat, start \in Nat \ {0}, c \in Nat, g \in Int, LeftCount
  <2> QED
    BY <2>1, <2>5
<1>19. Leaving(a, b, rem, start, c, len, g, f, frac, rho, S)
  <2>1. ROUND_UP(b.frac) <= f /\ g = ROUND_UP(Prec(a) - FracDigits(a)) - (start - 1) /\ start + c <= len + 1
    BY <1>2, <1>3, <1>4, <1>16, <1>17
  <2> QED
    BY <1>5, <1>10, <1>15, <1>16, <1>18, <2>1 DEF Leaving
<1>20. RemainderMade(Remainder(a, b, rem, start), a, f, rho)
  <2>0. f \in Nat /\ rho \in Nat /\ S \in Nat /\ Multiple(rho, Power(Radix, t)) /\ t = f * DIG_PER_DEC1 - frac
    BY <1>4, <1>12, <1>13, <1>15
  <2>1. CASE g > 0
    BY ONLY <1>19, <2>0, <2>1, start \in Nat \ {0}, c \in Nat, len \in Nat, g \in Int, frac \in Nat,
            t \in Nat, RemainderWhole
  <2>2. CASE ~(g > 0) /\ ((f = 0 /\ g = 0) \/ -g >= DECIMAL_BUFF_LENGTH)
    <3>1. c = 0
      BY <1>0, <1>4, <1>18, <2>2
    <3>2. rho = 0
      <4>1. PICK y : y = Span(rem, start, c)
        OBVIOUS
      <4>2. \A k \in 1 .. 0 : y[k] = 0
        OBVIOUS
      <4>3. Positional(y, 0) = 0
        BY <4>2, PositionalZeros
      <4> QED
        BY <1>16, <3>1, <4>1, <4>3
    <3>3. PICK have, kept : have = RHave(f, g) /\ kept = Min({have, RRoom(g)})
      OBVIOUS
    <3>4. Remainder(a, b, rem, start) = Remaining(a, b, rem, start, g, frac, f, have, kept)
      <4>1. g = ROUND_UP(Prec(a) - FracDigits(a)) - (start - 1)
        BY <1>3, <1>17
      <4>2. frac = Max({a.frac, b.frac}) /\ f = ROUND_UP(frac)
        BY <1>5
      <4>3. have = RHave(f, g) /\ kept = Min({have, RRoom(g)})
        BY <3>3
      <4> QED
        BY ONLY <4>1, <4>2, <4>3, Zenon DEF Remainder, Remaining, RBuf, RHave, RRoom, Done
    <3>5. PICK r : r = Remainder(a, b, rem, start)
      OBVIOUS
    <3>6. r = [to |-> Zero, error |-> E_DEC_OK] \/ (r = [to |-> Zero, error |-> E_DEC_TRUNCATED] /\ f = DECIMAL_BUFF_LENGTH)
      <4>1. CASE f = 0 /\ g = 0
        <5>1. ~(-g >= DECIMAL_BUFF_LENGTH) /\ ~(g > DECIMAL_BUFF_LENGTH)
          BY <1>0, <4>1
        <5> QED
          BY <3>4, <3>5, <4>1, <5>1, Zenon DEF Remaining
      <4>2. CASE ~(f = 0 /\ g = 0)
        <5>1. -g >= DECIMAL_BUFF_LENGTH
          BY <2>2, <4>2
        <5>2. f = DECIMAL_BUFF_LENGTH
          BY <1>0, <1>4, <1>18, <3>1, <5>1
        <5>3. ~(g > DECIMAL_BUFF_LENGTH)
          BY <1>0, <5>1
        <5>4. r = [to |-> Zero, error |-> E_DEC_TRUNCATED]
          BY <3>4, <3>5, <4>2, <5>1, <5>3, Zenon DEF Remaining
        <5> QED
          BY <5>2, <5>4
      <4> QED
        BY <4>1, <4>2
    <3>7. r.to = Zero /\ (r.error = E_DEC_OK \/ (r.error = E_DEC_TRUNCATED /\ f = DECIMAL_BUFF_LENGTH))
      BY <3>6
    <3>8. RemainderMade(r, a, f, 0)
      BY <1>4, <3>7, NothingLeft
    <3> QED
      BY <3>2, <3>5, <3>8
  <2>3. CASE ~(g > 0) /\ ~(f = 0 /\ g = 0) /\ ~(-g >= DECIMAL_BUFF_LENGTH) /\ c < DECIMAL_BUFF_LENGTH
    <3>1. g <= 0 /\ ~(f = 0 /\ g = 0) /\ ~(-g >= DECIMAL_BUFF_LENGTH) /\ c < DECIMAL_BUFF_LENGTH
      BY <2>3
    <3> QED
      BY ONLY <1>19, <2>0, <3>1, start \in Nat \ {0}, c \in Nat, len \in Nat, g \in Int, frac \in Nat,
              t \in Nat, RemainderFraction
  <2>4. CASE ~(g > 0) /\ ~(c < DECIMAL_BUFF_LENGTH)
    <3>1. g = 0 /\ c = DECIMAL_BUFF_LENGTH
      BY <1>0, <1>4, <1>18, <2>4
    <3> QED
      BY ONLY <1>19, <2>0, <3>1, start \in Nat \ {0}, c \in Nat, len \in Nat, g \in Int, frac \in Nat,
              RemainderCut
  <2> QED
    BY <2>1, <2>2, <2>3, <2>4
<1> QED
  BY <1>9, <1>10, <1>11, <1>20

(* The remainder of any two decimals, of which IsRemainder is that of acc. *)
HonestRemainder(r, a, b) ==
    LET frac == Max({ROUND_UP(a.frac), ROUND_UP(b.frac)})
        A == Scaled(a, frac)
        S == Scaled(b, frac)
        rem == Scaled(r.to, frac)
    IN  S # 0 =>
          /\ r.error \in {E_DEC_OK, E_DEC_TRUNCATED}
          /\ rem # 0 => r.to.sign = a.sign
          /\ r.error = E_DEC_OK => rem = A % S
          /\ r.error = E_DEC_TRUNCATED =>
                /\ frac = DECIMAL_BUFF_LENGTH
                /\ rem = (A % S) - ((A % S) % DIG_BASE)

ModAnswer(r, a, b) ==
    /\ HonestRemainder(r, a, b)
    /\ r.error < E_DEC_OVERFLOW => r.to \in Decimals /\ Fits(r.to)

LEMMA MadeIsRemainder ==
    ASSUME NEW a, NEW b, NEW r,
           RemainderMade(r, a, FracOf(a, b), Scaled(a, FracOf(a, b)) % Scaled(b, FracOf(a, b)))
    PROVE  ModAnswer(r, a, b)
<1>1. PICK f, A, S, x, y : f = FracOf(a, b) /\ A = Scaled(a, f) /\ S = Scaled(b, f) /\ x = Scaled(r.to, f)
                           /\ y = A % S
  OBVIOUS
<1>2. RemainderMade(r, a, f, y)
  BY <1>1
<1>3. /\ r.error \in {E_DEC_OK, E_DEC_TRUNCATED}
      /\ r.to \in Decimals /\ Fits(r.to)
      /\ x # 0 => r.to.sign = a.sign
      /\ r.error = E_DEC_OK => x = y
      /\ r.error = E_DEC_TRUNCATED => f = DECIMAL_BUFF_LENGTH /\ x = y - (y % DIG_BASE)
  BY <1>1, <1>2, Zenon DEF RemainderMade
<1>4. f = Max({ROUND_UP(a.frac), ROUND_UP(b.frac)})
  BY <1>1, Zenon DEF FracOf
<1>5. HonestRemainder(r, a, b)
  BY <1>1, <1>3, <1>4, Zenon DEF HonestRemainder
<1> QED
  BY <1>3, <1>5 DEF ModAnswer

LEMMA ModIsHonest ==
    ASSUME NEW a \in Decimals, NEW b \in Decimals, Fits(a), Fits(b)
    PROVE  ModAnswer(decimal_mod(a, b), a, b)
<1>1. PICK f \in Nat : f = FracOf(a, b) /\ ROUND_UP(a.frac) <= f /\ ROUND_UP(b.frac) <= f
  BY Ends
<1>2. PICK A \in Nat, S \in Nat : /\ A = Scaled(a, f) /\ S = Scaled(b, f)
                                  /\ A = 0 <=> decimal_is_zero(a)
                                  /\ S = 0 <=> decimal_is_zero(b)
  BY <1>1, ScaledZero
<1>3. PICK r : r = decimal_mod(a, b)
  OBVIOUS
<1>4. CASE decimal_is_zero(b)
  <2>1. r = [to |-> a, error |-> E_DEC_DIV_ZERO]
    BY <1>3, <1>4, Zenon DEF decimal_mod, Done
  <2>2. ~(r.error < E_DEC_OVERFLOW)
    BY <2>1 DEF E_DEC_DIV_ZERO, E_DEC_OVERFLOW
  <2>3. f = Max({ROUND_UP(a.frac), ROUND_UP(b.frac)})
    BY <1>1, Zenon DEF FracOf
  <2>4. Scaled(b, f) = 0
    BY <1>2, <1>4
  <2>5. HonestRemainder(r, a, b)
    BY <2>3, <2>4, Zenon DEF HonestRemainder
  <2> QED
    BY <1>3, <2>2, <2>5 DEF ModAnswer
<1>5. CASE decimal_is_zero(a) /\ ~decimal_is_zero(b)
  <2>1. r = [to |-> Zero, error |-> E_DEC_OK]
    BY <1>3, <1>5, Zenon DEF decimal_mod, Done
  <2>2. RemainderMade(r, a, f, 0)
    BY <2>1, NothingLeft
  <2>3. 0 = A % S
    <3>1. A = S * 0 + 0 /\ 0 \in 0 .. S - 1 /\ 0 \in Int /\ A \in Int /\ S \in Nat \ {0}
      BY <1>2, <1>5
    <3>2. A \div S = 0 /\ A % S = 0
      BY ONLY <3>1, DivisionIs
    <3> QED
      BY <3>2
  <2> QED
    BY <1>1, <1>2, <1>3, <2>2, <2>3, MadeIsRemainder
<1>6. CASE ~decimal_is_zero(a) /\ ~decimal_is_zero(b)
  <2>1. r = Modulus(a, b)
    BY <1>3, <1>6, Zenon DEF decimal_mod
  <2>2. RemainderMade(Modulus(a, b), a, f, Scaled(a, f) % Scaled(b, f))
    BY <1>1, <1>6, ModulusIsGood
  <2> QED
    BY <1>1, <1>3, <2>1, <2>2, MadeIsRemainder
<1> QED
  BY <1>4, <1>5, <1>6

(* DivisionIsExact (Decimal): whatever is divided by whatever, quotient    *)
(* and remainder are right, or an error says what they lack.               *)
THEOREM DivisionIsRight == TypeOK => DivisionIsExact
<1> SUFFICES ASSUME TypeOK PROVE DivisionIsExact
  OBVIOUS
<1>1. acc \in Decimals /\ Fits(acc)
  BY AccTypes
<1>2. ASSUME NEW x \in Literals, NEW incr \in ScaleIncrs
      PROVE  IsQuotient(decimal_div(acc, x, incr), x, incr)
  <2>1. x \in Decimals /\ incr \in Nat
    BY LiteralTypes, ScaleAssumption
  <2>2. HonestQuotient(decimal_div(acc, x, incr), acc, x, incr)
    BY <1>1, <2>1, DivIsHonest DEF DivAnswer
  <2> QED
    BY <2>2, Zenon DEF HonestQuotient, IsQuotient
<1>3. ASSUME NEW x \in Literals
      PROVE  IsRemainder(decimal_mod(acc, x), x)
  <2>1. x \in Decimals /\ Fits(x)
    BY LiteralTypes
  <2>2. HonestRemainder(decimal_mod(acc, x), acc, x)
    BY <1>1, <2>1, ModIsHonest DEF ModAnswer
  <2> QED
    BY <2>2, Zenon DEF HonestRemainder, IsRemainder
<1> QED
  BY <1>2, <1>3, Zenon DEF DivisionIsExact

-----------------------------------------------------------------------------
(* longlong2decimal()                                                      *)

(* Words cut out of a number are the number.                               *)
CutWords(m, w) == [k \in 1 .. w |-> (m \div Power(DIG_BASE, w - k)) % DIG_BASE]

LEMMA DivideTwice ==
    ASSUME NEW m \in Nat, NEW q \in Nat \ {0}, NEW B \in Nat \ {0}
    PROVE  m \div q = (m \div (q * B)) * B + ((m \div q) % B)
<1>1. PICK x \in Int, r \in 0 .. q - 1 : x = m \div q /\ m = q * x + r
  <2>1. m \in Int
    OBVIOUS
  <2>2. m \div q \in Int /\ m % q \in 0 .. q - 1 /\ m = q * (m \div q) + (m % q)
    BY <2>1, Division
  <2>3. PICK x \in Int : x = m \div q
    BY <2>2
  <2> QED
    BY <2>2, <2>3
<1>2. PICK y \in Int, s \in 0 .. B - 1 : s = x % B /\ x = B * y + s
  <2>2. x \div B \in Int /\ x % B \in 0 .. B - 1 /\ x = B * (x \div B) + (x % B)
    BY Division
  <2>3. PICK y \in Int : y = x \div B
    BY <2>2
  <2> QED
    BY <2>2, <2>3
<1>3. PICK p \in Nat \ {0} : p = q * B
  OBVIOUS
<1>4. PICK t \in Int : t = q * s + r
  OBVIOUS
<1>5. t \in 0 .. p - 1
  <2>1. q * s >= 0
    OBVIOUS
  <2>2. s <= B - 1
    OBVIOUS
  <2>3. q * s <= q * (B - 1)
    BY <2>2
  <2>4. q * (B - 1) = q * B - q
    OBVIOUS
  <2> QED
    BY <1>3, <1>4, <2>1, <2>3, <2>4
<1>6. m = p * y + t
  <2>1. q * (B * y + s) = (q * B) * y + q * s
    OBVIOUS
  <2>2. m = q * (B * y + s) + r
    BY <1>1, <1>2
  <2>3. PICK u \in Int, z \in Int : u = (q * B) * y /\ z = q * s /\ u = p * y /\ t = z + r
    BY <1>3, <1>4
  <2>4. m = (u + z) + r
    BY <2>1, <2>2, <2>3
  <2>5. m = u + t
    BY ONLY <2>3, <2>4, u \in Int, z \in Int, r \in 0 .. q - 1, q \in Nat
  <2> QED
    BY <2>3, <2>5
<1>7. m \div p = y /\ m % p = t
  <2>1. m \in Int
    OBVIOUS
  <2> QED
    BY ONLY <1>5, <1>6, <2>1, p \in Nat \ {0}, y \in Int, DivisionIs
<1>8. x = y * B + s
  <2>1. B * y = y * B
    OBVIOUS
  <2> QED
    BY <1>2, <2>1
<1> QED
  BY <1>1, <1>2, <1>3, <1>7, <1>8

CutIs(m, w, k) == Positional(CutWords(m, w), k) = m \div Power(DIG_BASE, w - k)

LEMMA CutsAre ==
    ASSUME NEW m \in Nat, NEW w \in Nat, m < Power(DIG_BASE, w)
    PROVE  AreWords(CutWords(m, w), w) /\ Positional(CutWords(m, w), w) = m
<1>0. DIG_BASE \in Nat \ {0} /\ DIG_BASE \in Int /\ DIG_MAX = DIG_BASE - 1 /\ m \in Int
  BY Base
<1>1. PICK v : v = CutWords(m, w)
  OBVIOUS
<1>2. \A k \in 1 .. w : v[k] = (m \div Power(DIG_BASE, w - k)) % DIG_BASE /\ v[k] \in 0 .. DIG_MAX
  <2> SUFFICES ASSUME NEW k \in 1 .. w
               PROVE  v[k] = (m \div Power(DIG_BASE, w - k)) % DIG_BASE /\ v[k] \in 0 .. DIG_MAX
    OBVIOUS
  <2>1. v[k] = (m \div Power(DIG_BASE, w - k)) % DIG_BASE
    BY <1>1 DEF CutWords
  <2>2. PICK h \in Nat : h = w - k
    OBVIOUS
  <2>3. Power(DIG_BASE, h) \in Nat \ {0}
    BY <1>0, PowerPositive
  <2>4. m \div Power(DIG_BASE, h) \in Int
    BY <1>0, <2>3, Division
  <2>5. (m \div Power(DIG_BASE, h)) % DIG_BASE \in 0 .. DIG_BASE - 1
    BY <1>0, <2>4, Division
  <2> QED
    BY <1>0, <2>1, <2>2, <2>5
<1>3. AreWords(v, w)
  BY <1>2 DEF AreWords
<1>4. \A k \in 1 .. w : v[k] \in Int
  BY ONLY <1>0, <1>2
<1>5. /\ Positional(v, 0) = 0
      /\ \A k \in 0 .. w - 1 : Positional(v, k + 1) = Positional(v, k) * DIG_BASE + v[k + 1]
  BY ONLY <1>4, w \in Nat, Positionals
<1> DEFINE K == {k \in Nat : k <= w => CutIs(m, w, k)}
<1>6. 0 \in K
  <2>1. Power(DIG_BASE, w) \in Nat \ {0}
    BY <1>0, PowerPositive
  <2>2. m = Power(DIG_BASE, w) * 0 + m /\ m \in 0 .. Power(DIG_BASE, w) - 1 /\ 0 \in Int
    BY <2>1
  <2>3. m \div Power(DIG_BASE, w) = 0 /\ m % Power(DIG_BASE, w) = m
    BY ONLY <1>0, <2>1, <2>2, DivisionIs
  <2>4. w - 0 = w
    OBVIOUS
  <2> QED
    BY <1>1, <1>5, <2>3, <2>4 DEF CutIs
<1>7. ASSUME NEW k \in Nat, k \in K PROVE k + 1 \in K
  <2> SUFFICES ASSUME k + 1 <= w PROVE CutIs(m, w, k + 1)
    OBVIOUS
  <2>1. PICK h \in Nat : h = w - (k + 1) /\ w - k = h + 1
    OBVIOUS
  <2>2. PICK q \in Nat \ {0} : q = Power(DIG_BASE, h)
    BY <1>0, PowerPositive
  <2>3. Power(DIG_BASE, w - k) = q * DIG_BASE
    BY <1>0, <2>1, <2>2, Powers
  <2>4. Positional(v, k) = m \div (q * DIG_BASE)
    <3>1. CutIs(m, w, k)
      BY <1>7
    <3> QED
      BY <1>1, <2>3, <3>1 DEF CutIs
  <2>5. v[k + 1] = (m \div q) % DIG_BASE
    <3>1. k + 1 \in 1 .. w
      OBVIOUS
    <3> QED
      BY <1>2, <2>1, <2>2, <3>1
  <2>6. Positional(v, k + 1) = Positional(v, k) * DIG_BASE + v[k + 1]
    <3>1. k \in 0 .. w - 1
      OBVIOUS
    <3> QED
      BY <1>5, <3>1
  <2>7. m \div q = (m \div (q * DIG_BASE)) * DIG_BASE + ((m \div q) % DIG_BASE)
    BY <1>0, DivideTwice
  <2> QED
    BY <1>1, <2>1, <2>2, <2>4, <2>5, <2>6, <2>7 DEF CutIs
<1> HIDE DEF K
<1>8. \A k \in Nat : k \in K
  BY <1>6, <1>7, SetInduction
<1>9. CutIs(m, w, w)
  BY <1>8 DEF K
<1>10. Positional(v, w) = m
  <2>1. w - w = 0 /\ Power(DIG_BASE, 0) = 1
    BY <1>0, Powers
  <2>2. m \div 1 = m
    <3>1. m = 1 * m + 0 /\ 0 \in 0 .. 1 - 1 /\ 1 \in Nat \ {0}
      OBVIOUS
    <3>2. m \div 1 = m /\ m % 1 = 0
      BY ONLY <1>0, <3>1, DivisionIs
    <3> QED
      BY <3>2
  <2> QED
    BY <1>1, <1>9, <2>1, <2>2 DEF CutIs
<1> QED
  BY <1>1, <1>3, <1>10

(* longlong2decimal(): the digits and the words of a magnitude.            *)
DigitsOf(m, R) == CHOOSE k \in 1 .. m : HasDigits(m, R, k)

LEMMA DigitsOfIs ==
    ASSUME NEW R \in Nat \ {0, 1}, NEW m \in Nat \ {0}
    PROVE  DigitsOf(m, R) \in 1 .. m /\ HasDigits(m, R, DigitsOf(m, R))
<1>1. m < Power(R, m)
  BY PowerUnbounded
<1>2. \E k \in 1 .. m : HasDigits(m, R, k)
  <2>1. m \in Nat /\ \A n \in Nat : m < Power(R, n) => \E k \in 1 .. n : HasDigits(m, R, k)
    BY DigitsExist
  <2> QED
    BY <1>1, <2>1
<1> QED
  BY <1>2, Zenon DEF DigitsOf

LEMMA LonglongIs ==
    ASSUME NEW n \in Int, n # 0, NEW m \in Nat \ {0}, m = IF n < 0 THEN -n ELSE n
    PROVE  longlong2decimal(n) =
             [sign |-> n < 0, intg |-> DigitsOf(m, Radix), frac |-> 0,
              buf |-> CutWords(m, DigitsOf(m, DIG_BASE))]
<1> DEFINE M == IF n < 0 THEN -n ELSE n
<1>1. longlong2decimal(n) =
        [sign |-> n < 0, intg |-> DigitsOf(M, Radix), frac |-> 0,
         buf |-> CutWords(M, DigitsOf(M, DIG_BASE))]
  <2>1. longlong2decimal(n) =
          IF n = 0 THEN Zero
          ELSE [sign |-> n < 0, intg |-> DigitsOf(M, Radix), frac |-> 0,
                buf |-> CutWords(M, DigitsOf(M, DIG_BASE))]
    BY Zenon DEF longlong2decimal, DigitsOf, HasDigits, CutWords
  <2> QED
    BY <2>1, Zenon
<1>2. M = m
  OBVIOUS
<1> HIDE DEF M
<1> QED
  BY <1>1, <1>2, Zenon

(* Words have DIG_PER_DEC1 digits.                                         *)
LEMMA WordsOfDigits ==
    ASSUME NEW m \in Nat \ {0}, NEW i \in Nat \ {0}, HasDigits(m, Radix, i),
           NEW w \in Nat \ {0}, HasDigits(m, DIG_BASE, w)
    PROVE  ROUND_UP(i) = w
<1>0. /\ Radix \in Nat \ {0, 1} /\ Radix \in Int /\ DIG_BASE = Power(Radix, DIG_PER_DEC1)
      /\ DIG_PER_DEC1 \in Nat \ {0}
  BY Base, WordAssumption DEF DIG_BASE
<1>1. PICK h \in Nat, j \in Nat, wD \in Nat, hD \in Nat :
        h = w - 1 /\ j = i - 1 /\ wD = DIG_PER_DEC1 * w /\ hD = DIG_PER_DEC1 * h
  <2>1. PICK h \in Nat, j \in Nat : h = w - 1 /\ j = i - 1
    OBVIOUS
  <2>2. PICK wD \in Nat : wD = DIG_PER_DEC1 * w
    BY <1>0
  <2>3. PICK hD \in Nat : hD = DIG_PER_DEC1 * h
    BY <1>0
  <2> QED
    BY <2>1, <2>2, <2>3, Zenon
<1>2. hD + DIG_PER_DEC1 = wD
  <2>1. DIG_PER_DEC1 * h + DIG_PER_DEC1 = DIG_PER_DEC1 * (h + 1) /\ h + 1 = w
    BY <1>0, <1>1
  <2> QED
    BY <1>1, <2>1
<1>3. PICK Rj \in Nat, Ri \in Nat, Rh \in Nat, Rw \in Nat :
        /\ Rj = Power(Radix, j) /\ Ri = Power(Radix, i) /\ Rh = Power(Radix, hD) /\ Rw = Power(Radix, wD)
        /\ Rj <= m /\ m < Ri /\ Rh <= m /\ m < Rw
  <2>1. /\ Power(Radix, j) \in Nat /\ Power(Radix, i) \in Nat /\ Power(Radix, hD) \in Nat
        /\ Power(Radix, wD) \in Nat
    BY <1>0, PowerPositive
  <2>2. Power(DIG_BASE, h) = Power(Radix, hD) /\ Power(DIG_BASE, w) = Power(Radix, wD)
    <3>1. /\ Power(Power(Radix, DIG_PER_DEC1), h) = Power(Radix, DIG_PER_DEC1 * h)
          /\ Power(Power(Radix, DIG_PER_DEC1), w) = Power(Radix, DIG_PER_DEC1 * w)
      BY <1>0, PowerPower
    <3> QED
      BY <1>0, <1>1, <3>1
  <2>3. Power(Radix, j) <= m /\ m < Power(Radix, i) /\ Power(DIG_BASE, h) <= m /\ m < Power(DIG_BASE, w)
    BY <1>1 DEF HasDigits
  <2> QED
    BY <2>1, <2>2, <2>3
<1>4. j < wD
  <2> SUFFICES ASSUME wD <= j PROVE FALSE
    BY <1>1
  <2>1. Rw <= Rj
    BY <1>0, <1>3, PowerMonotonic
  <2> QED
    BY <1>3, <2>1
<1>5. hD < i
  <2> SUFFICES ASSUME i <= hD PROVE FALSE
    BY <1>1
  <2>1. Ri <= Rh
    BY <1>0, <1>3, PowerMonotonic
  <2> QED
    BY <1>3, <2>1
<1>6. i <= w * DIG_PER_DEC1 /\ w * DIG_PER_DEC1 < i + DIG_PER_DEC1
  <2>1. w * DIG_PER_DEC1 = wD
    BY <1>0, <1>1
  <2>2. i <= wD /\ wD < i + DIG_PER_DEC1
    BY <1>0, <1>1, <1>2, <1>4, <1>5
  <2> QED
    BY <2>1, <2>2
<1>7. i \in Int /\ w \in Int
  OBVIOUS
<1> QED
  BY <1>6, <1>7, RoundUpIs

LEMMA LonglongTypes ==
    ASSUME NEW n \in -LonglongHalf .. LonglongHalf - 1
    PROVE  longlong2decimal(n) \in Decimals /\ Fits(longlong2decimal(n))
<1>0. /\ Radix \in Nat \ {0, 1} /\ DIG_BASE \in Nat \ {0, 1} /\ DIG_BASE \in Int
      /\ DECIMAL_BUFF_LENGTH \in Nat \ {0} /\ DIG_PER_DEC1 \in Nat \ {0} /\ Radix \in Int
  BY Base, WordAssumption
<1>1. LonglongHalf \in Int /\ LonglongHalf < Power(DIG_BASE, DECIMAL_BUFF_LENGTH)
      /\ Power(DIG_BASE, DECIMAL_BUFF_LENGTH) \in Nat
  BY <1>0, DigitAssumption, WidthAssumption, PowerPositive
<1>2. CASE n = 0
  <2>1. longlong2decimal(n) = Zero
    BY <1>2, Zenon DEF longlong2decimal
  <2> QED
    BY <2>1, ZeroIs
<1>3. CASE n # 0
  <2>1. PICK m \in Nat \ {0} : m = (IF n < 0 THEN -n ELSE n) /\ m < Power(DIG_BASE, DECIMAL_BUFF_LENGTH)
    BY <1>1, <1>3
  <2>2. PICK i \in Nat \ {0} : i = DigitsOf(m, Radix) /\ HasDigits(m, Radix, i)
    <3>1. DigitsOf(m, Radix) \in 1 .. m /\ HasDigits(m, Radix, DigitsOf(m, Radix))
      BY <1>0, DigitsOfIs
    <3> QED
      BY <3>1
  <2>3. PICK w \in Nat \ {0} : w = DigitsOf(m, DIG_BASE) /\ HasDigits(m, DIG_BASE, w)
    <3>1. DigitsOf(m, DIG_BASE) \in 1 .. m /\ HasDigits(m, DIG_BASE, DigitsOf(m, DIG_BASE))
      BY <1>0, DigitsOfIs
    <3> QED
      BY <3>1
  <2>4. ROUND_UP(i) = w
    BY <2>2, <2>3, WordsOfDigits
  <2>5. PICK p, sign : p = CutWords(m, w) /\ sign = (n < 0) /\ sign \in BOOLEAN
    <3>1. (n < 0) \in BOOLEAN
      OBVIOUS
    <3> QED
      BY <3>1, Zenon
  <2>15. sign \in BOOLEAN
    BY <2>5
  <2>6. m < Power(DIG_BASE, w) /\ m < Power(Radix, i)
    BY <2>2, <2>3 DEF HasDigits
  <2>7. AreWords(p, w) /\ Positional(p, w) = m
    BY <2>5, <2>6, CutsAre
  <2>8. p \in Seq(0 .. DIG_MAX) /\ Len(p) = w
    <3>1. p \in [1 .. w -> 0 .. DIG_MAX]
      <4>1. \A k \in 1 .. w : p[k] \in 0 .. DIG_MAX
        BY <2>7 DEF AreWords
      <4>2. p = [k \in 1 .. w |-> p[k]]
        BY <2>5 DEF CutWords
      <4> QED
        BY <4>1, <4>2
    <3> QED
      BY <3>1, FunctionSeq
  <2>9. PICK d : d = [sign |-> sign, intg |-> i, frac |-> 0, buf |-> p]
    OBVIOUS
  <2>10. longlong2decimal(n) = d
    <3>1. n \in Int
      OBVIOUS
    <3>2. longlong2decimal(n) =
             [sign |-> n < 0, intg |-> DigitsOf(m, Radix), frac |-> 0,
              buf |-> CutWords(m, DigitsOf(m, DIG_BASE))]
      BY <1>3, <2>1, <3>1, LonglongIs
    <3> QED
      BY <2>2, <2>3, <2>5, <2>9, <3>2
  <2>11. PICK z \in Nat : z = 0
    OBVIOUS
  <2>12. ROUND_UP(z) = z /\ Power(DIG_BASE, z) = 1 /\ Power(Radix, z) = 1
    <3>1. ROUND_UP(z * DIG_PER_DEC1) = z /\ z * DIG_PER_DEC1 = z
      BY <1>0, <2>11, RoundUpWords
    <3> QED
      BY <1>0, <2>11, <3>1, Powers
  <2>13. NumberMade(d, i, z, z, m)
    <3>1. m < Power(Radix, i) * Power(DIG_BASE, z)
      <4>1. Power(Radix, i) \in Nat
        BY <1>0, PowerPositive
      <4> QED
        BY <2>6, <2>12, <4>1
    <3>2. Multiple(m, Power(Radix, z))
      <4>1. m = m * 1 /\ m \in Int
        OBVIOUS
      <4> QED
        BY <2>12, <4>1 DEF Multiple
    <3>3. Len(p) = w + z /\ m = Positional(p, w + z) /\ w = ROUND_UP(i)
      BY <2>4, <2>7, <2>8, <2>11
    <3>4. PICK f \in Nat, t \in Nat : f = z /\ t = z
      OBVIOUS
    <3>5. Len(p) = w + f /\ m = Positional(p, w + f) /\ w = ROUND_UP(i) /\ f = ROUND_UP(z)
          /\ t = f * DIG_PER_DEC1 - z /\ m < Power(Radix, i) * Power(DIG_BASE, f)
          /\ Multiple(m, Power(Radix, t))
      <4>1. f * DIG_PER_DEC1 - z = 0
        BY <1>0, <2>11, <3>4
      <4> QED
        BY <2>11, <2>12, <3>1, <3>2, <3>3, <3>4, <4>1
    <3>6. d = [sign |-> sign, intg |-> i, frac |-> z, buf |-> p]
      BY <2>9, <2>11
    <3>7. NumberMade(d, i, z, f, m)
      BY ONLY <2>8, <3>5, <3>6, <2>15, i \in Nat \ {0}, w \in Nat \ {0}, z \in Nat, f \in Nat,
              t \in Nat, m \in Nat \ {0}, NumberDecimal
    <3> QED
      BY <3>4, <3>7
  <2>14. d \in Decimals /\ d.intg = i /\ ROUND_UP(d.frac) = 0
    BY <2>11, <2>13 DEF NumberMade
  <2>16. w <= DECIMAL_BUFF_LENGTH
    <3> SUFFICES ASSUME DECIMAL_BUFF_LENGTH < w PROVE FALSE
      BY <1>0
    <3>1. PICK h \in Nat : h = w - 1 /\ DECIMAL_BUFF_LENGTH <= h
      BY <1>0
    <3>2. Power(DIG_BASE, DECIMAL_BUFF_LENGTH) <= Power(DIG_BASE, h)
      BY <1>0, <3>1, PowerMonotonic
    <3>3. Power(DIG_BASE, h) <= m
      BY <2>3, <3>1 DEF HasDigits
    <3>4. Power(DIG_BASE, h) \in Nat
      BY <1>0, PowerPositive
    <3> QED
      BY <1>1, <2>1, <3>2, <3>3, <3>4
  <2> QED
    BY <2>4, <2>10, <2>14, <2>16 DEF Fits
<1> QED
  BY <1>2, <1>3

-----------------------------------------------------------------------------
(* Programs.                                                               *)

(* What makes a decimal of a program: as many words as the type says.      *)
LEMMA TypeOKIs ==
    ASSUME acc \in Decimals, Fits(acc)
    PROVE  TypeOK
<1>1. acc \in [sign : BOOLEAN, intg : Nat, frac : Nat, buf : Seq(0 .. DIG_MAX)] /\ WordsOK(acc)
  BY DEF Decimals
<1>2. Len(acc.buf) = ROUND_UP(acc.intg) + ROUND_UP(acc.frac)
  BY <1>1 DEF WordsOK
<1>3. ROUND_UP(acc.intg) \in Nat /\ ROUND_UP(acc.frac) \in Nat
  BY DecimalTypes
<1>4. Len(acc.buf) \in 0 .. DECIMAL_BUFF_LENGTH
  BY <1>2, <1>3, WordAssumption DEF Fits
<1> QED
  BY <1>1, <1>4 DEF TypeOK

(* A literal is a decimal of the type, and so is every longlong2decimal(). *)
LEMMA InitTypes == Init => TypeOK
<1> SUFFICES ASSUME Init PROVE acc \in Decimals /\ Fits(acc)
  BY TypeOKIs
<1>1. CASE acc \in Literals
  BY <1>1, LiteralTypes
<1>2. CASE \E n \in -LonglongHalf .. LonglongHalf - 1 : acc = longlong2decimal(n)
  <2>1. PICK n \in -LonglongHalf .. LonglongHalf - 1 : acc = longlong2decimal(n)
    BY <1>2
  <2>2. longlong2decimal(n) \in Decimals /\ Fits(longlong2decimal(n))
    BY LonglongTypes
  <2> QED
    BY <2>1, <2>2
<1> QED
  BY <1>1, <1>2 DEF Init

(* No operation, in either order of its operands, leaves the type: not one *)
(* that cuts, and not one that answers without words.                      *)
LEMMA StepTypes == TypeOK /\ [Next]_acc => TypeOK'
<1> SUFFICES ASSUME TypeOK, [Next]_acc
             PROVE  \E a : a = acc' /\ a \in Decimals /\ Fits(a)
  <2>1. acc' \in Decimals /\ Fits(acc') => TypeOK'
    <3>1. ASSUME acc' \in Decimals, Fits(acc')
          PROVE  TypeOK'
      <4>1. /\ acc' \in [sign : BOOLEAN, intg : Nat, frac : Nat, buf : Seq(0 .. DIG_MAX)]
            /\ WordsOK(acc')
        BY <3>1 DEF Decimals
      <4>2. Len(acc'.buf) = ROUND_UP(acc'.intg) + ROUND_UP(acc'.frac)
        BY <4>1 DEF WordsOK
      <4>3. ROUND_UP(acc'.intg) \in Nat /\ ROUND_UP(acc'.frac) \in Nat
        <5>1. PICK a : a = acc'
          OBVIOUS
        <5>2. ROUND_UP(a.intg) \in Nat /\ ROUND_UP(a.frac) \in Nat
          BY <3>1, <5>1, DecimalTypes
        <5> QED
          BY <5>1, <5>2
      <4>4. Len(acc'.buf) \in 0 .. DECIMAL_BUFF_LENGTH
        BY <3>1, <4>2, <4>3, WordAssumption DEF Fits
      <4> QED
        BY <4>1, <4>4 DEF TypeOK
    <3> QED
      BY <3>1
  <2> QED
    BY <2>1
<1>1. PICK a : a = acc /\ a \in Decimals /\ Fits(a)
  BY AccTypes
<1>2. CASE Negate
  <2>1. acc' = decimal_neg(a)
    BY <1>1, <1>2 DEF Negate
  <2>2. decimal_neg(a) \in Decimals /\ Fits(decimal_neg(a))
    BY <1>1, NegIs
  <2> QED
    BY <2>1, <2>2
<1>3. ASSUME NEW x \in Literals, Add(x)
      PROVE  \E b : b = acc' /\ b \in Decimals /\ Fits(b)
  <2>1. x \in Decimals /\ Fits(x)
    BY LiteralTypes
  <2>2. PICK r \in {decimal_add(a, x), decimal_add(x, a)} : acc' = r.to
    BY <1>1, <1>3 DEF Add
  <2>3. Honest(decimal_add(a, x), a, x) /\ Honest(decimal_add(x, a), x, a)
    BY <1>1, <2>1, AddIsHonest
  <2>4. r.to \in Decimals /\ Fits(r.to)
    <3>1. CASE r = decimal_add(a, x)
      <4>1. Honest(r, a, x)
        BY <2>3, <3>1, Zenon
      <4> QED
        BY <4>1 DEF Honest
    <3>2. CASE r = decimal_add(x, a)
      <4>1. Honest(r, x, a)
        BY <2>3, <3>2, Zenon
      <4> QED
        BY <4>1 DEF Honest
    <3> QED
      BY <2>2, <3>1, <3>2
  <2> QED
    BY <2>2, <2>4
<1>4. ASSUME NEW x \in Literals, Mul(x)
      PROVE  \E b : b = acc' /\ b \in Decimals /\ Fits(b)
  <2>1. x \in Decimals /\ Fits(x)
    BY LiteralTypes
  <2>2. PICK r \in {decimal_mul(a, x), decimal_mul(x, a)} : r.error < E_DEC_OVERFLOW /\ acc' = r.to
    BY <1>1, <1>4 DEF Mul, Take
  <2>3. r.error # E_DEC_OVERFLOW
    BY <2>2 DEF E_DEC_OVERFLOW
  <2>4. /\ decimal_mul(a, x).error # E_DEC_OVERFLOW =>
             decimal_mul(a, x).to \in Decimals /\ Fits(decimal_mul(a, x).to)
        /\ decimal_mul(x, a).error # E_DEC_OVERFLOW =>
             decimal_mul(x, a).to \in Decimals /\ Fits(decimal_mul(x, a).to)
    BY <1>1, <2>1, MulIsHonest
  <2>5. r.to \in Decimals /\ Fits(r.to)
    <3>1. r = decimal_mul(a, x) \/ r = decimal_mul(x, a)
      BY <2>2
    <3> QED
      BY <2>3, <2>4, <3>1, Zenon
  <2> QED
    BY <2>2, <2>5
<1>5. ASSUME NEW x \in Literals, NEW incr \in ScaleIncrs, Div(x, incr)
      PROVE  \E b : b = acc' /\ b \in Decimals /\ Fits(b)
  <2>1. x \in Decimals /\ Fits(x) /\ incr \in Nat
    BY LiteralTypes, ScaleAssumption
  <2>2. PICK r \in {decimal_div(a, x, incr), decimal_div(x, a, incr)} :
          r.error < E_DEC_OVERFLOW /\ acc' = r.to
    BY <1>1, <1>5 DEF Div, Take
  <2>3. DivAnswer(decimal_div(a, x, incr), a, x, incr) /\ DivAnswer(decimal_div(x, a, incr), x, a, incr)
    BY <1>1, <2>1, DivIsHonest
  <2>4. DivAnswer(r, a, x, incr) \/ DivAnswer(r, x, a, incr)
    <3>1. r = decimal_div(a, x, incr) \/ r = decimal_div(x, a, incr)
      BY <2>2
    <3> QED
      BY <2>3, <3>1, Zenon
  <2>5. r.to \in Decimals /\ Fits(r.to)
    BY <2>2, <2>4, Zenon DEF DivAnswer
  <2> QED
    BY <2>2, <2>5
<1>6. ASSUME NEW x \in Literals, Mod(x)
      PROVE  \E b : b = acc' /\ b \in Decimals /\ Fits(b)
  <2>1. x \in Decimals /\ Fits(x)
    BY LiteralTypes
  <2>2. PICK r \in {decimal_mod(a, x), decimal_mod(x, a)} : r.error < E_DEC_OVERFLOW /\ acc' = r.to
    BY <1>1, <1>6 DEF Mod, Take
  <2>3. ModAnswer(decimal_mod(a, x), a, x) /\ ModAnswer(decimal_mod(x, a), x, a)
    BY <1>1, <2>1, ModIsHonest
  <2>4. ModAnswer(r, a, x) \/ ModAnswer(r, x, a)
    <3>1. r = decimal_mod(a, x) \/ r = decimal_mod(x, a)
      BY <2>2
    <3> QED
      BY <2>3, <3>1, Zenon
  <2>5. r.to \in Decimals /\ Fits(r.to)
    BY <2>2, <2>4, Zenon DEF ModAnswer
  <2> QED
    BY <2>2, <2>5
<1>7. CASE UNCHANGED acc
  BY <1>1, <1>7
<1> QED
  BY <1>2, <1>3, <1>4, <1>5, <1>6, <1>7 DEF Next

(* Whatever a program computes, from a literal or a longlong and by any    *)
(* operations, every word is a word, there are as many as intg and frac    *)
(* say and the buffer holds, and no digit is beyond those they admit.      *)
THEOREM TypeCorrect == Spec => []TypeOK
<1> QED
  BY InitTypes, StepTypes, PTL DEF Spec

(* decimal_add() and decimal_neg(): along every program a sum with a       *)
(* literal is exact, or reports an error as large as it says, and none     *)
(* where the precision is guaranteed.                                      *)
THEOREM SumsStayHonest == Spec => []SumIsHonest
<1> QED
  BY TypeCorrect, SumIsRight, PTL

(* decimal_cmp() orders every decimal a program reaches.                   *)
THEOREM ComparisonsStayRight == Spec => []CmpIsOrder
<1> QED
  BY TypeCorrect, CmpIsRight, PTL

(* decimal2longlong() truncates every decimal a program reaches, and stops *)
(* at the ends of the range.                                               *)
THEOREM TruncationsStayRight == Spec => []LonglongIsTrunc
<1> QED
  BY TypeCorrect, LonglongIsRight, PTL

(* decimal_mul(): along every program a product says what it has lost.     *)
THEOREM ProductsStayHonest == Spec => []ProductIsHonest
<1> QED
  BY TypeCorrect, ProductIsRight, PTL

(* decimal_result_size(): the size it gives stays enough.                  *)
THEOREM SizesStayEnough == Spec => []SizeIsEnough
<1> QED
  BY TypeCorrect, SizeIsRight, PTL

(* decimal_div() and decimal_mod(): along every program the quotient is    *)
(* the exact one cut after its last word, and the remainder exact.         *)
THEOREM DivisionsStayExact == Spec => []DivisionIsExact
<1> QED
  BY TypeCorrect, DivisionIsRight, PTL
=============================================================================
