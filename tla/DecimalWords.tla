---------------------------- MODULE DecimalWords ----------------------------
(***************************************************************************)
(* Decimals as words of DIG_PER_DEC1 digits in buffers of                  *)
(* DECIMAL_BUFF_LENGTH words, the decimal point on the border of two       *)
(* words, and their addition, subtraction and comparison.  A result that   *)
(* does not fit loses words of its fraction, or all of it, and says so.    *)
(* The modules about the library share these definitions.                  *)
(***************************************************************************)
EXTENDS Integers, SequencesExt

CONSTANTS
    Radix,                  \* of a digit; 10
    DIG_PER_DEC1,           \* digits of a word; 9
    DECIMAL_BUFF_LENGTH,    \* words of a buffer; 9
    Shapes                  \* the pairs <<intg, frac>> of the literals

(* powers10[] *)
Power(b, n) ==
    LET p[k \in Nat] == IF k = 0 THEN 1 ELSE p[k - 1] * b
    IN  p[n]

DIG_BASE == Power(Radix, DIG_PER_DEC1)
DIG_MAX  == DIG_BASE - 1

ASSUME WordAssumption ==
    /\ Radix \in Nat \ {0, 1}
    /\ DIG_PER_DEC1 \in Nat \ {0, 1}
    /\ DECIMAL_BUFF_LENGTH \in Nat \ {0}
    /\ Shapes \subseteq (Nat \X Nat) \ {<<0, 0>>}

E_DEC_OK == 0
E_DEC_TRUNCATED == 1
E_DEC_OVERFLOW == 2
E_DEC_DIV_ZERO == 4

-----------------------------------------------------------------------------
(* Buffers.  buf[1] is the most significant word; the word at position 0   *)
(* counts ones, positions below are the words before it.                   *)

ROUND_UP(x) == (x + DIG_PER_DEC1 - 1) \div DIG_PER_DEC1

Word(d, p) ==
    LET k == p + ROUND_UP(d.intg) IN IF k \in DOMAIN d.buf THEN d.buf[k] ELSE 0

(* As many words as intg and frac say; no more digits in the first and the *)
(* last one than they say.                                                 *)
WordsOK(d) ==
    /\ Len(d.buf) = ROUND_UP(d.intg) + ROUND_UP(d.frac)
    /\ \A k \in DOMAIN d.buf : d.buf[k] \in 0 .. DIG_MAX
    /\ d.intg % DIG_PER_DEC1 # 0 =>
         d.buf[1] < Power(Radix, d.intg % DIG_PER_DEC1)
    /\ d.frac % DIG_PER_DEC1 # 0 =>
         Last(d.buf) % Power(Radix, DIG_PER_DEC1 - (d.frac % DIG_PER_DEC1)) = 0

decimal_is_zero(d) == \A k \in DOMAIN d.buf : d.buf[k] = 0

Zero == [sign |-> FALSE, intg |-> 1, frac |-> 0, buf |-> <<0>>]

(* max_decimal() of the whole buffer, without a fraction. *)
MaxDecimal ==
    [sign |-> FALSE, intg |-> DECIMAL_BUFF_LENGTH * DIG_PER_DEC1, frac |-> 0,
     buf |-> [k \in 1 .. DECIMAL_BUFF_LENGTH |-> DIG_MAX]]

(* The words read as one number, the last one counting ones. *)
Positional(w, n) ==
    LET v[k \in 0 .. n] == IF k = 0 THEN 0 ELSE v[k - 1] * DIG_BASE + w[k]
    IN  v[n]

Mantissa(d) == Positional(d.buf, Len(d.buf))

(* The literals string2decimal() makes of the given shapes: before the     *)
(* point, digits of more than a word do not begin with two zeros.          *)
Literals ==
    UNION { { d \in [sign : BOOLEAN, intg : {s[1]}, frac : {s[2]},
                     buf : [1 .. ROUND_UP(s[1]) + ROUND_UP(s[2]) -> 0 .. DIG_MAX]] :
              /\ WordsOK(d)
              /\ s[1] > DIG_PER_DEC1 =>
                   Mantissa(d) >= Power(Radix, s[1] - 2) * Power(DIG_BASE, ROUND_UP(s[2]))
              /\ d.sign => ~decimal_is_zero(d) } : s \in Shapes }

-----------------------------------------------------------------------------
(* Addition. *)

(* FIX_INTG_FRAC_ERROR: the words there is room for. *)
FixIntgFrac(intg, frac) ==
    CASE intg + frac <= DECIMAL_BUFF_LENGTH ->
           [intg |-> intg, frac |-> frac, error |-> E_DEC_OK]
      [] intg > DECIMAL_BUFF_LENGTH ->
           [intg |-> DECIMAL_BUFF_LENGTH, frac |-> 0, error |-> E_DEC_OVERFLOW]
      [] OTHER ->
           [intg |-> intg, frac |-> DECIMAL_BUFF_LENGTH - intg,
            error |-> E_DEC_TRUNCATED]

(* The decimal of the words word[1 - fix.intg], ..., word[fix.frac]. *)
Result(sign, frac, fix, word) ==
    [to    |-> [sign |-> sign,
                intg |-> fix.intg * DIG_PER_DEC1,
                frac |-> Min({frac, fix.frac * DIG_PER_DEC1}),
                buf  |-> [k \in 1 .. fix.intg + fix.frac |-> word[k - fix.intg]]],
     error |-> fix.error]

(* The first words of a and b together, if they stand at one position. *)
TopWords(a, b) ==
    LET ia == ROUND_UP(a.intg)
        ib == ROUND_UP(b.intg)
    IN  (IF ia >= ib THEN Word(a, 1 - ia) ELSE 0) + (IF ib >= ia THEN Word(b, 1 - ib) ELSE 0)

(* ADD: the sums of the words at the positions from first to last, each    *)
(* with the carry of the one after it.                                     *)
ADD(a, b, first, last) ==
    LET sum[p \in first .. last + 1] ==
            IF p > last THEN 0
            ELSE Word(a, p) + Word(b, p) + sum[p + 1] \div DIG_BASE
    IN  sum

(* The words before the point and behind it that either has. *)
IntgOf(a, b) == Max({ROUND_UP(a.intg), ROUND_UP(b.intg)})
FracOf(a, b) == Max({ROUND_UP(a.frac), ROUND_UP(b.frac)})

\* Seeded fault: no word is added if only a carry can fill it.
FaultySumFix(a, b) ==
    FixIntgFrac(IF TopWords(a, b) > DIG_MAX THEN IntgOf(a, b) + 1 ELSE IntgOf(a, b), FracOf(a, b))

(* The words of a sum: one of its own waits for the last carry if the      *)
(* first words could make one.                                             *)
SumFix(a, b) ==
    FixIntgFrac(IF TopWords(a, b) > DIG_MAX - 1 THEN IntgOf(a, b) + 1 ELSE IntgOf(a, b), FracOf(a, b))

(* do_add(): the sum of the magnitudes with the sign of a.  The words that *)
(* were cut are not added.                                                 *)
DoAdd(a, b) ==
    LET intg == IntgOf(a, b)
        fix  == SumFix(a, b)
        sum  == ADD(a, b, 1 - intg, fix.frac)
        word[p \in 1 - fix.intg .. fix.frac] ==
            IF p < 1 - intg THEN sum[p + 1] \div DIG_BASE ELSE sum[p] % DIG_BASE
    IN  IF fix.error = E_DEC_OVERFLOW THEN [to |-> MaxDecimal, error |-> fix.error]
        ELSE Result(a.sign, Max({a.frac, b.frac}), fix, word)

-----------------------------------------------------------------------------
(* Subtraction and comparison. *)

(* Words of a and b at all positions either has. *)
Positions(a, b) == 1 - IntgOf(a, b) .. FracOf(a, b)

(* The magnitude of a is less than that of b: do_sub() looks at the words  *)
(* before the point that are left without leading zeros, then at the first *)
(* words that differ.                                                      *)
Less(a, b) ==
    \E p \in Positions(a, b) :
        /\ Word(a, p) < Word(b, p)
        /\ \A q \in Positions(a, b) : q < p => Word(a, q) = Word(b, q)

SameMagnitude(a, b) == \A p \in Positions(a, b) : Word(a, p) = Word(b, p)

(* The words before the point without leading zeros. *)
IntgWords(d) ==
    Max({0} \cup {1 - p : p \in {q \in 1 - ROUND_UP(d.intg) .. 0 : Word(d, q) # 0}})

(* SUB: the differences of the words at those positions, with the borrows. *)
SUB(a, b, first, last) ==
    LET diff[p \in first .. last + 1] ==
            IF p > last THEN 0
            ELSE Word(a, p) - Word(b, p) + diff[p + 1] \div DIG_BASE
    IN  diff

\* Seeded fault: a borrow does not bring the word back into range.
FaultyDifference(big, small, sign) ==
    LET fix == FixIntgFrac(IntgWords(big), FracOf(big, small))
        word[p \in 1 - fix.intg .. fix.frac] == Word(big, p) - Word(small, p)
    IN  Result(sign, Max({big.frac, small.frac}), fix, word)

(* The words that were cut are not subtracted. *)
Difference(big, small, sign) ==
    LET fix  == FixIntgFrac(IntgWords(big), FracOf(big, small))
        diff == SUB(big, small, 1 - fix.intg, fix.frac)
        word[p \in 1 - fix.intg .. fix.frac] == diff[p] % DIG_BASE
    IN  Result(sign, Max({big.frac, small.frac}), fix, word)

(* do_sub(): the difference of the magnitudes, with the sign of a if that  *)
(* of a is larger.                                                         *)
DoSub(a, b) ==
    CASE SameMagnitude(a, b) -> [to |-> Zero, error |-> E_DEC_OK]
      [] Less(a, b)          -> Difference(b, a, ~a.sign)
      [] OTHER               -> Difference(a, b, a.sign)

decimal_add(a, b) == IF a.sign = b.sign THEN DoAdd(a, b) ELSE DoSub(a, b)

decimal_sub(a, b) == IF a.sign = b.sign THEN DoSub(a, b) ELSE DoAdd(a, b)

\* Seeded fault: the sum may have no digit more than its operands.
Faultydecimal_result_size(a, b, op, param) ==
    CASE op \in {"+", "-"} ->
           ROUND_UP(Max({a.intg, b.intg})) + ROUND_UP(Max({a.frac, b.frac}))
      [] op = "*" -> ROUND_UP(a.intg + b.intg) + ROUND_UP(a.frac) + ROUND_UP(b.frac)
      [] op = "/" -> ROUND_UP(a.intg + b.intg + 1 + a.frac + b.frac + param)

(* The words a result needs at most, from the digits of the operands. *)
decimal_result_size(a, b, op, param) ==
    CASE op = "-" -> ROUND_UP(Max({a.intg, b.intg})) + ROUND_UP(Max({a.frac, b.frac}))
      [] op = "+" -> ROUND_UP(Max({a.intg, b.intg}) + 1) + ROUND_UP(Max({a.frac, b.frac}))
      [] op = "*" -> ROUND_UP(a.intg + b.intg) + ROUND_UP(a.frac) + ROUND_UP(b.frac)
      [] op = "/" -> ROUND_UP(a.intg + b.intg + 1 + a.frac + b.frac + param)

\* Seeded fault: two zeros are equal.
Faultydecimal_cmp(a, b) ==
    CASE decimal_is_zero(a) /\ decimal_is_zero(b) -> 0
      [] a.sign # b.sign /\ ~(decimal_is_zero(a) /\ decimal_is_zero(b)) ->
           IF a.sign THEN -1 ELSE 1
      [] a.sign = b.sign /\ SameMagnitude(a, b)   -> 0
      [] OTHER -> IF Less(a, b) = a.sign THEN 1 ELSE -1

decimal_cmp(a, b) ==
    CASE a.sign # b.sign                          -> IF a.sign THEN -1 ELSE 1
      [] a.sign = b.sign /\ SameMagnitude(a, b) -> 0
      [] OTHER                                    -> IF Less(a, b) = a.sign THEN 1 ELSE -1

decimal_neg(d) == [d EXCEPT !.sign = ~@]
=============================================================================
