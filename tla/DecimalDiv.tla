----------------------------- MODULE DecimalDiv -----------------------------
(***************************************************************************)
(* do_div_mod(), decimal_div() and decimal_mod() over the words of         *)
(* DecimalWords: Knuth's algorithm D without normalising the operands.     *)
(***************************************************************************)
EXTENDS DecimalWords

-----------------------------------------------------------------------------
(* The operands. *)

(* The words from the first that is not zero. *)
Significant(d) ==
    LET zeros == Max({k \in 0 .. Len(d.buf) : \A i \in 1 .. k : d.buf[i] = 0})
    IN  SubSeq(d.buf, zeros + 1, Len(d.buf))

(* Digits from the first that is not zero to the end of the last word. *)
Prec(d) ==
    LET w == Significant(d)
    IN  (Len(w) - 1) * DIG_PER_DEC1
          + (CHOOSE k \in 1 .. DIG_PER_DEC1 : Power(Radix, k - 1) <= w[1] /\ w[1] < Power(Radix, k))

(* The digits of the words after the point. *)
FracDigits(d) == ROUND_UP(d.frac) * DIG_PER_DEC1

(* The words of the divisor without the zeros at the end. *)
Divisor(d) ==
    LET w == Significant(d) IN SubSeq(w, 1, Max({k \in DOMAIN w : w[k] # 0}))

(* Digits of the quotient before the point; negative if it has zeros after it. *)
IntgDigits(a, b) ==
    (Prec(a) - FracDigits(a)) - (Prec(b) - FracDigits(b))
      + IF Significant(a)[1] >= Significant(b)[1] THEN 1 ELSE 0

(* What is left of scale_incr if fractions are counted in words. *)
Increment(a, b, scale_incr) ==
    Max({0, scale_incr - (FracDigits(a) - a.frac) - (FracDigits(b) - b.frac)})

(* tmp1: the dividend and the zeros the quotient may need. *)
Dividend(a, b, incr) ==
    LET len1 == Max({3, ROUND_UP(Prec(a)) + ROUND_UP(2 * FracDigits(b) + incr + 1) + 1})
    IN  [k \in 1 .. len1 |-> IF k <= Len(Significant(a)) THEN Significant(a)[k] ELSE 0]

-----------------------------------------------------------------------------
(* The main loop.  rem is what is left of tmp1, dcarry the word that stood *)
(* before start1, words the quotient.                                      *)

(* D3: the guess, from two words of rem and the normalised first word of   *)
(* the divisor, corrected at most twice by its second word.                *)
Guess(s, w) ==
    LET norm_factor == DIG_BASE \div (w[1] + 1)
        norm2 == norm_factor * w[1]
                   + IF Len(w) > 1 THEN (norm_factor * w[2]) \div DIG_BASE ELSE 0
        x == s.rem[s.start1] + s.dcarry * DIG_BASE
        y == s.rem[s.start1 + 1]
        first == Min({(norm_factor * x + (norm_factor * y) \div DIG_BASE) \div norm2,
                      DIG_MAX})
        TooLarge(g) == Len(w) > 1 /\ w[2] * g > (x - g * w[1]) * DIG_BASE + y
    IN  CASE ~TooLarge(first)                         -> first
          [] TooLarge(first) /\ ~TooLarge(first - 1) -> first - 1
          [] OTHER                                    -> first - 2

(* The words of rem under the divisor, when n times w is added to them; a  *)
(* carry is negative if n is.                                              *)
MultiplyAdd(s, w, n) ==
    LET sum[k \in 1 .. Len(w) + 1] ==
            IF k > Len(w) THEN 0
            ELSE s.rem[s.start1 + k - 1] + n * w[k] + sum[k + 1] \div DIG_BASE
    IN  [rem   |-> [k \in DOMAIN s.rem |->
                      IF k \in s.start1 .. s.start1 + Len(w) - 1
                      THEN sum[k - s.start1 + 1] % DIG_BASE ELSE s.rem[k]],
         carry |-> sum[1] \div DIG_BASE]

\* Seeded fault: a guess that is one too large stays.
FaultyAddBack(s, w, guess, less) ==
    [rem    |-> less.rem,
     start1 |-> s.start1 + 1,
     dcarry |-> less.rem[s.start1],
     words  |-> Append(s.words, guess)]

(* D5, D6: less is what guess times the divisor left of rem; if the borrow *)
(* is more than the word before, the guess was one too large.              *)
AddBack(s, w, guess, less) ==
    LET back == s.dcarry + less.carry < 0
        rem  == IF back THEN MultiplyAdd([s EXCEPT !.rem = less.rem], w, 1).rem
                ELSE less.rem
    IN  [rem    |-> rem,
         start1 |-> s.start1 + 1,
         dcarry |-> rem[s.start1],
         words  |-> Append(s.words, IF back THEN guess - 1 ELSE guess)]

(* D4 *)
Subtract(s, w, guess) == AddBack(s, w, guess, MultiplyAdd(s, w, -guess))

(* One turn of the loop. *)
NextWord(s, w) ==
    Subtract(s, w, IF s.dcarry = 0 /\ s.rem[s.start1] < w[1] THEN 0 ELSE Guess(s, w))

(* The loop makes n words; a first word of the dividend that is less than  *)
(* that of the divisor is carried into it.                                 *)
Loop(tmp, w, n) ==
    LET turn[i \in 0 .. n] ==
            IF i > 0 THEN NextWord(turn[i - 1], w)
            ELSE IF tmp[1] < w[1]
                 THEN [rem |-> tmp, start1 |-> 2, dcarry |-> tmp[1], words |-> <<>>]
                 ELSE [rem |-> tmp, start1 |-> 1, dcarry |-> 0, words |-> <<>>]
    IN  turn[n]

-----------------------------------------------------------------------------
(* The results. *)

Done(to, err) == [to |-> to, error |-> err]

(* The zero words after the point, if the quotient is that small, then     *)
(* those of the loop, to the end of the fraction there is room for.        *)
Quotient(a, b, incr) ==
    LET dintg == IntgDigits(a, b)
        fix   == FixIntgFrac(Max({0, ROUND_UP(dintg)}),
                             ROUND_UP(FracDigits(a) + FracDigits(b) + incr))
        zeros == Min({Max({0, -ROUND_UP(dintg)}), fix.intg + fix.frac})
        loop  == Loop(Dividend(a, b, incr), Divisor(b), fix.intg + fix.frac - zeros)
    IN  Done([sign |-> a.sign # b.sign,
              intg |-> fix.intg * DIG_PER_DEC1,
              frac |-> fix.frac * DIG_PER_DEC1,
              buf  |-> [k \in 1 .. zeros |-> 0] \o loop.words],
             fix.error)

(* What is left in rem from word start on; intg0 is how many of its words  *)
(* are before the point.  A remainder without any, and a fraction of a     *)
(* full buffer, loses a word.                                              *)
Remainder(a, b, rem, start) ==
    LET intg0 == ROUND_UP(Prec(a) - FracDigits(a)) - (start - 1)
        frac  == Max({a.frac, b.frac})
        frac0 == ROUND_UP(frac)
        room  == IF intg0 <= 0 THEN DECIMAL_BUFF_LENGTH - 1 ELSE DECIMAL_BUFF_LENGTH - intg0
        have  == IF intg0 <= 0 THEN frac0 + intg0 ELSE frac0
        kept  == Min({have, room})
    IN  CASE frac0 = 0 /\ intg0 = 0 -> Done(Zero, E_DEC_OK)
          [] -intg0 >= DECIMAL_BUFF_LENGTH -> Done(Zero, E_DEC_TRUNCATED)
          [] intg0 > DECIMAL_BUFF_LENGTH -> Done(Zero, E_DEC_OVERFLOW)
          [] OTHER ->
               Done([sign |-> a.sign,
                     intg |-> IF intg0 <= 0 THEN 0 ELSE Min({intg0 * DIG_PER_DEC1, b.intg}),
                     frac |-> IF kept < have THEN kept * DIG_PER_DEC1 ELSE frac,
                     buf  |-> [k \in 1 .. Max({0, -intg0}) |-> 0]
                                \o SubSeq(rem, start, start + Max({0, intg0}) + kept - 1)],
                    IF kept < have THEN E_DEC_TRUNCATED ELSE E_DEC_OK)

(* It begins with the word carried last if that is not zero.               *)
LeftBy(a, b, loop) ==
    IF loop.dcarry = 0 THEN Remainder(a, b, loop.rem, loop.start1)
    ELSE Remainder(a, b, [loop.rem EXCEPT ![loop.start1 - 1] = loop.dcarry], loop.start1 - 1)

Modulus(a, b) ==
    LeftBy(a, b, Loop(Dividend(a, b, 0), Divisor(b), Max({0, ROUND_UP(IntgDigits(a, b))})))

decimal_div(a, b, scale_incr) ==
    CASE decimal_is_zero(b) -> Done(a, E_DEC_DIV_ZERO)
      [] decimal_is_zero(a) /\ ~decimal_is_zero(b) -> Done(Zero, E_DEC_OK)
      [] OTHER -> Quotient(a, b, Increment(a, b, scale_incr))

decimal_mod(a, b) ==
    CASE decimal_is_zero(b) -> Done(a, E_DEC_DIV_ZERO)
      [] decimal_is_zero(a) /\ ~decimal_is_zero(b) -> Done(Zero, E_DEC_OK)
      [] OTHER -> Modulus(a, b)
=============================================================================
