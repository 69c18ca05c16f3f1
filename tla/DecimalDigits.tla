---------------------------- MODULE DecimalDigits ----------------------------
(***************************************************************************)
(* decimal_round() and decimal_shift(), which work in place.  A decimal is *)
(* its whole buffer here, digit by digit, with what earlier operations     *)
(* left in the words it does not use: d[0] is the first digit of the first *)
(* word.  The point stands before d[Point(x)].                             *)
(***************************************************************************)
EXTENDS Integers, FiniteSetsExt

CONSTANTS
    Radix,                  \* of a digit; 10
    DIG_PER_DEC1,           \* digits of a word; 9
    DECIMAL_BUFF_LENGTH     \* words of a buffer; 9

ASSUME BufferAssumption ==
    /\ Radix \in Nat \ {0, 1} /\ Radix % 2 = 0
    /\ DIG_PER_DEC1 \in Nat \ {0}
    /\ DECIMAL_BUFF_LENGTH \in Nat \ {0}

E_DEC_OK == 0
E_DEC_TRUNCATED == 1
E_DEC_OVERFLOW == 2

Digits == DECIMAL_BUFF_LENGTH * DIG_PER_DEC1

Places == 0 .. Digits - 1

ROUND_UP(x) == (x + DIG_PER_DEC1 - 1) \div DIG_PER_DEC1

Point(x) == ROUND_UP(x.intg) * DIG_PER_DEC1

(* The place behind the words of x. *)
End(x) == Point(x) + ROUND_UP(x.frac) * DIG_PER_DEC1

(* The word a place is in, and that word without its digits. *)
WordAt(p) == p \div DIG_PER_DEC1

FirstOf(w) == w * DIG_PER_DEC1

Nonzero(d, from, to) == {p \in from .. to - 1 : d[p] # 0}

(* d with zeros from place from to place to - 1. *)
Cleared(d, from, to) == [p \in Places |-> IF from <= p /\ p < to THEN 0 ELSE d[p]]

Done(x, err) == [to |-> x, error |-> err]

(* decimal_make_zero() writes one word. *)
MakeZero(x) ==
    [sign |-> FALSE, intg |-> 1, frac |-> 0, d |-> Cleared(x.d, 0, DIG_PER_DEC1)]

-----------------------------------------------------------------------------
(* Rounding. *)

Modes == {"TRUNCATE", "HALF_EVEN", "HALF_UP", "CEILING", "FLOOR"}

\* Seeded fault: a half is not enough.
FaultyIncrements(x, k, mode) ==
    LET half == Radix \div 2
    IN  CASE mode \in {"HALF_UP", "HALF_EVEN"} -> x.d[k] > half
          [] (mode = "CEILING" /\ ~x.sign) \/ (mode = "FLOOR" /\ x.sign) ->
               Nonzero(x.d, k, IF k % DIG_PER_DEC1 = 0 THEN End(x) ELSE k + 1) # {}
          [] OTHER -> FALSE

(* Whether the digits from place k on, the first to go, add one to those   *)
(* before: at the end of a word the directed modes look at all of them,    *)
(* within a word only at the first one; the others never look farther.     *)
Increments(x, k, mode) ==
    LET half == Radix \div 2
        odd  == k > 0 /\ x.d[k - 1] % 2 = 1
    IN  CASE mode \in {"HALF_UP", "HALF_EVEN"} ->
               x.d[k] > half \/ (x.d[k] = half /\ (mode = "HALF_UP" \/ odd))
          [] (mode = "CEILING" /\ ~x.sign) \/ (mode = "FLOOR" /\ x.sign) ->
               Nonzero(x.d, k, IF k % DIG_PER_DEC1 = 0 THEN End(x) ELSE k + 1) # {}
          [] OTHER -> FALSE

(* A carry out of the first word moves the words one place down to make    *)
(* room for it; in a full buffer the last word of the fraction goes.       *)
CarriedOut(x, scale, frac0, err) ==
    LET full == frac0 + ROUND_UP(x.intg) >= DECIMAL_BUFF_LENGTH
        f == IF full THEN frac0 - 1 ELSE frac0
        last == FirstOf(ROUND_UP(x.intg) + Max({f, 0}) + 1)
    IN  [x     |-> [x EXCEPT !.intg = @ + 1,
                             !.d = [p \in Places |->
                                     CASE p < DIG_PER_DEC1 ->
                                            IF p = DIG_PER_DEC1 - 1 THEN 1 ELSE 0
                                       [] p >= DIG_PER_DEC1 /\ p < last -> @[p - DIG_PER_DEC1]
                                       [] OTHER -> @[p]]],
         intg0 |-> ROUND_UP(x.intg) + 1,
         frac0 |-> f,
         scale |-> IF full THEN f * DIG_PER_DEC1 ELSE scale,
         error |-> IF full THEN E_DEC_TRUNCATED ELSE err]

\* Seeded fault: 999.9 becomes 1000 with three digits before the point.
FaultyFinish(x, w, frac1, intg0, frac0, scale, err) ==
    LET cleared == IF frac0 < frac1 THEN Cleared(x.d, FirstOf(intg0 + frac0), Digits)
                   ELSE x.d
    IN  Done([x EXCEPT !.d = cleared, !.frac = Max({scale, 0})], err)

(* The end of a rounding that left a number in x, w the word it looked at  *)
(* last: the words behind it are cleared, and if w is larger than the      *)
(* digits before the point admit they are one more.                        *)
Finish(x, w, frac1, intg0, frac0, scale, err) ==
    LET first_dig == x.intg % DIG_PER_DEC1
        grown == /\ first_dig # 0
                 /\ Nonzero(x.d, FirstOf(w), FirstOf(w + 1) - first_dig) # {}
        cleared == IF frac0 < frac1 THEN Cleared(x.d, FirstOf(intg0 + frac0), Digits)
                   ELSE x.d
    IN  Done([x EXCEPT !.d = cleared,
                       !.intg = IF grown THEN @ + 1 ELSE @,
                       !.frac = Max({scale, 0})], err)

(* The digits from place k on go; x is to hold the result.                 *)
Cut(x, k, scale, frac0, mode, err) ==
    LET frac1 == ROUND_UP(x.frac)
        intg0 == ROUND_UP(x.intg)
        inc   == Increments(x, k, mode)
        rest  == Cleared(x.d, k, IF k % DIG_PER_DEC1 = 0 THEN k ELSE FirstOf(WordAt(k) + 1))
        below == {p \in 0 .. k - 1 : x.d[p] # Radix - 1}
        j     == Max(below)
        carry == CarriedOut([x EXCEPT !.d = Cleared(rest, 0, Max({k, DIG_PER_DEC1}))],
                            scale, frac0, err)
        kept  == Nonzero(rest, 0, k)
    IN  CASE inc /\ below = {} ->
               Finish(carry.x, 0, frac1, carry.intg0, carry.frac0, carry.scale, carry.error)
          [] inc /\ below # {} ->
               Finish([x EXCEPT !.d = [Cleared(rest, j + 1, k) EXCEPT ![j] = @ + 1]],
                      WordAt(j), frac1, intg0, frac0, scale, err)
          [] ~inc /\ frac0 + intg0 = 0 -> Done(MakeZero(x), E_DEC_OK)
          [] ~inc /\ frac0 + intg0 # 0 /\ kept = {} ->
               Done([sign |-> FALSE, intg |-> 1, frac |-> Max({scale, 0}),
                     d |-> Cleared(rest, 0, FirstOf(frac0 + 1))], E_DEC_OK)
          [] OTHER ->
               Finish([x EXCEPT !.d = rest], WordAt(Max(kept)),
                      frac1, intg0, frac0, scale, err)

(* decimal_round() of from to digits of the fraction, or to tens, hundreds *)
(* ... if it is negative; into the buffer of to, of which what follows the *)
(* words it copies stays.                                                  *)
RoundFrom(x, scale, frac0, mode, err) ==
    CASE frac0 > ROUND_UP(x.frac) ->
           Done([x EXCEPT !.frac = scale, !.d = Cleared(@, End(x), Point(x) + FirstOf(frac0))],
                err)
      [] frac0 <= ROUND_UP(x.frac) /\ scale >= x.frac -> Done([x EXCEPT !.frac = scale], err)
      [] OTHER -> Cut(x, Point(x) + scale, scale, frac0, mode, err)

decimal_round(from, to, inplace, new_scale, mode) ==
    LET intg0 == ROUND_UP(from.intg)
        over  == ROUND_UP(new_scale) + intg0 > DECIMAL_BUFF_LENGTH
        frac0 == IF over THEN DECIMAL_BUFF_LENGTH - intg0 ELSE ROUND_UP(new_scale)
        scale == IF over THEN FirstOf(frac0) ELSE new_scale
        err   == IF over THEN E_DEC_TRUNCATED ELSE E_DEC_OK
        copied == FirstOf(intg0 + Max({ROUND_UP(from.frac), frac0}))
        copy  == [sign |-> from.sign, intg |-> FirstOf(intg0), frac |-> from.frac,
                  d |-> [p \in Places |-> IF p < copied THEN from.d[p] ELSE to.d[p]]]
    IN  CASE scale + from.intg < 0 -> Done(MakeZero(IF inplace THEN from ELSE to), E_DEC_OK)
          [] OTHER -> RoundFrom(IF inplace THEN from ELSE copy, scale, frac0, mode, err)

-----------------------------------------------------------------------------
(* Shifting. *)

(* digits_bounds(): the places of the first digit that is not zero, and    *)
(* behind the last one.                                                    *)
Bounds(x) ==
    LET nz == Nonzero(x.d, 0, End(x))
    IN  IF nz = {} THEN [beg |-> 0, end |-> 0]
        ELSE [beg |-> Min(nz), end |-> Max(nz) + 1]

(* do_mini_left_shift(): the words from that of beg to the last one move   *)
(* by less than a word, what leaves them at the front fills the word       *)
(* before; no more than the last word is looked at.                        *)
MiniLeft(d, shift, beg, end) ==
    LET from == FirstOf(WordAt(beg))
        stop == FirstOf(ROUND_UP(end))
        enters == IF beg % DIG_PER_DEC1 < shift THEN from - DIG_PER_DEC1 ELSE from
    IN  [p \in Places |->
           IF p < enters \/ p >= stop THEN d[p]
           ELSE IF p + shift \in from .. stop - 1 THEN d[p + shift] ELSE 0]

(* do_mini_right_shift(), the other way round. *)
MiniRight(d, shift, beg, end) ==
    LET from == FirstOf(WordAt(beg))
        stop == FirstOf(ROUND_UP(end))
        enters == IF stop - end < shift THEN stop + DIG_PER_DEC1 ELSE stop
    IN  [p \in Places |->
           IF p < from \/ p >= enters THEN d[p]
           ELSE IF p - shift \in from .. stop - 1 THEN d[p - shift] ELSE 0]

(* The state of a shift: the digits d, their bounds, and where the point   *)
(* is to be.                                                               *)
Moved(s, d, by) ==
    [d |-> d, beg |-> s.beg + by, end |-> s.end + by, new_point |-> s.new_point + by]

(* The digits are brought into line with the words: to the left if there   *)
(* is room and the shift is to the left, or if there is none on the right. *)
MiniShift(s, shift) ==
    LET left  == shift % DIG_PER_DEC1
        right == DIG_PER_DEC1 - left
        do_left == IF shift > 0 THEN left <= s.beg ELSE Digits - s.end < right
    IN  IF do_left THEN Moved(s, MiniLeft(s.d, left, s.beg, s.end), -left)
        ELSE Moved(s, MiniRight(s.d, right, s.beg, s.end), right)

(* How many places whole words move so that the first digit is in the      *)
(* first word, or the zeros before it have their place.                    *)
MoveBy(new_front) ==
    CASE new_front \in 0 .. DIG_PER_DEC1 - 1 -> 0
      [] new_front >= DIG_PER_DEC1 -> -FirstOf(WordAt(new_front))
      [] new_front < 0 -> FirstOf(WordAt(1 - new_front))

(* The words with digits move; all they leave or pass is cleared.          *)
MoveWords(s, by) ==
    LET from == FirstOf(WordAt(s.beg))
        stop == FirstOf(ROUND_UP(s.end))
    IN  Moved(s,
              [p \in Places |->
                 CASE p - by \in from .. stop - 1 -> s.d[p - by]
                   [] /\ p - by \notin from .. stop - 1
                      /\ p \in Min({from, from + by}) .. Max({stop, stop + by}) - 1 -> 0
                   [] OTHER -> s.d[p]],
              by)

\* Seeded fault: the gap keeps what was there.
FaultyFillGap(s) == s.d

(* The words between the digits and the point are cleared, on the side the *)
(* point is.                                                               *)
FillGap(s) ==
    LET beg == WordAt(s.beg)
        end == ROUND_UP(s.end) - 1
        np  == IF s.new_point = 0 THEN 0 ELSE ROUND_UP(s.new_point) - 1
    IN  IF np > end THEN Cleared(s.d, FirstOf(end + 1), FirstOf(np + 1))
        ELSE Cleared(s.d, FirstOf(np), FirstOf(beg))

(* The digits from s.beg to s.end with the point at s.new_point, where     *)
(* they are not far from.                                                  *)
Align(x, s, shift, err) ==
    LET digits_int  == Max({s.new_point - s.beg, 0})
        digits_frac == Max({s.end - s.new_point, 0})
        t == IF shift % DIG_PER_DEC1 = 0 THEN s ELSE MiniShift(s, shift)
        done == shift % DIG_PER_DEC1 # 0 /\ shift = s.new_point - t.new_point
                  /\ t.new_point - digits_int < DIG_PER_DEC1
        u == MoveWords(t, MoveBy(t.new_point - digits_int))
    IN  Done([sign |-> x.sign, intg |-> digits_int, frac |-> digits_frac,
              d |-> IF done THEN t.d ELSE FillGap(u)], err)

(* A number that was rounded, without the last diff digits of s.  Bounds   *)
(* and point are those from before.                                        *)
Realign(rounded, s, shift, frac_len, diff) ==
    IF s.end - diff <= s.beg THEN Done(MakeZero(rounded), E_DEC_TRUNCATED)
    ELSE LET r == Align(rounded, [s EXCEPT !.d = rounded.d, !.end = s.end - diff],
                        shift, E_DEC_TRUNCATED)
         IN  Done([r.to EXCEPT !.frac = FirstOf(frac_len)], r.error)

\* Seeded fault: what is lost is cut off, not rounded.
FaultyShorten(x, s, shift, frac_len) ==
    LET diff == (s.end - s.new_point) - FirstOf(frac_len)
    IN  Realign(decimal_round(x, x, TRUE, s.end - Point(x) - diff, "TRUNCATE").to,
                s, shift, frac_len, diff)

(* The words of the result there is no room for go from the fraction, of   *)
(* which frac_len words are left: the number is rounded first.             *)
Shorten(x, s, shift, frac_len) ==
    LET diff == (s.end - s.new_point) - FirstOf(frac_len)
    IN  Realign(decimal_round(x, x, TRUE, s.end - Point(x) - diff, "HALF_UP").to,
                s, shift, frac_len, diff)

ShiftBetween(x, s, shift) ==
    LET frac_len == ROUND_UP(Max({s.end - s.new_point, 0}))
        lack == ROUND_UP(Max({s.new_point - s.beg, 0})) + frac_len - DECIMAL_BUFF_LENGTH
    IN  CASE lack > frac_len -> Done(x, E_DEC_OVERFLOW)
          [] lack \in 1 .. frac_len -> Shorten(x, s, shift, frac_len - lack)
          [] OTHER -> Align(x, s, shift, E_DEC_OK)

(* decimal_shift(): x times Radix ^ shift. *)
decimal_shift(x, shift) ==
    LET b == Bounds(x)
    IN  CASE shift = 0 -> Done(x, E_DEC_OK)
          [] shift # 0 /\ b.beg = b.end -> Done(MakeZero(x), E_DEC_OK)
          [] OTHER ->
               ShiftBetween(x, [d |-> x.d, beg |-> b.beg, end |-> b.end,
                                new_point |-> Point(x) + shift], shift)
=============================================================================
