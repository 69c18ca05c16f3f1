----------------------------- MODULE DecimalText -----------------------------
(***************************************************************************)
(* A decimal in its buffer, read from a text or made by the library some   *)
(* other way, shifted and rounded in place, one operation after the other, *)
(* and printed.  A text is a sign and the digits before and after a point. *)
(*                                                                         *)
(* my_isdigit() of the program takes no digit but the largest one.  It     *)
(* takes what comes after the digits, too, so that an e in a text is never *)
(* seen as that of an exponent; texts with letters are left out.           *)
(***************************************************************************)
EXTENDS DecimalDigits, SequencesExt

CONSTANTS
    Texts,          \* what is read
    Integers,       \* what longlong2decimal() makes decimals of
    Sums,           \* digits decimal_add() leaves, of any numbers
    Shifts,         \* the shifts and
    Scales          \* the scales of roundings that are tried

ASSUME TextAssumption ==
    /\ Texts \subseteq [sign : BOOLEAN, int : Seq(0 .. Radix - 1), frac : Seq(0 .. Radix - 1)]
    /\ Integers \subseteq -(Radix ^ Digits - 1) .. Radix ^ Digits - 1
    /\ \A t \in Sums :
         /\ t \in [sign : BOOLEAN, int : Seq(0 .. Radix - 1), frac : Seq(0 .. Radix - 1)]
         /\ Len(t.int) % DIG_PER_DEC1 = 0
         /\ Len(t.int) + FirstOf(ROUND_UP(Len(t.frac))) \in 1 .. Digits
    /\ Shifts \subseteq Int /\ Scales \subseteq Int

E_DEC_BAD_NUM == 8

VARIABLE
    x               \* the decimal: [sign, intg, frac, d]

-----------------------------------------------------------------------------
(* Reading. *)

\* c >= '0' && c >= '9'
my_isdigit(c) == c >= 0 /\ c >= Radix - 1

(* What is left of digits that are read up to the first that is none. *)
Scanned(s) ==
    SubSeq(s, 1, Min({i \in DOMAIN s : ~my_isdigit(s[i])} \cup {Len(s) + 1}) - 1)

(* The digits before the point, without the leading zeros if there are two *)
(* of them in more than a word.                                            *)
Trimmed(int) ==
    LET nonzero == {i \in DOMAIN int : int[i] # 0} \cup {Len(int)}
    IN  IF Len(int) > DIG_PER_DEC1 /\ int[1] = 0 /\ int[2] = 0
        THEN SubSeq(int, Min(nonzero), Len(int))
        ELSE int

\* Seeded fault: a text that is too long is cut before the point, too.
FaultyFits(intg, frac) ==
    LET i == ROUND_UP(intg)
        f == ROUND_UP(frac)
    IN  CASE i + f <= DECIMAL_BUFF_LENGTH -> [intg |-> intg, frac |-> frac, error |-> E_DEC_OK]
          [] i > DECIMAL_BUFF_LENGTH ->
               [intg |-> Digits, frac |-> 0, error |-> E_DEC_OVERFLOW]
          [] OTHER ->
               [intg |-> intg, frac |-> Max({Digits - FirstOf(i) - DIG_PER_DEC1, 0}),
                error |-> E_DEC_OK]

(* The digits there is room for.  One word too many takes all of the       *)
(* fraction, or words of it.                                               *)
Fits(intg, frac) ==
    LET i == ROUND_UP(intg)
        f == ROUND_UP(frac)
    IN  CASE i + f <= DECIMAL_BUFF_LENGTH -> [intg |-> intg, frac |-> frac, error |-> E_DEC_OK]
          [] i > DECIMAL_BUFF_LENGTH ->
               [intg |-> Digits, frac |-> 0, error |-> E_DEC_OVERFLOW]
          [] OTHER ->
               [intg |-> intg, frac |-> Digits - FirstOf(i), error |-> E_DEC_TRUNCATED]

(* The last fit.intg digits before the point and the first fit.frac behind *)
(* it, in the words they need; the other words keep what they have.        *)
Stored(to, sign, int, frac, fit) ==
    LET point == FirstOf(ROUND_UP(fit.intg))
        end   == point + FirstOf(ROUND_UP(fit.frac))
    IN  [sign |-> sign, intg |-> fit.intg, frac |-> fit.frac,
         d |-> [p \in Places |->
                  CASE p >= end -> to.d[p]
                    [] p < point - fit.intg -> 0
                    [] p >= point - fit.intg /\ p < point -> int[Len(int) + 1 - (point - p)]
                    [] p >= point /\ p < point + fit.frac -> frac[p - point + 1]
                    [] p >= point + fit.frac /\ p < end -> 0]]

IsZero(y) == Nonzero(y.d, 0, End(y)) = {}

(* A zero has no sign. *)
NoNegativeZero(r) == Done([r.to EXCEPT !.sign = @ /\ ~IsZero(r.to)], r.error)

(* internal_str2dec(): nothing is read of a text that begins without       *)
(* digits, or behind the first character that is out of place.             *)
internal_str2dec(to, text) ==
    LET int  == Trimmed(Scanned(text.int))
        frac == IF Scanned(text.int) = text.int THEN Scanned(text.frac) ELSE << >>
        fit  == Fits(Len(int), Len(frac))
    IN  IF int \o frac = << >> THEN Done(MakeZero(to), E_DEC_BAD_NUM)
        ELSE NoNegativeZero(Done(Stored(to, text.sign, int, frac, fit), fit.error))

(* longlong2decimal(), of fewer digits than a buffer has. *)
longlong2decimal(to, n) ==
    LET a   == IF n < 0 THEN -n ELSE n
        len == Min({k \in 0 .. Digits : a < Radix ^ k})
        int == [i \in 1 .. len |-> (a \div Radix ^ (len - i)) % Radix]
    IN  IF n = 0 THEN MakeZero(to) ELSE Stored(to, n < 0, int, << >>, Fits(len, 0))

-----------------------------------------------------------------------------
(* Printing. *)

(* remove_leading_zeroes(): the place of the first digit before the point. *)
Lead(y) == Min(Nonzero(y.d, 0, Point(y)) \cup {Point(y)})

DigitsOf(d, from, n) == [i \in 1 .. n |-> d[from + i - 1]]

Filler == Radix

Filled(n) == [i \in 1 .. n |-> Filler]

(* The text of intg and frac digits in fields of intg_len and frac_len.    *)
(* The words are counted from that of the first digit.  A 0 stands before  *)
(* a point with nothing before it.                                         *)
Shown(y, intg, frac, intg_len, frac_len) ==
    LET point == FirstOf(WordAt(Lead(y)) + ROUND_UP(intg))
    IN  [sign |-> y.sign,
         int  |-> IF intg = 0 THEN Append(Filled(intg_len - 1), 0)
                  ELSE Filled(intg_len - intg) \o DigitsOf(y.d, point - intg, intg),
         frac |-> IF frac = 0 THEN << >>
                  ELSE DigitsOf(y.d, point, frac) \o Filled(frac_len - frac)]

(* The length of a text of y with intg_len digits and frac behind a point. *)
LengthOf(y, intg_len, frac) ==
    (IF y.sign THEN 1 ELSE 0) + intg_len + (IF frac > 0 THEN 1 + frac ELSE 0)

\* Seeded fault: no room is left for the end of the string.
Faultydecimal2string(y, room) ==
    LET intg == Point(y) - Lead(y)
        intg_len == Max({intg, 1})
        lack == LengthOf(y, intg_len, y.frac) - room
        j    == Max({0, IF y.frac > 0 /\ lack > y.frac THEN lack - 1 ELSE lack})
        frac == Max({0, y.frac - j})
    IN  [text  |-> Shown(y, intg - Max({0, j - y.frac}), frac, intg_len, frac),
         end   |-> LengthOf(y, intg_len, frac),
         error |-> CASE lack <= 0 -> E_DEC_OK
                     [] lack > 0 /\ y.frac > 0 /\ lack <= y.frac + 1 -> E_DEC_TRUNCATED
                     [] OTHER -> E_DEC_OVERFLOW]

(* decimal2string() in a buffer of room characters: what lacks goes from   *)
(* the fraction, with the point if all of it goes, and then from the       *)
(* digits before it; but their field and the end of the string stay where  *)
(* they are.                                                               *)
decimal2string(y, room) ==
    LET intg == Point(y) - Lead(y)
        intg_len == Max({intg, 1})
        lack == LengthOf(y, intg_len, y.frac) - (room - 1)
        j    == Max({0, IF y.frac > 0 /\ lack > y.frac THEN lack - 1 ELSE lack})
        frac == Max({0, y.frac - j})
    IN  [text  |-> Shown(y, intg - Max({0, j - y.frac}), frac, intg_len, frac),
         end   |-> LengthOf(y, intg_len, frac),
         error |-> CASE lack <= 0 -> E_DEC_OK
                     [] lack > 0 /\ y.frac > 0 /\ lack <= y.frac + 1 -> E_DEC_TRUNCATED
                     [] OTHER -> E_DEC_OVERFLOW]

(* The same with a fixed number of digits in all and behind the point,     *)
(* whatever room there is.                                                 *)
decimal2string_fixed(y, precision, decimals) ==
    LET intg == Point(y) - Lead(y)
        fixed_intg == precision - decimals
    IN  [text  |-> Shown(y, Min({intg, fixed_intg}), Min({y.frac, decimals}),
                         Max({fixed_intg, 1}), decimals),
         end   |-> LengthOf(y, Max({fixed_intg, 1}), 0) + (IF y.frac > 0 THEN 1 ELSE 0) + decimals,
         error |-> CASE Max({intg, IF y.frac = 0 THEN 1 ELSE 0}) > fixed_intg -> E_DEC_OVERFLOW
                     [] intg <= fixed_intg /\ y.frac > decimals -> E_DEC_TRUNCATED
                     [] OTHER -> E_DEC_OK]

(* decimal_actual_fraction() *)
decimal_actual_fraction(y) ==
    Max({0} \cup {p - Point(y) + 1 : p \in Nonzero(y.d, Point(y), End(y))})

-----------------------------------------------------------------------------
(* A buffer nobody wrote to holds whatever was there, its first word a     *)
(* zero.                                                                   *)
Init ==
    \E garbage \in {0, Radix - 1} :
      x = MakeZero([sign |-> FALSE, intg |-> 1, frac |-> 0, d |-> [p \in Places |-> garbage]])

Read ==
    \E text \in Texts : x' = internal_str2dec(x, text).to

FromLonglong ==
    \E n \in Integers : x' = longlong2decimal(x, n)

(* A sum has whole words of digits before the point. *)
Add ==
    \E t \in Sums :
        x' = Stored(x, t.sign, t.int, t.frac, Fits(Len(t.int), Len(t.frac)))

(* A rounding that needs a word in front of a full buffer, or all words    *)
(* for a zero, is outside of what the library promises.                    *)
HasRoom(y, scale) ==
    /\ ROUND_UP(y.intg) < DECIMAL_BUFF_LENGTH \/ scale > 0
    /\ ROUND_UP(y.intg) > 0 \/ ROUND_UP(scale) < DECIMAL_BUFF_LENGTH

Shift ==
    \E n \in Shifts :
      /\ decimal_shift(x, n).error = E_DEC_OK
      /\ x' = decimal_shift(x, n).to

Round ==
    \E scale \in Scales, mode \in Modes :
      /\ HasRoom(x, scale)
      /\ x' = decimal_round(x, x, TRUE, scale, mode).to

Next == Read \/ FromLonglong \/ Add \/ Shift \/ Round

Spec == Init /\ [][Next]_x

-----------------------------------------------------------------------------
(* Properties. *)

(* The digit of y that counts Radix ^ e. *)
At(y, e) ==
    LET p == Point(y) - 1 - e IN IF p \in 0 .. End(y) - 1 THEN y.d[p] ELSE 0

(* The same of a text; where it is filled up there is none. *)
TextAt(t, e) ==
    LET i == Len(t.int) - e
        c == CASE e >= 0 /\ i > 0 -> t.int[i]
               [] e < 0 /\ -e <= Len(t.frac) -> t.frac[-e]
               [] OTHER -> 0
    IN  IF c = Filler THEN 0 ELSE c

Weights == -3 * Digits .. 3 * Digits

(* The digits before the point are in the words that hold them, and there  *)
(* are no more than intg and frac say.                                     *)
WellFormed(y) ==
    /\ y.sign \in BOOLEAN /\ y.intg \in Nat /\ y.frac \in Nat
    /\ End(y) \in 1 .. Digits
    /\ \A p \in Places : y.d[p] \in 0 .. Radix - 1
    /\ Nonzero(y.d, 0, Point(y) - y.intg) = {}
    /\ Nonzero(y.d, Point(y) + y.frac, End(y)) = {}

(* Whatever was read, shifted and rounded, the decimal has the digits it   *)
(* says it has, and no others in the words it uses.                        *)
TypeOK == WellFormed(x)

(* y is x times Radix ^ n. *)
IsShifted(y, n) ==
    /\ \A e \in Weights : At(y, e) = At(x, e - n)
    /\ y.sign = (x.sign /\ (n = 0 \/ ~IsZero(x)))

(* decimal_shift() multiplies by Radix ^ n, digit by digit, or says        *)
(* overflow, leaves the number alone, and it really does not fit.          *)
ShiftIsExact(r, n) ==
    /\ r.error = E_DEC_OK => WellFormed(r.to) /\ IsShifted(r.to, n)
    /\ r.error = E_DEC_OVERFLOW =>
         r.to = x /\ \E e \in Weights : At(x, e) # 0 /\ e + n >= Digits

(* The digits of y as one number, the last one that of its last word. *)
Mantissa(y) ==
    LET v[p \in 0 .. End(y)] == IF p = 0 THEN 0 ELSE v[p - 1] * Radix + y.d[p - 1]
    IN  v[End(y)]

AbsDiff(a, b) == IF a > b THEN a - b ELSE b - a

(* y is x times Radix ^ n, less than part of a unit of its last digit away *)
(* from it.                                                                *)
IsNear(y, n, parts) ==
    LET unit == Radix ^ (End(x) - Point(x) - n - (End(y) - Point(y)))
    IN  parts * AbsDiff(Mantissa(y) * unit, Mantissa(x)) <= unit

(* Every digit that is not cut off is the largest one, and the first that  *)
(* is makes the rounding carry through all of them.                        *)
CarriesOut(n) ==
    \E k \in 0 .. Digits - 1 :
      /\ x.d[k] >= Radix \div 2
      /\ \A p \in Bounds(x).beg .. k - 1 : x.d[p] = Radix - 1
      /\ End(x) - Point(x) - n > 0

(* A number decimal_shift() had to round to make it fit is as near as a    *)
(* number of its length can be, but where the rounding carries into a new  *)
(* first digit.                                                            *)
ShiftIsRounded(r, n) ==
    r.error = E_DEC_TRUNCATED /\ ~CarriesOut(n) => WellFormed(r.to) /\ IsNear(r.to, n, 2)

(* Wherever the point is moved, the number is the one it should be, or as  *)
(* near as the buffer allows.                                              *)
ShiftIsRight ==
    \A n \in Shifts :
        ShiftIsExact(decimal_shift(x, n), n) /\ ShiftIsRounded(decimal_shift(x, n), n)

(* The magnitude of x at the given scale, in units of Radix ^ -Digits. *)
Scaled(y) == Mantissa(y) * Radix ^ (Digits - (End(y) - Point(y)))

Reference(scale, mode) ==
    LET unit == Radix ^ (Digits - scale)
        low  == Scaled(x) % unit
        up   == CASE mode = "TRUNCATE" -> FALSE
                  [] mode = "HALF_UP" -> 2 * low >= unit
                  [] mode = "CEILING" -> ~x.sign /\ low > 0
                  [] mode = "FLOOR" -> x.sign /\ low > 0
    IN  Scaled(x) - low + (IF up THEN unit ELSE 0)

IsRounded(y, scale, mode) ==
    WellFormed(y) /\ Scaled(y) = Reference(scale, mode)
      /\ y.sign = (x.sign /\ y.sign) /\ (y.sign # x.sign => IsZero(y))

RoundsTo(scale, mode) ==
    IsRounded(decimal_round(x, x, TRUE, scale, mode).to, scale, mode)

(* decimal_round() rounds half up, towards zero at every place, and up or  *)
(* down between words.  A fraction is no longer than the digits            *)
(* decimal_actual_fraction() counts, and no shorter.                       *)
RoundIsRight ==
  LET Truncated(scale) == Scaled(decimal_round(x, x, TRUE, scale, "TRUNCATE").to)
      actual == decimal_actual_fraction(x)
  IN
    /\ HasRoom(x, actual) => Truncated(actual) = Scaled(x)
    /\ actual > 0 /\ HasRoom(x, actual - 1) => Truncated(actual - 1) # Scaled(x)
    /\ \A scale \in Scales :
         HasRoom(x, scale) =>
           /\ RoundsTo(scale, "TRUNCATE") /\ RoundsTo(scale, "HALF_UP")
           /\ scale % DIG_PER_DEC1 = 0 /\ scale + x.intg >= 0 =>
                RoundsTo(scale, "CEILING") /\ RoundsTo(scale, "FLOOR")

(* Two results are the same number, whatever is behind it in the buffer. *)
SameResult(r, q) ==
    /\ r.error = q.error
    /\ [r.to EXCEPT !.d = Cleared(@, End(r.to), Digits)]
         = [q.to EXCEPT !.d = Cleared(@, End(q.to), Digits)]

(* What an earlier number left in the words a decimal does not use changes *)
(* nothing: not a shift, a rounding in place or into another buffer, or    *)
(* what is read there.                                                     *)
LeftoversInvisible ==
    LET clean == [x EXCEPT !.d = Cleared(@, End(x), Digits)]
        other == [x EXCEPT !.d = [p \in Places |-> Radix - 1]]
    IN  /\ \A n \in Shifts : SameResult(decimal_shift(x, n), decimal_shift(clean, n))
        /\ \A scale \in Scales, mode \in Modes :
             HasRoom(x, scale) =>
               LET r == decimal_round(x, x, TRUE, scale, mode)
                   q == decimal_round(clean, other, FALSE, scale, mode)
               IN  /\ SameResult(r, decimal_round(clean, clean, TRUE, scale, mode))
                   /\ r.error = q.error /\ Scaled(r.to) = Scaled(q.to)
                   /\ r.to.sign = q.to.sign /\ r.to.frac = q.to.frac
        /\ \A text \in Texts :
             SameResult(internal_str2dec(x, text), internal_str2dec(other, text))

(* The digits of y before the point without leading zeros, one if there   *)
(* are none.                                                               *)
IntLength(y) == Max({1} \cup {e + 1 : e \in {w \in Weights : w >= 0 /\ At(y, w) # 0}})

(* What the printed p is read back as is x. *)
IsReadBack(p, r) ==
    /\ p.error = E_DEC_OK /\ r.error = E_DEC_OK
    /\ Scaled(r.to) = Scaled(x) /\ r.to.frac = x.frac /\ r.to.sign = x.sign

(* p is x in room characters.  As many digits as there is room for, with   *)
(* no zero or filler before them; less room than for those before the      *)
(* point is reported, and only then the string ends behind the buffer.     *)
IsPrinted(p, room) ==
    LET needed == IntLength(x) + (IF x.sign THEN 1 ELSE 0)
    IN  /\ p.error = E_DEC_OVERFLOW <=> needed >= room
        /\ p.end = (IF needed >= room THEN needed
                    ELSE needed + (IF p.text.frac = << >> THEN 0 ELSE 1 + Len(p.text.frac)))
        /\ p.error # E_DEC_OVERFLOW =>
             /\ p.end < room
             /\ p.text.sign = x.sign /\ Len(p.text.int) = IntLength(x)
             /\ \A e \in Weights : e >= -Len(p.text.frac) => TextAt(p.text, e) = At(x, e)
             /\ p.error = E_DEC_OK <=> Len(p.text.frac) = x.frac
        /\ p.error = E_DEC_TRUNCATED => p.end >= room - 2

(* decimal2string() prints a number in any room its caller may have; one   *)
(* of the largest digit alone is read back as it was.  With a fixed number *)
(* of digits a fraction is cut or filled up, and digits before the point   *)
(* are lost only if that is reported.                                      *)
PrintedIsRight ==
    /\ LET p == decimal2string(x, 2 * Digits)
       IN  (\A i \in DOMAIN (p.text.int \o p.text.frac) : (p.text.int \o p.text.frac)[i] = Radix - 1)
             => IsReadBack(p, internal_str2dec(x, p.text))
    /\ \A room \in (IF x.sign THEN 3 ELSE 2) .. Digits + 5 :
         IsPrinted(decimal2string(x, room), room)
    /\ x.frac > 0 =>
         \A precision \in {2, Digits - 1} : \A decimals \in 1 .. precision - 1 :
           LET p == decimal2string_fixed(x, precision, decimals)
           IN  /\ Len(p.text.int) = precision - decimals /\ Len(p.text.frac) = decimals
               /\ p.end = precision + (IF x.sign THEN 2 ELSE 1)
               /\ p.error = E_DEC_OVERFLOW <=>
                    \E e \in Weights : e >= precision - decimals /\ At(x, e) # 0
               /\ p.error = E_DEC_TRUNCATED =>
                    \A e \in Weights : e >= -decimals => TextAt(p.text, e) = At(x, e)
               /\ p.error = E_DEC_OK =>
                    \A e \in Weights : TextAt(p.text, e) = At(x, e)

(* The beginning of s up to the first digit that is not the largest. *)
IsReadable(u, s) ==
    /\ IsPrefix(u, s) /\ \A i \in DOMAIN u : u[i] = Radix - 1
    /\ u # s => s[Len(u) + 1] # Radix - 1

(* r is what was read of the digits int and frac of a text. *)
IsTextOf(r, sign, int, frac) ==
    LET u == [sign |-> sign, int |-> int, frac |-> frac]
        Same(from) == \A e \in Weights : e >= from => At(r.to, e) = TextAt(u, e)
    IN  /\ r.error = E_DEC_BAD_NUM <=> int = << >> /\ frac = << >>
        /\ r.error = E_DEC_OVERFLOW <=> Len(int) > Digits
        /\ r.error = E_DEC_OK => Same(-2 * Digits) /\ r.to.frac = Len(frac)
        /\ r.error = E_DEC_TRUNCATED =>
             Same(-r.to.frac) /\ End(r.to) = Digits /\ r.to.frac < Len(frac)
        /\ r.to.sign = (sign /\ r.error # E_DEC_BAD_NUM)

(* A text, be it one that was printed, is read digit by digit up to the    *)
(* first digit that is not the largest one: the fraction only if all       *)
(* before the point was read.  What does not fit is reported, and the      *)
(* digits before the point are not touched for the sake of those behind.   *)
TextIsRead ==
    \A text \in Texts \cup {decimal2string(x, 2 * Digits).text} :
      \E i \in 0 .. Len(text.int), f \in 0 .. Len(text.frac) :
        LET int  == SubSeq(text.int, 1, i)
            frac == SubSeq(text.frac, 1, f)
        IN  /\ IsReadable(int, text.int)
            /\ IF int = text.int THEN IsReadable(frac, text.frac) ELSE frac = << >>
            /\ IsTextOf(internal_str2dec(x, text), text.sign, int, frac)

(* decimal.h: "decimal_smth() == 0 -- everything's ok".                    *)
OkIsRead ==
    \A text \in Texts :
      LET r == internal_str2dec(x, text)
      IN  r.error = E_DEC_OK => \A e \in Weights : At(r.to, e) = TextAt(text, e)
=============================================================================
