------------------------------- MODULE Decimal -------------------------------
(***************************************************************************)
(* Decimal arithmetic: sums, negations, comparisons and conversions from   *)
(* and to longlong, which the value methods use, products, quotients and   *)
(* remainders, which the library offers, over the words of DecimalWords.   *)
(*                                                                         *)
(* The other modules take a decimal for an exact number, ItemTypes!Plus,   *)
(* Neg and equality of numbers for decimal_add(), decimal_neg() and        *)
(* decimal_cmp().  Here is when that is right: acc is a decimal that a     *)
(* program made, each operation applied to what the last one answered,     *)
(* leading zero words, negative zeros and empty buffers included.          *)
(***************************************************************************)
EXTENDS ItemTypes, DecimalMul, DecimalDiv

CONSTANT ScaleIncrs     \* values of scale_incr, the digits asked of a quotient

ASSUME ScaleAssumption == ScaleIncrs \subseteq Nat

(* string2decimal() cuts a literal to the buffer it reads it into. *)
ASSUME ShapesAssumption ==
    \A s \in Shapes : ROUND_UP(s[1]) + ROUND_UP(s[2]) <= DECIMAL_BUFF_LENGTH

(* The digits that fit wherever the point is. *)
DECIMAL_MAX_PRECISION ==
    DECIMAL_BUFF_LENGTH * DIG_PER_DEC1 - 2 * (DIG_PER_DEC1 - 1)

(* The unit of ItemTypes is the last digit a decimal can have; every       *)
(* longlong fits, and any word is one.                                     *)
ASSUME DigitAssumption ==
    /\ One = Power(DIG_BASE, DECIMAL_BUFF_LENGTH)
    /\ DIG_BASE <= LonglongHalf /\ LonglongHalf < One

VARIABLE acc    \* the decimal

(* The number a decimal is, as ItemTypes counts it. *)
Number(d) ==
    LET m == Mantissa(d) * Power(DIG_BASE, DECIMAL_BUFF_LENGTH - ROUND_UP(d.frac))
    IN  IF ~d.sign THEN m ELSE IF m = 0 THEN NegZero ELSE -m

-----------------------------------------------------------------------------
(* Conversions. *)

(* longlong2decimal(): the words and the digits the magnitude needs. *)
longlong2decimal(n) ==
    LET m == IF n < 0 THEN -n ELSE n
        needs(base) == CHOOSE k \in 1 .. m : Power(base, k - 1) <= m /\ m < Power(base, k)
        words == needs(DIG_BASE)
    IN  IF n = 0 THEN Zero
        ELSE [sign |-> n < 0, intg |-> needs(Radix), frac |-> 0,
              buf |-> [k \in 1 .. words |->
                         (m \div Power(DIG_BASE, words - k)) % DIG_BASE]]

(* A longlong in two's complement: the test for an overflow relies on the  *)
(* arithmetic of the machine, which wraps.                                 *)
Wrap(n) == ((n + LonglongHalf) % (2 * LonglongHalf)) - LonglongHalf

(* x of decimal2longlong(): minus the magnitude, word by word. *)
MinusWords(d) ==
    LET x[k \in 0 .. ROUND_UP(d.intg)] ==
            IF k = 0 THEN 0 ELSE Wrap(x[k - 1] * DIG_BASE - d.buf[k])
    IN  x

\* Seeded fault: the product is not compared with what it was made of.
FaultyWrapped(x, intg) == \E k \in 1 .. intg : x[k - 1] < -(LonglongHalf \div DIG_BASE)

(* x was too small to be multiplied, or became larger. *)
Wrapped(x, intg) ==
    \E k \in 1 .. intg : x[k - 1] < -(LonglongHalf \div DIG_BASE) \/ x[k] > x[k - 1]

Decimal2longlong(d) ==
    LET intg == ROUND_UP(d.intg)
        x == MinusWords(d)
    IN  IF Wrapped(x, intg) \/ (~d.sign /\ x[intg] = -LonglongHalf)
        THEN [to |-> IF d.sign THEN -LonglongHalf ELSE LonglongHalf - 1,
              error |-> E_DEC_OVERFLOW]
        ELSE [to    |-> IF d.sign THEN x[intg] ELSE -x[intg],
              error |-> IF \E k \in intg + 1 .. Len(d.buf) : d.buf[k] # 0
                        THEN E_DEC_TRUNCATED ELSE E_DEC_OK]

-----------------------------------------------------------------------------
(* The program: a decimal from a literal, and one operation after another. *)

Init ==
    \/ acc \in Literals
    \/ \E n \in -LonglongHalf .. LonglongHalf - 1 : acc = longlong2decimal(n)

(* Item_func_add and Decimal_null::operator+= use what decimal_add() leaves *)
(* and look at no error.  A quotient of integers less than one has no      *)
(* words; what do_add() would look at in its buffer is not its own, and it *)
(* is not added to.                                                        *)
Add(x) == acc.buf # <<>> /\ \E r \in {decimal_add(acc, x), decimal_add(x, acc)} : acc' = r.to

(* neg() of Decimal_null, decimal_neg() of Item_func_uminus. *)
Negate == acc' = decimal_neg(acc)

(* decimal.h: after an overflow the "result can be unusable", and after a  *)
(* division by zero "no result was generated".  Neither is used.           *)
Take(results) == \E r \in results : r.error < E_DEC_OVERFLOW /\ acc' = r.to

Mul(x) == Take({decimal_mul(acc, x), decimal_mul(x, acc)})

Div(x, incr) == Take({decimal_div(acc, x, incr), decimal_div(x, acc, incr)})

Mod(x) == Take({decimal_mod(acc, x), decimal_mod(x, acc)})

Next ==
    \/ Negate
    \/ \E x \in Literals :
         \/ Add(x)
         \/ Mul(x)
         \/ \E incr \in ScaleIncrs : Div(x, incr)
         \/ Mod(x)

Spec == Init /\ [][Next]_acc

-----------------------------------------------------------------------------
(* Properties. *)

(* No operation leaves a word that is too large, or digits beyond those    *)
(* intg and frac admit: what later operations rely on.                     *)
TypeOK ==
    /\ acc \in [sign : BOOLEAN, intg : Nat, frac : Nat, buf : Seq(0 .. DIG_MAX)]
    /\ WordsOK(acc)
    /\ Len(acc.buf) \in 0 .. DECIMAL_BUFF_LENGTH

(* What acc and a literal make, in either order, and what they should. *)
SumsWith(x) ==
    LET want == Plus(Number(acc), Number(x), "decimal")
    IN  IF acc.buf = <<>> THEN {}
        ELSE {[r |-> decimal_add(acc, x), want |-> want],
              [r |-> decimal_add(x, acc), want |-> want]}

(* decimal_add() and decimal_neg() are Plus and Neg of ItemTypes, negative *)
(* zero included, whenever they report no error.                           *)
OkIsExact ==
    /\ Number(decimal_neg(acc)) = Neg(Number(acc), "decimal")
    /\ \A x \in Literals : \A s \in SumsWith(x) :
          s.r.error = E_DEC_OK => Number(s.r.to) = s.want

(* A truncated sum is off by less than two in its last word, each operand  *)
(* having lost less than one; only a sum that fills the first word of the  *)
(* buffer is reported not to fit.                                          *)
ErrorsAreHonest ==
    \A x \in Literals : \A s \in SumsWith(x) :
        LET off == Num(s.want) - Num(Number(s.r.to))
            one == Power(DIG_BASE, DECIMAL_BUFF_LENGTH - ROUND_UP(s.r.to.frac))
            big == DIG_MAX * Power(DIG_BASE, 2 * DECIMAL_BUFF_LENGTH - 1)
        IN  /\ s.r.error = E_DEC_TRUNCATED => -2 * one < off /\ off < 2 * one
            /\ s.r.error = E_DEC_OVERFLOW => Num(s.want) >= big \/ Num(s.want) <= -big

(* my_decimal_limits.h calls DECIMAL_MAX_PRECISION the "maximum guaranteed *)
(* precision": a sum of operands that together need no more is exact.      *)
GuaranteedPrecision ==
    \A x \in Literals : \A s \in SumsWith(x) :
        Max({acc.intg, x.intg}) + Max({acc.frac, x.frac}) <= DECIMAL_MAX_PRECISION
            => s.r.error = E_DEC_OK

(* A sum is exact, or reports an error that is as large as it says, and    *)
(* none where the precision is guaranteed.                                 *)
SumIsHonest == OkIsExact /\ ErrorsAreHonest /\ GuaranteedPrecision

(* decimal_cmp() orders numbers, and answers 0 for the same number only: a *)
(* negative zero is not the same as zero.                                  *)
CmpIsOrder ==
    \A x \in Literals :
        LET a == Number(acc)
            b == Number(x)
            c == decimal_cmp(acc, x)
        IN  /\ c = 0 <=> a = b
            /\ Num(a) < Num(b) => c = -1
            /\ Num(a) > Num(b) => c = 1

(* decimal2longlong() drops the fraction and says so, and stops at the     *)
(* ends of the range, of which the negative one is farther from zero.      *)
LonglongIsTrunc ==
    LET n == Trunc(Num(Number(acc))) \div One
        r == Decimal2longlong(acc)
    IN  CASE n < -LonglongHalf  -> r = [to |-> -LonglongHalf, error |-> E_DEC_OVERFLOW]
          [] n >= LonglongHalf  -> r = [to |-> LonglongHalf - 1, error |-> E_DEC_OVERFLOW]
          [] OTHER -> /\ r.to = n
                      /\ r.error = IF Num(Number(acc)) % One = 0
                                   THEN E_DEC_OK ELSE E_DEC_TRUNCATED

(* The magnitude of d in units of the last of frac words after the point. *)
Scaled(d, frac) == Mantissa(d) * Power(DIG_BASE, frac - ROUND_UP(d.frac))

(* A product reported as exact is, with the sign of a product, unless it   *)
(* is an integer zero; one reported as truncated is not too large, and     *)
(* has lost no more than half of the missing words are worth, rounded up,  *)
(* in each factor; it is reported to overflow when the factors' digits do  *)
(* not fit, whatever the digits are.                                       *)
ProductIsHonest ==
    \A x \in Literals :
        LET r == decimal_mul(acc, x)
            frac == ROUND_UP(acc.frac) + ROUND_UP(x.frac)
            exact == Mantissa(acc) * Mantissa(x)
            lost == exact - Scaled(r.to, frac)
            missing == ROUND_UP(acc.intg + x.intg) + frac - DECIMAL_BUFF_LENGTH
        IN  /\ r.error = E_DEC_OVERFLOW
                  <=> acc.intg + x.intg > DECIMAL_BUFF_LENGTH * DIG_PER_DEC1
            /\ r.error = E_DEC_OK =>
                  /\ lost = 0
                  /\ r.to.sign = (acc.sign # x.sign) \/ (exact = 0 /\ ~r.to.sign)
            /\ r.error = E_DEC_TRUNCATED =>
                  /\ lost >= 0
                  /\ lost <= (Mantissa(acc) + Mantissa(x)) * Power(DIG_BASE, (missing + 1) \div 2)

(* A sum or a product for which decimal_result_size() says that the buffer *)
(* is large enough is neither cut nor too large.                           *)
SizeIsEnough ==
    \A x \in Literals :
        /\ decimal_result_size(acc, x, "+", 0) <= DECIMAL_BUFF_LENGTH
             => \A s \in SumsWith(x) : s.r.error = E_DEC_OK
        /\ decimal_result_size(acc, x, "*", 0) <= DECIMAL_BUFF_LENGTH
             => decimal_mul(acc, x).error = E_DEC_OK

(* A quotient r of acc and x is the exact one cut after its last word, and *)
(* has the digits after the point that were asked for unless the buffer    *)
(* ends before; it overflows only if its words before the point need more  *)
(* than the buffer.                                                        *)
IsQuotient(r, x, incr) ==
    LET q == Mantissa(r.to)
        frac == Max({ROUND_UP(acc.frac), ROUND_UP(x.frac)})
        a == Scaled(acc, frac)
        b == Scaled(x, frac)
        one == Power(DIG_BASE, ROUND_UP(r.to.frac))
    IN  /\ r.error = E_DEC_DIV_ZERO <=> b = 0
        /\ r.error \in {E_DEC_OK, E_DEC_TRUNCATED} =>
              /\ q * b <= a * one
              /\ a * one < (q + 1) * b
        /\ r.error = E_DEC_OK /\ a # 0 => r.to.frac >= acc.frac + x.frac + incr
        /\ r.error = E_DEC_TRUNCATED => Len(r.to.buf) = DECIMAL_BUFF_LENGTH
        /\ r.error = E_DEC_OVERFLOW =>
              a * Radix >= b * Power(DIG_BASE, DECIMAL_BUFF_LENGTH)

(* A remainder r of acc and x is the exact one, with the sign of the       *)
(* dividend unless it is zero, or has lost its last word and says so: and  *)
(* then only if the fraction of an operand fills the buffer.               *)
IsRemainder(r, x) ==
    LET frac == Max({ROUND_UP(acc.frac), ROUND_UP(x.frac)})
        a == Scaled(acc, frac)
        b == Scaled(x, frac)
        rem == Scaled(r.to, frac)
    IN  b # 0 =>
          /\ r.error \in {E_DEC_OK, E_DEC_TRUNCATED}
          /\ rem # 0 => r.to.sign = acc.sign
          /\ r.error = E_DEC_OK => rem = a % b
          /\ r.error = E_DEC_TRUNCATED =>
                /\ frac = DECIMAL_BUFF_LENGTH
                /\ rem = (a % b) - ((a % b) % DIG_BASE)

(* Whatever is divided by whatever: the quotient is cut, the remainder     *)
(* exact, unless a report says otherwise.                                  *)
DivisionIsExact ==
    \A x \in Literals :
        /\ \A incr \in ScaleIncrs : IsQuotient(decimal_div(acc, x, incr), x, incr)
        /\ IsRemainder(decimal_mod(acc, x), x)
=============================================================================
