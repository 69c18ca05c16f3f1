------------------------------ MODULE DecimalBin ------------------------------
(***************************************************************************)
(* A column of decimals in binary: decimal2bin() packs a number of a given *)
(* precision and scale into bytes that memcmp() can compare, bin2decimal() *)
(* restores it.  Digits that do not fill a word take the bytes they need.  *)
(***************************************************************************)
EXTENDS DecimalWords

CONSTANTS
    ByteBase,       \* of a byte; 256
    Dig2Bytes,      \* dig2bytes[]: bytes for 0 .. DIG_PER_DEC1 digits
    Columns,        \* pairs <<precision, scale>>
    Numbers         \* what is stored

WordBytes == Dig2Bytes[DIG_PER_DEC1]

\* A word of WordBytes bytes wraps here.
WordRange == ByteBase ^ WordBytes

(* The bytes have a bit more than the digits need: the one that is flipped. *)
ASSUME BytesAssumption ==
    /\ ByteBase \in Nat /\ ByteBase % 2 = 0
    /\ Dig2Bytes \in [0 .. DIG_PER_DEC1 -> Nat]
    /\ Dig2Bytes[0] = 0
    /\ \A n \in DOMAIN Dig2Bytes \ {0} : 2 * Radix ^ n <= ByteBase ^ Dig2Bytes[n]
    /\ Columns \subseteq {<<p, s>> \in (Nat \ {0}) \X Nat : s <= p}
    /\ \A d \in Numbers : WordsOK(d) /\ (d.sign => ~decimal_is_zero(d))

E_DEC_BAD_NUM == 8

VARIABLES
    column,         \* precision and scale
    rows            \* [num, bin, error]: a number and what was made of it

binVars == <<column, rows>>

-----------------------------------------------------------------------------
(* Sizes. *)

Full(n)    == n \div DIG_PER_DEC1
Partial(n) == n % DIG_PER_DEC1

SizeOf(n) == Full(n) * WordBytes + Dig2Bytes[Partial(n)]

decimal_bin_size(precision, scale) == SizeOf(precision - scale) + SizeOf(scale)

decimal_size(precision, scale) == ROUND_UP(precision - scale) + ROUND_UP(scale)

NumDigits(v) == CHOOSE n \in 0 .. DIG_PER_DEC1 : v < Radix ^ n /\ (n > 0 => v >= Radix ^ (n - 1))

(* The digits before the point, without leading zeros. *)
IntgDigits(d) ==
    LET w == IntgWords(d)
    IN  IF w = 0 THEN 0 ELSE (w - 1) * DIG_PER_DEC1 + NumDigits(Word(d, 1 - w))

(* max_decimal(): the largest number of a precision and scale. *)
max_decimal(precision, scale) ==
    LET intg == precision - scale
        top  == IF Partial(intg) = 0 THEN << >> ELSE <<Radix ^ Partial(intg) - 1>>
        low  == IF Partial(scale) = 0 THEN << >>
                ELSE <<DIG_BASE - Radix ^ (DIG_PER_DEC1 - Partial(scale))>>
    IN  [sign |-> FALSE, intg |-> intg, frac |-> scale,
         buf  |-> top \o [k \in 1 .. Full(intg) + Full(scale) |-> DIG_MAX] \o low]

-----------------------------------------------------------------------------
(* Packing. *)

(* The last bytes of a word, the most significant one first. *)
Bytes(v, n) == [i \in 1 .. n |-> (v \div ByteBase ^ (n - i)) % ByteBase]

(* The digits of its last, broken word that a number d leaves: of as many  *)
(* bytes as the column has for them it may fill all.                       *)
LastDigits(d, scale) ==
    CASE SizeOf(d.frac) # SizeOf(scale) \/ d.frac <= scale -> Partial(scale)
      [] SizeOf(d.frac) = SizeOf(scale) /\ d.frac > scale ->
           IF Full(d.frac) > Full(scale) THEN DIG_PER_DEC1 ELSE Partial(d.frac)

\* Seeded fault: the bytes of a negative number are not inverted.
FaultySigned(bin, negative) == [bin EXCEPT ![1] = (@ + ByteBase \div 2) % ByteBase]

(* All bytes of a negative number are inverted, and the first bit of any.  *)
Signed(bin, negative) ==
    LET b == IF negative THEN [i \in DOMAIN bin |-> ByteBase - 1 - bin[i]] ELSE bin
    IN  [b EXCEPT ![1] = (@ + ByteBase \div 2) % ByteBase]

\* Seeded fault: the first digits are not cut to the column's.
Faultydecimal2bin(d, precision, scale) ==
    LET intg  == precision - scale
        first == Bytes(Word(d, -Full(intg)), Dig2Bytes[Partial(intg)])
        words == FlattenSeq([k \in 1 .. Full(intg) + Full(scale) |->
                               Bytes(Word(d, k - Full(intg)), WordBytes)])
        last  == Bytes(Word(d, Full(scale) + 1) \div Radix ^ (DIG_PER_DEC1 - LastDigits(d, scale)),
                       Dig2Bytes[Partial(scale)])
    IN  [bin   |-> Signed(first \o words \o last, d.sign),
         error |-> IF intg < IntgDigits(d) THEN E_DEC_OVERFLOW ELSE E_DEC_OK]

(* decimal2bin(): the last digits before the point and the first behind it *)
(* that the column has.                                                    *)
decimal2bin(d, precision, scale) ==
    LET intg  == precision - scale
        first == Bytes(Word(d, -Full(intg)) % Radix ^ Partial(intg), Dig2Bytes[Partial(intg)])
        words == FlattenSeq([k \in 1 .. Full(intg) + Full(scale) |->
                               Bytes(Word(d, k - Full(intg)), WordBytes)])
        last  == Bytes(Word(d, Full(scale) + 1) \div Radix ^ (DIG_PER_DEC1 - LastDigits(d, scale)),
                       Dig2Bytes[Partial(scale)])
    IN  [bin   |-> Signed(first \o words \o last, d.sign /\ IntgDigits(d) + SizeOf(d.frac) # 0),
         error |-> CASE SizeOf(scale) < SizeOf(d.frac) -> E_DEC_TRUNCATED
                     [] SizeOf(scale) >= SizeOf(d.frac) /\ intg < IntgDigits(d) -> E_DEC_OVERFLOW
                     [] OTHER -> E_DEC_OK]

-----------------------------------------------------------------------------
(* Restoring. *)

(* The number in bytes from + 1, ..., from + n. *)
Unpacked(bin, from, n) ==
    LET v[i \in 0 .. n] == IF i = 0 THEN 0 ELSE v[i - 1] * ByteBase + bin[from + i]
    IN  v[n]

(* Where the bytes begin of the words there is room for, how many digits   *)
(* they have before and behind the point.                                  *)
Room(precision, scale) ==
    LET intg == precision - scale
        fix  == FixIntgFrac(ROUND_UP(intg), ROUND_UP(scale))
    IN  CASE fix.error = E_DEC_OK -> [from |-> 0, intg |-> intg, frac |-> scale]
          [] fix.error = E_DEC_OVERFLOW ->
               [from |-> Dig2Bytes[Partial(intg)] + WordBytes * (Full(intg) - fix.intg),
                intg |-> fix.intg * DIG_PER_DEC1, frac |-> 0]
          [] fix.error = E_DEC_TRUNCATED ->
               [from |-> 0, intg |-> intg, frac |-> fix.frac * DIG_PER_DEC1]

(* What is read of bytes bin without sign: the words in order, the first   *)
(* and the last of which may be broken.  The last one is moved to the      *)
(* front of its word by a product that wraps where it is too large.        *)
Words(bin, room) ==
    LET px == IF Partial(room.intg) > 0 THEN 1 ELSE 0
        ps == IF Partial(room.frac) > 0 THEN 1 ELSE 0
        n  == Full(room.intg) + Full(room.frac)
        at == room.from + Dig2Bytes[Partial(room.intg)]
    IN  [k \in 1 .. px + n + ps |->
           CASE k <= px -> Unpacked(bin, room.from, Dig2Bytes[Partial(room.intg)])
             [] k > px /\ k <= px + n -> Unpacked(bin, at + (k - px - 1) * WordBytes, WordBytes)
             [] OTHER -> (Unpacked(bin, at + n * WordBytes, Dig2Bytes[Partial(room.frac)])
                            * Radix ^ (DIG_PER_DEC1 - Partial(room.frac))) % WordRange]

(* Words of zeros at the front, before the point, are left out. *)
LeadingZeros(words, room) ==
    LET intg == ROUND_UP(room.intg)
    IN  Min({k \in 1 .. intg : words[k] # 0} \cup {intg + 1}) - 1

\* Seeded fault: the digits of a broken first word are not taken back.
FaultyIntgLeft(intg, zeros) == intg - zeros * DIG_PER_DEC1

IntgLeft(intg, zeros) == Min({intg, (ROUND_UP(intg) - zeros) * DIG_PER_DEC1})

(* A word out of range.  The first may have a digit too many; the last one *)
(* is looked at after it has wrapped.                                      *)
BadWord(words, k, room) ==
    IF k = 1 /\ Partial(room.intg) > 0 THEN words[1] >= Radix ^ (Partial(room.intg) + 1)
    ELSE words[k] > DIG_MAX

bin2decimal(bin, precision, scale) ==
    LET negative == bin[1] < ByteBase \div 2
        room  == Room(precision, scale)
        words == Words(Signed(bin, negative), room)
        zeros == LeadingZeros(words, room)
        num   == [sign |-> negative, intg |-> IntgLeft(room.intg, zeros), frac |-> room.frac,
                  buf  |-> SubSeq(words, zeros + 1, Len(words))]
    IN  CASE \E k \in DOMAIN words : BadWord(words, k, room) ->
               [to |-> Zero, error |-> E_DEC_BAD_NUM]
          [] /\ \A k \in DOMAIN words : ~BadWord(words, k, room)
             /\ num.intg + num.frac = 0 ->
               [to |-> Zero, error |-> FixIntgFrac(ROUND_UP(precision - scale), ROUND_UP(scale)).error]
          [] OTHER ->
               [to |-> num, error |-> FixIntgFrac(ROUND_UP(precision - scale), ROUND_UP(scale)).error]

-----------------------------------------------------------------------------
Row(d) ==
    LET b == decimal2bin(d, column[1], column[2]) IN [num |-> d, bin |-> b.bin, error |-> b.error]

Init == column \in Columns /\ rows = << >>

(* A number, or the largest of the column, is put into it; two rows are    *)
(* enough to compare.                                                      *)
Store ==
    /\ Len(rows) < 2
    /\ \E d \in Numbers \cup {max_decimal(column[1], column[2])} : rows' = Append(rows, Row(d))
    /\ UNCHANGED column

(* A row is restored, and what comes of it is stored again. *)
Restore ==
    /\ \E k \in DOMAIN rows :
         rows' = [rows EXCEPT ![k] = Row(bin2decimal(@.bin, column[1], column[2]).to)]
    /\ UNCHANGED column

Next == Store \/ Restore

Spec == Init /\ [][Next]_binVars

-----------------------------------------------------------------------------
(* Properties. *)

(* A number has the words its intg and frac say, in range, whatever was    *)
(* restored; its bytes are as many as decimal_bin_size() says.             *)
TypeOK ==
    /\ column \in Columns
    /\ \A k \in DOMAIN rows :
         LET d == rows[k].num
         IN  /\ d.sign \in BOOLEAN /\ d.intg \in Nat /\ d.frac \in Nat
             /\ d.buf \in [1 .. ROUND_UP(d.intg) + ROUND_UP(d.frac) -> 0 .. DIG_MAX]
             /\ rows[k].bin \in [1 .. decimal_bin_size(column[1], column[2]) -> 0 .. ByteBase - 1]

(* decimal2bin() takes a number whose fraction has more digits than the    *)
(* column, in as many bytes, as it is.                                     *)
Crowded(d) == d.frac > column[2] /\ SizeOf(d.frac) = SizeOf(column[2])

(* The column has room for the digits of d before the point, and d has no  *)
(* digits but those it says it has, which is not so of what was restored   *)
(* of a crowded number.                                                    *)
Storable(d) == WordsOK(d) /\ IntgDigits(d) <= column[1] - column[2]

(* d with all digits from the column's scale on cut off. *)
Truncated(d) ==
    LET n == column[2]
        word(p) == CASE p <= Full(n) -> Word(d, p)
                     [] p = Full(n) + 1 -> Word(d, p) - (Word(d, p) % (Radix ^ (DIG_PER_DEC1 - Partial(n))))
                     [] OTHER -> 0
    IN  [d EXCEPT !.buf = [k \in DOMAIN d.buf |-> word(k - ROUND_UP(d.intg))]]

(* r is what was restored of d, whose cut digits were reported by err. *)
IsRestored(r, d, err) ==
    /\ r.error = E_DEC_OK => SameMagnitude(r.to, Truncated(d))
    /\ r.error = E_DEC_OK /\ err = E_DEC_OK => SameMagnitude(r.to, d)
    /\ r.error = E_DEC_TRUNCATED =>
         \A p \in Positions(r.to, d) :
            p <= ROUND_UP(r.to.frac) => Word(r.to, p) = Word(Truncated(d), p)
    /\ decimal_is_zero(r.to) \/ r.to.sign = d.sign

(* r has the words of d before the broken one a crowded number spoils. *)
HasFullWords(r, d) ==
    \A p \in Positions(r.to, d) :
        p <= Full(column[2]) /\ p <= ROUND_UP(r.to.frac) => Word(r.to, p) = Word(d, p)

(* What is restored is the number that was stored; digits that got lost    *)
(* were reported, by decimal2bin() or, if the column is larger than a      *)
(* buffer, by bin2decimal(), and no others are different.  Only a crowded  *)
(* number is restored with digits behind the column's scale, or not at     *)
(* all, and its other words are right.                                     *)
RestoredIsStored ==
    \A k \in DOMAIN rows :
      LET d == rows[k].num
          r == bin2decimal(rows[k].bin, column[1], column[2])
      IN  /\ ~Crowded(d) => WordsOK(r.to) /\ r.error # E_DEC_BAD_NUM
          /\ Storable(d) =>
               IF Crowded(d) THEN r.error \in {E_DEC_OVERFLOW, E_DEC_BAD_NUM} \/ HasFullWords(r, d)
               ELSE IsRestored(r, d, rows[k].error)

(* The sign of a comparison of bytes. *)
memcmp(b, c) ==
    CASE b = c -> 0
      [] \E i \in DOMAIN b : b[i] < c[i] /\ \A j \in 1 .. i - 1 : b[j] = c[j] -> -1
      [] OTHER -> 1

(* memcmp() of two rows is decimal_cmp() of the numbers, unless digits     *)
(* were lost that make the difference: then they may be equal.             *)
OrderIsKept ==
    \A i, j \in DOMAIN rows :
      LET a == rows[i].num
          b == rows[j].num
      IN  (\A d \in {a, b} : Storable(d) /\ ~Crowded(d)) =>
            \/ memcmp(rows[i].bin, rows[j].bin) = decimal_cmp(a, b)
            \/ /\ memcmp(rows[i].bin, rows[j].bin) = 0
               /\ E_DEC_TRUNCATED \in {rows[i].error, rows[j].error}

(* No number of the column comes after max_decimal(), which needs the      *)
(* words decimal_size() says and is stored without a loss.                 *)
MaxIsLast ==
    LET max == max_decimal(column[1], column[2])
        bin == decimal2bin(max, column[1], column[2])
    IN  /\ bin.error = E_DEC_OK
        /\ Len(max.buf) = decimal_size(column[1], column[2])
        /\ \A k \in DOMAIN rows : ~Crowded(rows[k].num) => memcmp(rows[k].bin, bin.bin) <= 0

(* The bytes of a column sort as its numbers do, with nothing behind the   *)
(* largest.                                                                *)
SortedByBytes == OrderIsKept /\ MaxIsLast
=============================================================================
