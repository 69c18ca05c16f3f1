----------------------------- MODULE DecimalMul -----------------------------
(***************************************************************************)
(* decimal_mul() over the words of DecimalWords.                           *)
(***************************************************************************)
EXTENDS DecimalWords

\* Seeded fault: the words to do without come all from the second factor.
FaultyKept(a, b, fix) ==
    LET intg == ROUND_UP(a.intg + b.intg) - fix.intg
        frac == ROUND_UP(a.frac) + ROUND_UP(b.frac) - fix.frac
    IN  IF intg > 0
        THEN [intg1 |-> ROUND_UP(a.intg), intg2 |-> ROUND_UP(b.intg) - intg,
              frac1 |-> 0, frac2 |-> 0]
        ELSE [intg1 |-> ROUND_UP(a.intg), intg2 |-> ROUND_UP(b.intg),
              frac1 |-> ROUND_UP(a.frac), frac2 |-> ROUND_UP(b.frac) - frac]

(* The words of the factors that are multiplied.  What the product has no  *)
(* room for is shared between them: the longer fraction gives the odd      *)
(* word, and a fraction that is too short gives words of the integer.      *)
Kept(a, b, fix) ==
    LET i == ROUND_UP(a.intg + b.intg) - fix.intg
        j == ROUND_UP(a.frac) + ROUND_UP(b.frac) - fix.frac
        fewer == IF ROUND_UP(a.frac) <= ROUND_UP(b.frac) THEN j \div 2 ELSE j - (j \div 2)
    IN  IF i > 0
        THEN [intg1 |-> ROUND_UP(a.intg) - (i \div 2),
              intg2 |-> ROUND_UP(b.intg) - (i - (i \div 2)),
              frac1 |-> 0, frac2 |-> 0]
        ELSE [intg1 |-> ROUND_UP(a.intg), intg2 |-> ROUND_UP(b.intg),
              frac1 |-> ROUND_UP(a.frac) - fewer,
              frac2 |-> ROUND_UP(b.frac) - (j - fewer)]

(* One turn of the outer loop: the word of a at p times those of b, added  *)
(* to what is there, the carry running on to the first word.               *)
Sums(row, a, p, b, kept, first) ==
    LET last == p + kept.frac2
        sum[q \in first .. last + 1] ==
            IF q > last THEN 0
            ELSE row[q] + (IF q - p > -kept.intg2 THEN Word(a, p) * Word(b, q - p) ELSE 0)
                        + sum[q + 1] \div DIG_BASE
    IN  sum

AddRow(row, a, p, b, kept, first) ==
    LET sum == Sums(row, a, p, b, kept, first)
    IN  [q \in DOMAIN row |-> IF q > p + kept.frac2 THEN row[q] ELSE sum[q] % DIG_BASE]

(* A carry out of the first word: the early returns of the loops. *)
CarryOut(row, a, p, b, kept, first) ==
    first <= p + kept.frac2 /\ Sums(row, a, p, b, kept, first)[first] >= DIG_BASE

(* The product after each turn, from the last kept word of a to its first. *)
Rows(a, b, kept, fix) ==
    LET rows[p \in 1 - kept.intg1 .. kept.frac1 + 1] ==
            IF p > kept.frac1 THEN [q \in 1 - fix.intg .. fix.frac |-> 0]
            ELSE AddRow(rows[p + 1], a, p, b, kept, 1 - fix.intg)
    IN  rows

(* The zero words at the ends go, but for the last before the point; a     *)
(* fraction that ends in one is counted in words from then on.             *)
Trimmed(d) ==
    LET f == Max({0} \cup {p \in 1 .. ROUND_UP(d.frac) : Word(d, p) # 0})
        all == ROUND_UP(d.intg)
        skip == Max({k \in 0 .. all : (k = 0 \/ k < all) /\ \A i \in 1 .. k : d.buf[i] = 0})
    IN  [d EXCEPT !.intg = @ - skip * DIG_PER_DEC1,
                  !.frac = IF f = ROUND_UP(@) THEN @ ELSE f * DIG_PER_DEC1,
                  !.buf  = SubSeq(@, skip + 1, all + f)]

(* The sign of a product that is trimmed to a zero without a fraction goes. *)
Signed(d) ==
    IF d.sign /\ d.frac = 0 /\ decimal_is_zero(d) THEN Zero ELSE d

(* The words a product would need, cut to those there are. *)
MulFix(a, b) ==
    FixIntgFrac(ROUND_UP(a.intg + b.intg), ROUND_UP(a.frac) + ROUND_UP(b.frac))

decimal_mul(a, b) ==
    LET fix  == MulFix(a, b)
        kept == Kept(a, b, fix)
        rows == Rows(a, b, kept, fix)
        lost == \E p \in 1 - kept.intg1 .. kept.frac1 :
                    CarryOut(rows[p + 1], a, p, b, kept, 1 - fix.intg)
        r == Result(a.sign # b.sign, a.frac + b.frac, fix, rows[1 - kept.intg1])
    IN  [to    |-> Signed(Trimmed(r.to)),
         error |-> IF lost THEN E_DEC_OVERFLOW ELSE r.error]
=============================================================================
