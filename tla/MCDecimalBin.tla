---- MODULE MCDecimalBin ----
(* Words of four digits in two bytes, which wrap at 65536, buffers of two *)
(* words; one and two digits fit a byte, three need as many as four.      *)
(* 0.66, crowded into one digit, wraps into the range of a word; 0.43     *)
(* does not.                                                              *)
EXTENDS DecimalBin

\* Of the numbers that are stored; no literals are made.
MCSizes == {<<1, 4>>, <<5, 1>>, <<0, 2>>, <<2, 3>>}
MCDig2Bytes == [n \in 0 .. 4 |-> <<0, 1, 1, 2, 2>>[n + 1]]
MCColumns == {<<2, 2>>, <<3, 1>>, <<5, 4>>, <<7, 5>>, <<8, 3>>, <<11, 6>>, <<10, 0>>}

MCWords == {0, 9, 4300, 6600, 6610, 9000, 9999}
MCNumbers ==
    UNION { { d \in [sign : BOOLEAN, intg : {s[1]}, frac : {s[2]},
                     buf : [1 .. ROUND_UP(s[1]) + ROUND_UP(s[2]) -> MCWords]] :
              WordsOK(d) /\ (d.sign => ~decimal_is_zero(d)) } : s \in MCSizes }
====
