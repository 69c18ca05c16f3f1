---- MODULE MCDecimalText ----
(* Words of two digits in base four, buffers of three words.  3 is the    *)
(* digit that is read.                                                    *)
EXTENDS DecimalText

MCTexts ==
    [sign : BOOLEAN, int : {<< >>, <<3>>, <<3, 3>>, <<3, 2>>, <<0, 3>>, <<3, 3, 3, 3, 3>>},
     frac : {<< >>, <<3>>, <<3, 0>>, <<3, 3, 3>>}]
      \cup [sign : {FALSE}, int : {<<3, 3, 3, 3, 3, 3, 3>>}, frac : {<< >>, <<3, 3>>}]
MCIntegers == {0, 2, -35, 1027}
MCSums ==
    [sign : {FALSE}, int : {<<0, 2>>, <<3, 3>>}, frac : {<< >>, <<0, 3>>, <<2>>}]
      \cup [sign : {TRUE}, int : {<< >>, <<0, 0, 1, 2>>}, frac : {<<1, 2>>, <<0, 0>>}]
MCShifts == -7 .. 7
MCScales == -4 .. 5
====
