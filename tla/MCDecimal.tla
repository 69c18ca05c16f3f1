------------------------------ MODULE MCDecimal ------------------------------
(***************************************************************************)
(* Decimal with words of two digits and a buffer of three words.  The      *)
(* literals are every number of the shapes, leading and trailing zeros     *)
(* included: one word before the point and one after it, fractions alone,  *)
(* two words before the point.                                             *)
(***************************************************************************)
EXTENDS Decimal

MCShapes == {<<1, 1>>, <<0, 3>>, <<3, 0>>, <<3, 2>>}
=============================================================================
