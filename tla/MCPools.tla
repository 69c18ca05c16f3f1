-------------------------------- MODULE MCPools --------------------------------
(***************************************************************************)
(* The literals of the model-checked instances.  One is 2 in all of them,  *)
(* so that 2 is the number 1 and 3 the number 1.5.                         *)
(***************************************************************************)

LOCAL Lit(k, v) == [kind |-> k, val |-> v]

(* One literal of every class, the double and the decimal with a fraction. *)
OfEveryClass ==
    << Lit("null", 0), Lit("bool", 0), Lit("int", 4), Lit("real", 3),
       Lit("decimal", 1) >>

(* Without doubles. *)
NoReal == << Lit("null", 0), Lit("bool", 0), Lit("int", 4), Lit("decimal", 1) >>

(* NULL and an integer, which is measured in two types. *)
NullAndInt == << Lit("null", 0), Lit("int", 4) >>

(* Two literals of one class. *)
TwoInts == << Lit("int", 2), Lit("int", 4) >>
TrueAndFalse == << Lit("bool", 2), Lit("bool", 0) >>
=============================================================================
