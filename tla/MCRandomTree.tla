----------------------------- MODULE MCRandomTree -----------------------------
(* The integer and one other literal. *)
EXTENDS RandomTree

MCLiterals == << [kind |-> "null", val |-> 0], [kind |-> "int", val |-> 4] >>
=============================================================================
