------------------------------- MODULE ItemSpec -------------------------------
(***************************************************************************)
(* What a group of value methods promises: whatever expression is built    *)
(* and whichever type the driver asks of it, the answer is the value SQL   *)
(* gives the expression.  Nothing is said of how it is found.              *)
(***************************************************************************)
EXTENDS ItemTree

VARIABLES
    asked,      \* the driver's call, or NoAsk
    answer      \* its answer: a sequence of none or one result

NoAsk == [n |-> 0, t |-> "bool"]

specVars == <<items, sem, asked, answer>>

Init == TreeInit /\ asked = NoAsk /\ answer = <<>>

Build == asked = NoAsk /\ Construct /\ UNCHANGED <<asked, answer>>

Ask(n, T) ==
    /\ asked = NoAsk
    /\ asked' = [n |-> n, t |-> T]
    /\ UNCHANGED <<items, sem, answer>>

Answer ==
    /\ asked # NoAsk
    /\ answer = <<>>
    /\ answer' = <<sem[asked.n][asked.t]>>
    /\ UNCHANGED <<items, sem, asked>>

Take ==
    /\ answer # <<>>
    /\ asked' = NoAsk
    /\ answer' = <<>>
    /\ UNCHANGED <<items, sem>>

Next ==
    \/ Build
    \/ \E n \in DOMAIN items, T \in ValueTypes : Ask(n, T)
    \/ Answer
    \/ Take

Spec == Init /\ [][Next]_specVars
=============================================================================
