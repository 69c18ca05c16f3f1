------------------------------ MODULE FixedTests ------------------------------
(***************************************************************************)
(* The fixed tests of ./test: each makes the items of its table entry and  *)
(* measures one after the other by the four loops of Bench, on memory that *)
(* holds anything.  Whether what is wrong with some of the value methods   *)
(* shows in the sums these tests print.                                    *)
(*                                                                         *)
(* Beside them stands a test that makes and measures what it likes, as the *)
(* tests of random expressions do.                                         *)
(***************************************************************************)
EXTENDS Bench, TestTable

CONSTANT Selected       \* bound: the places in the table of the tests run

VARIABLES
    script,     \* the test
    asks,       \* the measurements it has not begun
    garbage     \* bound: what all the null_value of its functions hold

fixedVars == <<benchVars, script, asks, garbage>>
scriptVars == <<script, asks, garbage>>

FreeTest == Native(<<>>, LeafPool, <<>>, <<>>)

FixedInit ==
    /\ script \in {FreeTest} \cup {AllFixed[i] : i \in Selected}
    /\ items = [i \in DOMAIN script.leaves |-> Leaf(script.leaves[i])]
    /\ sem = [i \in DOMAIN script.leaves |-> ItemSem(Leaf(script.leaves[i]), <<>>)]
    /\ null_value = [i \in DOMAIN script.leaves |-> script.leaves[i].kind = "null"]
    /\ \E int32api \in BOOLEAN : asks = Asks(script, int32api)
    /\ garbage \in BOOLEAN /\ (script = FreeTest => ~garbage)
    /\ MachineInit
    /\ flags = <<>>
    /\ LoopInit

Made == Len(items) = Len(script.leaves) + Len(script.funcs)

(* new Item_func_xxx(...): the next of the test's items. *)
New_item ==
    /\ script # FreeTest
    /\ ~Made
    /\ LET f == script.funcs[Len(items) - Len(script.leaves) + 1]
       IN  NewItem(f.kind, f.args)
    /\ null_value' = Append(null_value, garbage)
    /\ UNCHANGED <<machineVars, flags, loopVars, scriptVars>>

(* test_b(), test_ll() ... or test_native() of the next. *)
Measure ==
    /\ script # FreeTest
    /\ Made
    /\ asks # <<>>
    /\ StartTest(Head(asks).n, Head(asks).t)
    /\ asks' = Tail(asks)
    /\ UNCHANGED <<script, garbage>>

(* What Bench allows, by the free test. *)
Anything ==
    /\ script = FreeTest
    /\ BuildItem \/ \E n \in DOMAIN items, T \in ValueTypes : StartTest(n, T)
    /\ UNCHANGED scriptVars

Continue == Go /\ UNCHANGED scriptVars

FixedNext == New_item \/ Measure \/ Anything \/ Continue

FixedSpec == FixedInit /\ [][FixedNext]_fixedVars

(* The one thread goes on with the test it has started. *)
FairSpec == FixedSpec /\ WF_fixedVars(Continue)

-----------------------------------------------------------------------------
(* Properties. *)

(* Every loop of every test adds up Count right answers, whatever the      *)
(* memory of items and flags held, whatever the other loops left behind    *)
(* and in whichever order they run.  The free test meets the mistakes of   *)
(* Mistaken(); none of them shows in a fixed one.                          *)
SumsAreRight ==
    test # NoReq /\ method = "done" =>
        LET r == sem[test.n][test.t]
        IN  \A m \in Methods :
              (script = FreeTest => test.n \in Free(Mistaken(m))) =>
                sums[m] = IF r.null THEN 0 ELSE Count * Num(r.v)
=============================================================================
