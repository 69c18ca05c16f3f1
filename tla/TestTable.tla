------------------------------ MODULE TestTable ------------------------------
(***************************************************************************)
(* The tests of ./test, in the order of the table they are run by: the     *)
(* items each of them makes, literals first, and the items it measures.    *)
(* The arguments of a function are places among the test's own items.      *)
(***************************************************************************)
EXTENDS ItemTypes

Lit(k, v) == [kind |-> k, val |-> v]
Fn(k, as) == [kind |-> k, args |-> as]

(* A test that measures its items by test_native(); `asked' is <<>>. *)
Native(name, leaves, funcs, shown) ==
    [name |-> name, leaves |-> leaves, funcs |-> funcs, shown |-> shown, asked |-> <<>>]

x == One
y == 2 * One

(* Here the methods are named: test_b(nl), test_ll(nl), test_d(nl), ... *)
Test_null_misc ==
    [name   |-> <<"null", "misc">>,
     leaves |-> <<Lit("null", 0), Lit("bool", 0), Lit("real", x), Lit("int", x)>>,
     funcs  |-> <<Fn("coalesce", <<1>>), Fn("coalesce", <<1, 1>>)>>,
     shown  |-> <<1, 1, 1, 5, 6>>,
     asked  |-> <<"bool", "longlong", "double", "bool", "bool">>]

Test_bool_isnull ==
    Native(<<"bool", "isnull">>,
           <<Lit("null", 0), Lit("bool", 0), Lit("real", x), Lit("int", x)>>,
           <<Fn("isnull", <<1>>), Fn("isnull", <<2>>), Fn("isnull", <<4>>), Fn("isnull", <<3>>)>>,
           <<5, 6, 7, 8>>)

Test_bool_misc ==
    Native(<<"bool", "misc">>, <<Lit("bool", 0), Lit("bool", One)>>, <<>>, <<1, 2>>)

Test_bool_or ==
    Native(<<"bool", "or">>,
           <<Lit("null", 0), Lit("bool", 0), Lit("bool", One)>>,
           <<Fn("or", <<1, 1>>), Fn("or", <<1, 2>>), Fn("or", <<1, 3>>),
             Fn("or", <<2, 1>>), Fn("or", <<2, 2>>), Fn("or", <<2, 3>>),
             Fn("or", <<3, 2>>), Fn("or", <<3, 3>>),
             Fn("or", <<2, 1, 3>>), Fn("or", <<7, 3>>)>>,
           <<4, 5, 6, 7, 8, 9, 10, 11, 12, 13>>)

Test_bool_coalesce ==
    Native(<<"bool", "coalesce">>,
           <<Lit("null", 0), Lit("bool", 0)>>,
           <<Fn("coalesce", <<2>>), Fn("coalesce", <<1, 2>>)>>,
           <<3, 4>>)

(* An item, its negation and the negation of that. *)
Misc(name, lit) ==
    Native(name, <<lit>>, <<Fn("uminus", <<1>>), Fn("uminus", <<2>>)>>, <<1, 2, 3>>)

Eq(name, lit) ==
    Native(name, <<Lit("null", 0), lit>>,
           <<Fn("eq", <<1, 1>>), Fn("eq", <<2, 1>>), Fn("eq", <<2, 2>>)>>, <<3, 4, 5>>)

Last_value(name, lit) ==
    Native(name, <<lit>>, <<Fn("last_value", <<1>>), Fn("last_value", <<1, 1, 1>>)>>, <<2, 3>>)

Test_ll_plus ==
    Native(<<"ll", "plus">>,
           <<Lit("null", 0), Lit("int", x), Lit("int", y)>>,
           <<Fn("add", <<2, 1>>), Fn("add", <<1, 2>>), Fn("add", <<2, 3>>), Fn("add", <<6, 2>>),
             Fn("add", <<6, 3>>), Fn("add", <<7, 3>>), Fn("add", <<9, 2>>)>>,
           <<4, 5, 6, 7, 8, 10>>)

(* Of the two double and decimal tests of sums. *)
Plus_misc(name, kind) ==
    Native(name, <<Lit("null", 0), Lit(kind, x), Lit(kind, y)>>,
           <<Fn("add", <<1, 2>>), Fn("add", <<2, 1>>), Fn("add", <<2, 3>>), Fn("add", <<6, 2>>),
             Fn("add", <<6, 3>>), Fn("add", <<8, 3>>), Fn("add", <<9, 2>>)>>,
           <<4, 5, 6, 7, 10>>)

Test_ll_coalesce ==
    Native(<<"ll", "coalesce">>,
           <<Lit("null", 0), Lit("int", x)>>,
           <<Fn("coalesce", <<2>>), Fn("coalesce", <<1, 1>>), Fn("coalesce", <<1, 2>>),
             Fn("coalesce", <<4, 2>>)>>,
           <<3, 5, 6>>)

Coalesce_misc(name, lit) ==
    Native(name, <<Lit("null", 0), lit>>,
           <<Fn("coalesce", <<2>>), Fn("coalesce", <<1, 2>>), Fn("coalesce", <<1, 1>>),
             Fn("coalesce", <<1, 1, 2>>), Fn("coalesce", <<5, 2>>)>>,
           <<3, 4, 6, 7>>)

BoolTests ==
    <<Test_bool_misc,
      Eq(<<"bool", "eq">>, Lit("bool", 0)),
      Test_bool_or,
      Test_bool_coalesce,
      Last_value(<<"bool", "last_value">>, Lit("bool", 0))>>

LonglongTests ==
    <<Misc(<<"ll", "misc">>, Lit("int", x)),
      Eq(<<"ll", "eq">>, Lit("int", x)),
      Test_ll_plus,
      Test_ll_coalesce,
      Last_value(<<"ll", "last_value">>, Lit("int", x))>>

DoubleTests ==
    <<Misc(<<"double", "misc">>, Lit("real", x)),
      Eq(<<"double", "eq">>, Lit("real", x)),
      Plus_misc(<<"double", "plus">>, "real"),
      Coalesce_misc(<<"double", "coalesce">>, Lit("real", x)),
      Last_value(<<"double", "last_value">>, Lit("real", x))>>

(* The last one takes doubles. *)
DecimalTests ==
    <<Misc(<<"decimal", "misc">>, Lit("decimal", x)),
      Eq(<<"decimal", "eq">>, Lit("decimal", x)),
      Plus_misc(<<"decimal", "plus">>, "decimal"),
      Coalesce_misc(<<"decimal", "coalesce">>, Lit("decimal", x)),
      Last_value(<<"decimal", "last_value">>, Lit("real", x))>>

AllFixed ==
    <<Test_null_misc, Test_bool_isnull>> \o BoolTests \o LonglongTests
      \o DoubleTests \o DecimalTests

-----------------------------------------------------------------------------
(* The types of a test's items. *)
ItemTypesOf(test) ==
    LET m == Len(test.leaves)
        type[n \in 1 .. m + Len(test.funcs)] ==
            IF n <= m THEN LeafType(test.leaves[n].kind)
            ELSE LET f == test.funcs[n - m]
                 IN  FuncType(f.kind, [j \in DOMAIN f.args |-> type[f.args[j]]])
    IN  type

(* The type each of its measurements is of. *)
Measured(test) ==
    IF test.asked # <<>> THEN test.asked
    ELSE [i \in DOMAIN test.shown |-> NativeType(ItemTypesOf(test)[test.shown[i]])]

(* The measurements as pairs of an item and a type; with --int32 those of  *)
(* a longlong are preceded by one of an int32.                             *)
Asks(test, int32api) ==
    LET pairs == [i \in 1 .. Len(test.shown) |->
            LET T == Measured(test)[i]
            IN  (IF int32api /\ T = "longlong" THEN <<[n |-> test.shown[i], t |-> "int32"]>> ELSE <<>>)
                  \o <<[n |-> test.shown[i], t |-> T]>>]
        upto[i \in 0 .. Len(test.shown)] == IF i = 0 THEN <<>> ELSE upto[i - 1] \o pairs[i]
    IN  upto[Len(test.shown)]
=============================================================================
