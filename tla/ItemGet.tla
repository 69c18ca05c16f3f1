-------------------------------- MODULE ItemGet --------------------------------
(***************************************************************************)
(* The methods bool get_xxx(T *to): the NULL flag is returned, the number  *)
(* is written through `to'.  What *to holds after a NULL answer differs    *)
(* from class to class: the caller's variable as it was, a half-done sum,  *)
(* the negation of garbage.  To a caller it is Junk.                       *)
(***************************************************************************)
EXTENDS ItemMachine

getVars == <<items, sem, stack, mode, ret, req>>

NullAnswer == [null |-> TRUE, v |-> Junk]

(* Item_null, Item_bool, Item_int, Item_real and Item_decimal. *)
GetLeafBool(val, T) ==
    Value(IF T = "decimal" THEN UlonglongToDecimal(val) ELSE val)

GetLeafInt(val, T) ==
    Value(CASE T = "bool"    -> ToBool(val)
            [] T = "int32"   -> ToInt32(val)
            [] T = "decimal" -> UlonglongToDecimal(val)
            [] OTHER         -> val)

(* get_decimal() converts the number to a longlong first. *)
GetLeafReal(val, T) ==
    Value(CASE T = "bool"     -> ToBool(val)
            [] T = "int32"    -> ToInt32(Trunc(val))
            [] T = "longlong" -> Trunc(val)
            [] T = "decimal"  -> Double2decimal(Trunc(val))
            [] OTHER          -> val)

GetLeafDecimal(val, T) ==
    Value(CASE T = "bool"     -> ToBool(Trunc(val))
            [] T = "int32"    -> ToInt32(Trunc(val))
            [] T = "longlong" -> Trunc(val)
            [] OTHER          -> val)

GetLeafResult(it, T) ==
    CASE it.kind = "null"    -> NullAnswer
      [] it.kind = "bool"    -> GetLeafBool(it.val, T)
      [] it.kind = "int"     -> GetLeafInt(it.val, T)
      [] it.kind = "real"    -> GetLeafReal(it.val, T)
      [] it.kind = "decimal" -> GetLeafDecimal(it.val, T)

GetLeaf ==
    /\ \E k \in LeafKinds : Begin(k)
    /\ Return(GetLeafResult(Callee, Top.t))
\* Seeded fault: the first operand's flag is not tested.
FaultyGetAdd ==
    \/ Begin("add") /\ CallArg(1, SqlNull)
    \/ After("add", 1) /\ CallArg(2, ret)
    \/ After("add", 2) /\ ret.null /\ Return(NullAnswer)
    \/ /\ After("add", 2)
       /\ ~ret.null
       /\ Return(Value(FromArith(Plus(Top.acc.v, ret.v, ArithType(Top.t)), Top.t)))

(* Item_func_add: get_bool() is get_double() and a conversion. *)
GetAdd ==
    \/ Begin("add") /\ CallArg(1, SqlNull)
    \/ After("add", 1) /\ ret.null /\ Return(NullAnswer)
    \/ After("add", 1) /\ ~ret.null /\ CallArg(2, ret)
    \/ After("add", 2) /\ ret.null /\ Return(NullAnswer)
    \/ /\ After("add", 2)
       /\ ~ret.null
       /\ Return(Value(FromArith(Plus(Top.acc.v, ret.v, ArithType(Top.t)), Top.t)))

(* Item_func_uminus negates *to whether the argument wrote it or not. *)
GetUminus ==
    \/ Begin("uminus") /\ CallArg(1, SqlNull)
    \/ After("uminus", 1) /\ ret.null /\ Return(NullAnswer)
    \/ /\ After("uminus", 1)
       /\ ~ret.null
       /\ Return(Value(FromArith(Neg(ret.v, ArithType(Top.t)), Top.t)))
\* Seeded fault: tmp_null_value is set anew by every operand.
FaultyGetOr ==
    \/ Begin("or") /\ CallArg(1, Value(0))
    \/ Returned("or") /\ IsTrue(ret) /\ Return(Value(One))
    \/ Returned("or") /\ ~IsTrue(ret) /\ Top.i < Last /\ CallArg(Top.i + 1, Value(0))
    \/ Returned("or") /\ ~IsTrue(ret) /\ Top.i = Last
         /\ Return(IF ret.null THEN NullAnswer ELSE Value(0))

(* Item_cond_or: acc is tmp_null_value, NULL or FALSE so far. *)
GetOr ==
    \/ Begin("or") /\ CallArg(1, Value(0))
    \/ Returned("or") /\ IsTrue(ret) /\ Return(Value(One))
    \/ /\ Returned("or")
       /\ ~IsTrue(ret)
       /\ LET soFar == IF ret.null THEN NullAnswer ELSE Top.acc
          IN  \/ Top.i < Last /\ CallArg(Top.i + 1, soFar)
              \/ Top.i = Last /\ Return(soFar)

(* Item_func_isnull does not evaluate an argument whose type is NULL. *)
GetIsnull ==
    \/ Begin("isnull") /\ Callee.cmp = MYSQL_TYPE_NULL /\ Return(Value(One))
    \/ Begin("isnull") /\ Callee.cmp # MYSQL_TYPE_NULL /\ CallArg(1, SqlNull)
    \/ After("isnull", 1) /\ Return(Value(BoolValue(ret.null)))
GetCoalesce ==
    \/ Begin("coalesce") /\ CallArg(1, SqlNull)
    \/ Returned("coalesce") /\ ret.null /\ Top.i < Last /\ CallArg(Top.i + 1, SqlNull)
    \/ Returned("coalesce") /\ (~ret.null \/ Top.i = Last) /\ Return(ret)
\* Seeded fault: the loop does not advance.
FaultyGetLastValue ==
    \/ Begin("last_value") /\ CallArg(1, SqlNull)
    \/ Returned("last_value") /\ Top.i < Last /\ CallArg(Top.i, SqlNull)
    \/ Returned("last_value") /\ Top.i = Last /\ Return(ret)

(* Item_func_last_value evaluates every argument, and answers the last's. *)
GetLastValue ==
    \/ Begin("last_value") /\ CallArg(1, SqlNull)
    \/ Returned("last_value") /\ Top.i < Last /\ CallArg(Top.i + 1, SqlNull)
    \/ Returned("last_value") /\ Top.i = Last /\ Return(ret)
\* Seeded fault: the first operand's flag is not tested.
FaultyGetEq ==
    \/ Begin("eq") /\ CallArg(1, SqlNull)
    \/ After("eq", 1) /\ CallArg(2, ret)
    \/ After("eq", 2) /\ ret.null /\ Return(NullAnswer)
    \/ /\ After("eq", 2)
       /\ ~ret.null
       /\ Return(Value(BoolValue(Top.acc.v = ret.v)))

(* Item_func_eq, which asks its arguments the type Arg_comparator compares *)
(* in; the flag in front of the second operand is that of the || in it.    *)
GetEq ==
    \/ Begin("eq") /\ CallArg(1, SqlNull)
    \/ After("eq", 1) /\ ret.null /\ Return(NullAnswer)
    \/ After("eq", 1) /\ ~ret.null /\ CallArg(2, ret)
    \/ After("eq", 2) /\ ret.null /\ Return(NullAnswer)
    \/ /\ After("eq", 2)
       /\ ~ret.null
       /\ Return(Value(BoolValue(Top.acc.v = ret.v)))

GetStep ==
    \/ GetLeaf \/ GetAdd \/ GetUminus \/ GetOr
    \/ GetIsnull \/ GetCoalesce \/ GetLastValue \/ GetEq

GetInit == TreeInit /\ MachineInit

GetNext == Build \/ Invoke \/ GetStep \/ Leave

GetSpec == GetInit /\ [][GetNext]_getVars

-----------------------------------------------------------------------------
(* Properties. *)

(* get_xxx() of any item the driver asks, in any type it asks it, answers  *)
(* what SQL says: no garbage of a NULL operand reaches an answer, every    *)
(* early return is one SQL allows, IS NULL and the comparator look at      *)
(* their arguments in a type that shows their NULLs.                       *)
GetAnswerCorrect ==
    mode = "ret" /\ stack = <<>> => Norm(ret) = sem[req.n][req.t]

Abstract == INSTANCE ItemSpec WITH
    asked  <- req,
    answer <- IF mode = "ret" /\ stack = <<>> THEN <<Norm(ret)>> ELSE <<>>

(* The get_xxx() methods implement ItemSpec: the recursion of one call is  *)
(* one atomic answer, to the call that was made.                           *)
RefinesItemSpec == Abstract!Spec

(* No item is asked for a decimal unless its type is NULL, BOOL or         *)
(* NEWDECIMAL, however the types of the items above it were merged: the    *)
(* lossy get_decimal() of Item_real, and ulonglong2decimal() of a negative *)
(* Item_int, are never reached from an item evaluated in its native type.  *)
DecimalSafe ==
    \A k \in DOMAIN stack : stack[k].t = "decimal" =>
        items[stack[k].n].type \in
            {MYSQL_TYPE_NULL, MYSQL_TYPE_BOOL, MYSQL_TYPE_NEWDECIMAL}
=============================================================================
