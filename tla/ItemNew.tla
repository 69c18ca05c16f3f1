-------------------------------- MODULE ItemNew --------------------------------
(***************************************************************************)
(* The methods Xxx_null to_xxx_null(): a struct of the number and the NULL *)
(* flag is returned by value.  The number under a raised flag is an        *)
(* ordinary number, which some callers do use.                             *)
(***************************************************************************)
EXTENDS ItemMachine

newVars == <<items, sem, stack, mode, ret, req>>

NewLeafInt(val, T) ==
    CASE T = "bool"  -> ToBool(val)
      [] T = "int32" -> ToInt32(val)
      [] OTHER       -> val

(* to_decimal_null() converts the number to a longlong first. *)
NewLeafReal(val, T) ==
    CASE T = "bool"                    -> ToBool(val)
      [] T = "int32"                   -> ToInt32(Trunc(val))
      [] T \in {"longlong", "decimal"} -> Trunc(val)
      [] OTHER                         -> val

NewLeafDecimal(val, T) ==
    CASE T = "bool"     -> ToBool(Trunc(val))
      [] T = "int32"    -> ToInt32(Trunc(val))
      [] T = "longlong" -> Trunc(val)
      [] OTHER          -> val

NewLeafResult(it, T) ==
    CASE it.kind = "null"    -> SqlNull
      [] it.kind = "bool"    -> Value(it.val)
      [] it.kind = "int"     -> Value(NewLeafInt(it.val, T))
      [] it.kind = "real"    -> Value(NewLeafReal(it.val, T))
      [] it.kind = "decimal" -> Value(NewLeafDecimal(it.val, T))

NewLeaf ==
    /\ \E k \in LeafKinds : Begin(k)
    /\ Return(NewLeafResult(Callee, Top.t))

(* Bool_null::operator|=, which takes the other's value for its flag. *)
OrAssign(res, other) ==
    [null |-> res.null \/ other.v # 0,
     v    |-> BoolValue(res.v # 0 \/ other.v # 0)]

(* The sum of two structs: the second decides whether it is NULL. *)
SumOf(nr0, nr1, T) ==
    IF T = "decimal" /\ nr1.null THEN nr1
    ELSE [null |-> nr1.null,
          v    |-> FromArith(Plus(nr0.v, nr1.v, ArithType(T)), T)]

NewAdd ==
    \/ Begin("add") /\ CallArg(1, SqlNull)
    \/ /\ After("add", 1)
       /\ ret.null
       /\ Return([ret EXCEPT !.v = FromArith(@, Top.t)])
    \/ After("add", 1) /\ ~ret.null /\ CallArg(2, ret)
    \/ After("add", 2) /\ Return(SumOf(Top.acc, ret, Top.t))

NewUminus ==
    \/ Begin("uminus") /\ CallArg(1, SqlNull)
    \/ /\ After("uminus", 1)
       /\ Return([ret EXCEPT !.v = FromArith(Neg(@, ArithType(Top.t)), Top.t)])

(* Item_cond_or: acc is res, the first argument's answer to begin with. *)
NewOr ==
    \/ Begin("or") /\ CallArg(1, SqlNull)
    \/ Returned("or") /\ IsTrue(ret) /\ Return(ret)
    \/ /\ Returned("or")
       /\ ~IsTrue(ret)
       /\ LET res == IF Top.i = 1 THEN ret ELSE OrAssign(Top.acc, ret)
          IN  \/ Top.i < Last /\ CallArg(Top.i + 1, res)
              \/ Top.i = Last /\ Return(res)

NewIsnull ==
    \/ Begin("isnull") /\ Callee.cmp = MYSQL_TYPE_NULL /\ Return(Value(One))
    \/ Begin("isnull") /\ Callee.cmp # MYSQL_TYPE_NULL /\ CallArg(1, SqlNull)
    \/ After("isnull", 1) /\ Return(Value(BoolValue(ret.null)))

NewCoalesce ==
    \/ Begin("coalesce") /\ CallArg(1, SqlNull)
    \/ Returned("coalesce") /\ ret.null /\ Top.i < Last /\ CallArg(Top.i + 1, SqlNull)
    \/ Returned("coalesce") /\ (~ret.null \/ Top.i = Last) /\ Return(ret)

NewLastValue ==
    \/ Begin("last_value") /\ CallArg(1, SqlNull)
    \/ Returned("last_value") /\ Top.i < Last /\ CallArg(Top.i + 1, SqlNull)
    \/ Returned("last_value") /\ Top.i = Last /\ Return(ret)
\* Seeded fault: the second operand's flag is not passed on.
FaultyNewEq ==
    \/ Begin("eq") /\ CallArg(1, SqlNull)
    \/ /\ After("eq", 1)
       /\ ret.null
       /\ Return(IF NativeType(Callee.cmp) = "bool" THEN ret ELSE SqlNull)
    \/ After("eq", 1) /\ ~ret.null /\ CallArg(2, ret)
    \/ After("eq", 2) /\ Return(Value(BoolValue(Top.acc.v = ret.v)))

(* Item_func_eq: a NULL first operand is answered by itself if booleans    *)
(* are compared, by Bool_null() otherwise; so is a NULL second decimal.    *)
NewEq ==
    \/ Begin("eq") /\ CallArg(1, SqlNull)
    \/ /\ After("eq", 1)
       /\ ret.null
       /\ Return(IF NativeType(Callee.cmp) = "bool" THEN ret ELSE SqlNull)
    \/ After("eq", 1) /\ ~ret.null /\ CallArg(2, ret)
    \/ /\ After("eq", 2)
       /\ Return(IF Callee.cmp = MYSQL_TYPE_NEWDECIMAL /\ ret.null THEN SqlNull
                 ELSE [null |-> ret.null, v |-> BoolValue(Top.acc.v = ret.v)])

NewStep ==
    \/ NewLeaf \/ NewAdd \/ NewUminus \/ NewOr
    \/ NewIsnull \/ NewCoalesce \/ NewLastValue \/ NewEq

NewInit == TreeInit /\ MachineInit

NewNext == Build \/ Invoke \/ NewStep \/ Leave

NewSpec == NewInit /\ [][NewNext]_newVars

-----------------------------------------------------------------------------
(* Properties. *)

(* to_xxx_null() answers what SQL says of expressions without OR, and of   *)
(* expressions without NULL.                                               *)
NewAnswerCorrect ==
    mode = "ret" /\ stack = <<>>
    /\ req.n \in Free(OfKind({"or"})) \cup Free(OfKind({"null"})) =>
        Norm(ret) = sem[req.n][req.t]

(* Item_cond_or::to_bool_null() says of res|= tmp "This ORs the NULL       *)
(* flag": once an operand of OR was NULL, the answer is TRUE or NULL.      *)
(* Here: what OR remembers after its i-th operand is NULL if one of the    *)
(* first i was.                                                            *)
NewOrKeepsNull ==
    \A k \in DOMAIN stack :
        LET f == stack[k]
            it == items[f.n]
        IN  it.kind = "or" /\ f.i > 1 =>
              f.acc.null = (\E j \in 1 .. f.i - 1 : sem[it.args[j]]["bool"].null)
=============================================================================
