-------------------------------- MODULE ItemOld --------------------------------
(***************************************************************************)
(* The methods T val_xxx(): the number is returned, the NULL flag is the   *)
(* item's member null_value, which the caller reads afterwards.  Literals  *)
(* set theirs once, in the constructor; a function's is not initialised    *)
(* and holds garbage until one of its methods has run.                     *)
(*                                                                         *)
(* Only ret.v is the answer here.  val_decimal() returns a pointer, Junk   *)
(* stands for the null pointer.                                            *)
(***************************************************************************)
EXTENDS ItemMachine

VARIABLE null_value     \* null_value[n] is the member of items[n]

oldVars == <<items, sem, stack, mode, ret, req, null_value>>

(* The flag of the argument whose answer the top frame takes. *)
ArgNull == null_value[Arg(Top.i)]

(* Returning the number v and leaving null_value at b, or as it is. *)
ReturnFlag(v, b) ==
    Return(Value(v)) /\ null_value' = [null_value EXCEPT ![Top.n] = b]

KeepNull == UNCHANGED null_value

(* What a NULL answer carries: 0, and of add, uminus and coalesce a null   *)
(* pointer.                                                                *)
NullNumber(T) == IF T = "decimal" THEN Junk ELSE 0

OldLeafInt(val, T) ==
    CASE T = "bool"    -> ToBool(val)
      [] T = "int32"   -> ToInt32(val)
      [] T = "decimal" -> UlonglongToDecimal(val)
      [] OTHER         -> val

OldLeafReal(val, T) ==
    CASE T = "bool"     -> ToBool(val)
      [] T = "int32"    -> ToInt32(Trunc(val))
      [] T = "longlong" -> Trunc(val)
      [] T = "decimal"  -> Double2decimal(val)
      [] OTHER          -> val

OldLeafDecimal(val, T) ==
    CASE T = "bool"     -> ToBool(Trunc(val))
      [] T = "int32"    -> ToInt32(Trunc(val))
      [] T = "longlong" -> Trunc(val)
      [] OTHER          -> val

OldLeafNumber(it, T) ==
    CASE it.kind = "null"    -> 0
      [] it.kind = "bool"    -> it.val
      [] it.kind = "int"     -> OldLeafInt(it.val, T)
      [] it.kind = "real"    -> OldLeafReal(it.val, T)
      [] it.kind = "decimal" -> OldLeafDecimal(it.val, T)

(* A literal's methods do not touch its null_value. *)
OldLeaf ==
    /\ \E k \in LeafKinds : Begin(k)
    /\ Return(Value(OldLeafNumber(Callee, Top.t)))
    /\ KeepNull
OldAdd ==
    \/ Begin("add") /\ CallArg(1, SqlNull) /\ KeepNull
    \/ After("add", 1) /\ ArgNull /\ ReturnFlag(NullNumber(Top.t), TRUE)
    \/ After("add", 1) /\ ~ArgNull /\ CallArg(2, ret) /\ KeepNull
    \/ After("add", 2) /\ ArgNull /\ ReturnFlag(NullNumber(Top.t), TRUE)
    \/ /\ After("add", 2)
       /\ ~ArgNull
       /\ ReturnFlag(FromArith(Plus(Top.acc.v, ret.v, ArithType(Top.t)), Top.t), FALSE)
\* Seeded fault: null_value is not cleared.
FaultyOldUminus ==
    \/ Begin("uminus") /\ CallArg(1, SqlNull) /\ KeepNull
    \/ After("uminus", 1) /\ ArgNull /\ ReturnFlag(NullNumber(Top.t), TRUE)
    \/ /\ After("uminus", 1)
       /\ ~ArgNull
       /\ Return(Value(FromArith(Neg(ret.v, ArithType(Top.t)), Top.t)))
       /\ KeepNull

OldUminus ==
    \/ Begin("uminus") /\ CallArg(1, SqlNull) /\ KeepNull
    \/ After("uminus", 1) /\ ArgNull /\ ReturnFlag(NullNumber(Top.t), TRUE)
    \/ /\ After("uminus", 1)
       /\ ~ArgNull
       /\ ReturnFlag(FromArith(Neg(ret.v, ArithType(Top.t)), Top.t), FALSE)

(* Item_cond_or looks at an argument's number before its flag: a NULL      *)
(* argument must answer FALSE.                                             *)
OldOr ==
    \/ /\ Begin("or")
       /\ CallArg(1, SqlNull)
       /\ null_value' = [null_value EXCEPT ![Top.n] = FALSE]
    \/ Returned("or") /\ ret.v # 0 /\ ReturnFlag(One, FALSE)
    \/ /\ Returned("or")
       /\ ret.v = 0
       /\ \/ Top.i < Last /\ CallArg(Top.i + 1, SqlNull)
          \/ Top.i = Last /\ Return(Value(0))
       /\ null_value' = [null_value EXCEPT ![Top.n] = @ \/ ArgNull]

OldIsnull ==
    \/ Begin("isnull") /\ Callee.cmp = MYSQL_TYPE_NULL /\ ReturnFlag(One, FALSE)
    \/ /\ Begin("isnull")
       /\ Callee.cmp # MYSQL_TYPE_NULL
       /\ CallArg(1, SqlNull)
       /\ null_value' = [null_value EXCEPT ![Top.n] = FALSE]
    \/ After("isnull", 1) /\ Return(Value(BoolValue(ArgNull))) /\ KeepNull

OldCoalesce ==
    \/ /\ Begin("coalesce")
       /\ CallArg(1, SqlNull)
       /\ null_value' = [null_value EXCEPT ![Top.n] = FALSE]
    \/ Returned("coalesce") /\ ~ArgNull /\ Return(ret) /\ KeepNull
    \/ Returned("coalesce") /\ ArgNull /\ Top.i < Last
         /\ CallArg(Top.i + 1, SqlNull) /\ KeepNull
    \/ Returned("coalesce") /\ ArgNull /\ Top.i = Last
         /\ ReturnFlag(NullNumber(Top.t), TRUE)

OldLastValue ==
    \/ Begin("last_value") /\ CallArg(1, SqlNull) /\ KeepNull
    \/ Returned("last_value") /\ Top.i < Last
         /\ CallArg(Top.i + 1, SqlNull) /\ KeepNull
    \/ Returned("last_value") /\ Top.i = Last /\ ReturnFlag(ret.v, ArgNull)

(* eq_decimal_using_val_decimal() evaluates its first argument twice; the  *)
(* other comparisons, their second argument.                               *)
SecondOperand ==
    IF Callee.cmp = MYSQL_TYPE_NEWDECIMAL THEN CallAgain(1, 2, ret)
    ELSE CallArg(2, ret)

OldEq ==
    \/ Begin("eq") /\ CallArg(1, SqlNull) /\ KeepNull
    \/ After("eq", 1) /\ ArgNull /\ ReturnFlag(0, TRUE)
    \/ After("eq", 1) /\ ~ArgNull /\ SecondOperand /\ KeepNull
    \/ After("eq", 2) /\ ArgNull /\ ReturnFlag(0, TRUE)
    \/ After("eq", 2) /\ ~ArgNull /\ ReturnFlag(BoolValue(Top.acc.v = ret.v), FALSE)

OldStep ==
    \/ OldLeaf \/ OldAdd \/ OldUminus \/ OldOr
    \/ OldIsnull \/ OldCoalesce \/ OldLastValue \/ OldEq

(* The constructors of the literals. *)
OldInit ==
    /\ TreeInit
    /\ MachineInit
    /\ null_value = [i \in DOMAIN LeafPool |-> LeafPool[i].kind = "null"]

\* Seeded fault: the item has no flag.
FaultyOldBuild ==
    /\ Build
    /\ UNCHANGED null_value

(* A function item is built with an indeterminate null_value. *)
OldBuild ==
    /\ Build
    /\ \E b \in BOOLEAN : null_value' = Append(null_value, b)

OldNext ==
    \/ OldBuild
    \/ Invoke /\ KeepNull
    \/ OldStep
    \/ Leave /\ KeepNull

OldSpec == OldInit /\ [][OldNext]_oldVars

-----------------------------------------------------------------------------
(* Properties. *)

OldTypeOK ==
    /\ TypeOK
    /\ null_value \in Seq(BOOLEAN)
    /\ Len(null_value) = Len(items)

(* What the driver sees: it reads null_value, and the number only if clear. *)
OldAnswer == Norm([null |-> null_value[req.n], v |-> ret.v])

(* The comparisons eq_decimal_using_val_decimal() does. *)
DecimalComparisons ==
    {n \in OfKind({"eq"}) : items[n].cmp = MYSQL_TYPE_NEWDECIMAL}

(* val_xxx() answers what SQL says, in any order of calls, of expressions  *)
(* that compare no decimals: the flag the driver reads is the one this     *)
(* call left, not garbage or an older one.                                 *)
OldAnswerCorrect ==
    mode = "ret" /\ stack = <<>> /\ req.n \in Free(DecimalComparisons) =>
        OldAnswer = sem[req.n][req.t]

(* The convention Item_cond_or relies on when it tests val_bool() before   *)
(* null_value: whoever answers NULL to it answers FALSE.                   *)
NullIsFalse ==
    mode = "ret" /\ stack # <<>> /\ Callee.kind = "or" /\ ArgNull => ret.v = 0
=============================================================================
