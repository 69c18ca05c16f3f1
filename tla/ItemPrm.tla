-------------------------------- MODULE ItemPrm --------------------------------
(***************************************************************************)
(* The methods T val_xxx_null(bool *null_value_arg): the number is         *)
(* returned, the NULL flag is written through a pointer.  Most methods     *)
(* pass the pointer they were given on to their arguments; Item_cond_or    *)
(* and the side effects of Item_func_last_value pass that of a local       *)
(* variable.  `flags' holds the variables pointed at, the driver's first   *)
(* and the one the top frame's pointer points at last; none is initialised *)
(* by the code that declares it.                                           *)
(*                                                                         *)
(* Only ret.v is the answer here, the flag is in `flags'.                  *)
(***************************************************************************)
EXTENDS ItemMachine, FiniteSets

VARIABLE flags

prmVars == <<items, sem, stack, mode, ret, req, flags>>

Flag == flags[Len(flags)]               \* *null_value_arg
SetFlag(fs, b) == [fs EXCEPT ![Len(fs)] = b]
OuterFlags == SubSeq(flags, 1, Len(flags) - 1)

KeepFlags == UNCHANGED flags

(* A call whose pointer is that of a new local variable, holding garbage. *)
NewLocal(fs) == \E b \in BOOLEAN : flags' = Append(fs, b)

PrmLeafInt(val, T) ==
    CASE T = "bool"  -> ToBool(val)
      [] T = "int32" -> ToInt32(val)
      [] OTHER       -> val

PrmLeafReal(val, T) ==
    CASE T = "bool"     -> ToBool(val)
      [] T = "int32"    -> ToInt32(Trunc(val))
      [] T = "longlong" -> Trunc(val)
      [] T = "decimal"  -> Double2decimal(val)
      [] OTHER          -> val

PrmLeafDecimal(val, T) ==
    CASE T = "bool"     -> ToBool(Trunc(val))
      [] T = "int32"    -> ToInt32(Trunc(val))
      [] T = "longlong" -> Trunc(val)
      [] OTHER          -> val

PrmLeafNumber(it, T) ==
    CASE it.kind = "null"    -> 0
      [] it.kind = "bool"    -> it.val
      [] it.kind = "int"     -> PrmLeafInt(it.val, T)
      [] it.kind = "real"    -> PrmLeafReal(it.val, T)
      [] it.kind = "decimal" -> PrmLeafDecimal(it.val, T)

PrmLeaf ==
    /\ \E k \in LeafKinds : Begin(k)
    /\ Return(Value(PrmLeafNumber(Callee, Top.t)))
    /\ flags' = SetFlag(flags, Callee.kind = "null")
\* Seeded fault: the second operand overwrites the first's flag.
FaultyPrmAdd ==
    \/ Begin("add") /\ CallArg(1, SqlNull) /\ KeepFlags
    \/ After("add", 1) /\ CallArg(2, ret) /\ KeepFlags
    \/ /\ After("add", 2)
       /\ Return(Value(FromArith(Plus(Top.acc.v, ret.v, ArithType(Top.t)), Top.t)))
       /\ KeepFlags

(* Item_func_add: a NULL first operand is answered by 0, of decimals by    *)
(* itself, and a NULL second decimal by itself.                            *)
PrmAdd ==
    \/ Begin("add") /\ CallArg(1, SqlNull) /\ KeepFlags
    \/ /\ After("add", 1)
       /\ Flag
       /\ Return(IF Top.t = "decimal" THEN ret ELSE Value(0))
       /\ KeepFlags
    \/ After("add", 1) /\ ~Flag /\ CallArg(2, ret) /\ KeepFlags
    \/ /\ After("add", 2)
       /\ Return(IF Top.t = "decimal" /\ Flag THEN ret
                 ELSE Value(FromArith(Plus(Top.acc.v, ret.v, ArithType(Top.t)), Top.t)))
       /\ KeepFlags

(* Item_func_uminus negates without looking at the flag. *)
PrmUminus ==
    \/ Begin("uminus") /\ CallArg(1, SqlNull) /\ KeepFlags
    \/ /\ After("uminus", 1)
       /\ Return(Value(FromArith(Neg(ret.v, ArithType(Top.t)), Top.t)))
       /\ KeepFlags
(* Item_cond_or: null_cur is declared in the loop, a fresh one for every   *)
(* argument; the caller's flag is cleared only by a TRUE argument, and     *)
(* otherwise ORed to.                                                      *)
PrmOr ==
    \/ Begin("or") /\ CallArg(1, SqlNull) /\ NewLocal(flags)
    \/ /\ Returned("or")
       /\ ret.v # 0 /\ ~Flag
       /\ Return(Value(One))
       /\ flags' = SetFlag(OuterFlags, FALSE)
    \/ /\ Returned("or")
       /\ ret.v = 0 \/ Flag
       /\ LET outer == SetFlag(OuterFlags, flags[Len(flags) - 1] \/ Flag)
          IN  \/ Top.i < Last /\ CallArg(Top.i + 1, SqlNull) /\ NewLocal(outer)
              \/ Top.i = Last /\ Return(Value(0)) /\ flags' = outer

(* Item_func_isnull answers the flag its argument left, and leaves it. *)
PrmIsnull ==
    \/ /\ Begin("isnull")
       /\ Callee.cmp = MYSQL_TYPE_NULL
       /\ Return(Value(One))
       /\ flags' = SetFlag(flags, FALSE)
    \/ /\ Begin("isnull")
       /\ Callee.cmp # MYSQL_TYPE_NULL
       /\ CallArg(1, SqlNull)
       /\ flags' = SetFlag(flags, FALSE)
    \/ After("isnull", 1) /\ Return(Value(BoolValue(Flag))) /\ KeepFlags

PrmCoalesce ==
    \/ Begin("coalesce") /\ CallArg(1, SqlNull) /\ KeepFlags
    \/ Returned("coalesce") /\ Flag /\ Top.i < Last
         /\ CallArg(Top.i + 1, SqlNull) /\ KeepFlags
    \/ Returned("coalesce") /\ (~Flag \/ Top.i = Last) /\ Return(ret) /\ KeepFlags
(* Item_func_last_value: one local flag serves all the side effects, the   *)
(* last argument gets the caller's.                                        *)
PrmLastValue ==
    \/ Begin("last_value") /\ Last = 1 /\ CallArg(1, SqlNull) /\ KeepFlags
    \/ Begin("last_value") /\ Last > 1 /\ CallArg(1, SqlNull) /\ NewLocal(flags)
    \/ Returned("last_value") /\ Top.i < Last
         /\ CallArg(Top.i + 1, SqlNull)
         /\ flags' = IF Top.i + 1 = Last THEN OuterFlags ELSE flags
    \/ Returned("last_value") /\ Top.i = Last /\ Return(ret) /\ KeepFlags

(* Item_func_eq: the integer comparisons keep their first operand in a     *)
(* bool.                                                                   *)
FirstOperand ==
    IF Callee.cmp = MYSQL_TYPE_LONGLONG THEN Value(ToBool(ret.v)) ELSE ret

PrmEq ==
    \/ Begin("eq") /\ CallArg(1, SqlNull) /\ KeepFlags
    \/ After("eq", 1) /\ Flag /\ Return(Value(0)) /\ KeepFlags
    \/ After("eq", 1) /\ ~Flag /\ CallArg(2, FirstOperand) /\ KeepFlags
    \/ /\ After("eq", 2)
       /\ Return(IF Callee.cmp = MYSQL_TYPE_NEWDECIMAL /\ Flag THEN Value(0)
                 ELSE Value(BoolValue(Top.acc.v = ret.v)))
       /\ KeepFlags

PrmStep ==
    \/ PrmLeaf \/ PrmAdd \/ PrmUminus \/ PrmOr
    \/ PrmIsnull \/ PrmCoalesce \/ PrmLastValue \/ PrmEq

PrmInit == TreeInit /\ MachineInit /\ flags = <<>>

PrmBuild == Build /\ KeepFlags

(* The driver's own variable is not initialised either. *)
PrmInvoke == Invoke /\ NewLocal(<<>>)
PrmLeave == Leave /\ flags' = <<>>

PrmNext == PrmBuild \/ PrmInvoke \/ PrmStep \/ PrmLeave

PrmSpec == PrmInit /\ [][PrmNext]_prmVars

-----------------------------------------------------------------------------
(* Properties. *)

PrmTypeOK ==
    /\ TypeOK
    /\ flags \in Seq(BOOLEAN)
    /\ mode = "idle" <=> flags = <<>>

(* What the driver sees when its call has returned. *)
PrmAnswer == Norm([null |-> flags[1], v |-> ret.v])

IntegerComparisons ==
    {n \in OfKind({"eq"}) : items[n].cmp = MYSQL_TYPE_LONGLONG}

(* val_xxx_null() answers what SQL says, whatever garbage the flags it is  *)
(* handed hold, of expressions without OR, IS NULL and comparisons of      *)
(* integers.                                                               *)
PrmAnswerCorrect ==
    mode = "ret" /\ stack = <<>>
    /\ req.n \in Free(OfKind({"or", "isnull"}) \cup IntegerComparisons) =>
        PrmAnswer = sem[req.n][req.t]

(* With OR, garbage in a flag can make a number NULL, and nothing else: an *)
(* answer that is not NULL is the right one, unless COALESCE or IS NULL    *)
(* turn a NULL into a number.                                              *)
NumbersAreRight ==
    mode = "ret" /\ stack = <<>> /\ ~PrmAnswer.null
    /\ req.n \in Free(OfKind({"isnull", "coalesce"}) \cup IntegerComparisons) =>
        PrmAnswer = sem[req.n][req.t]

(* When a frame has returned, the flags left are those its caller holds:   *)
(* the driver's, and one for every OR, and every LAST_VALUE before its     *)
(* last argument, that is waiting for the answer.                          *)
OneFlagPerLocal ==
    LET owners == {k \in DOMAIN stack :
                     /\ stack[k].i > 0
                     /\ \/ items[stack[k].n].kind = "or"
                        \/ /\ items[stack[k].n].kind = "last_value"
                           /\ stack[k].i < Len(items[stack[k].n].args)}
    IN  mode # "idle" => Len(flags) = 1 + Cardinality(owners)
=============================================================================
