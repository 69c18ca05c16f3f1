------------------------------ MODULE ItemVariant ------------------------------
(***************************************************************************)
(* namespace variant: the to_xxx_null() methods once more, for four        *)
(* classes only (integer literals, add, uminus, isnull) that are           *)
(* alternatives of a tagged union instead of subclasses.  The dispatch is  *)
(* "a direct replacement for virtual function calls".                      *)
(***************************************************************************)
EXTENDS ItemMachine

variantVars == <<items, sem, stack, mode, ret, req>>

(* The classes of namespace variant; items of any other are arguments of   *)
(* none of them, and have none of its methods.                             *)
VariantKinds == {"int", "add", "uminus", "isnull"}
Virtual == OfKind((LeafKinds \cup FuncKinds) \ VariantKinds)

VariantInt ==
    /\ Begin("int")
    /\ Return(Value(CASE Top.t = "bool"  -> ToBool(Callee.val)
                      [] Top.t = "int32" -> ToInt32(Callee.val)
                      [] OTHER           -> Callee.val))
\* Seeded fault: the second operand is answered.
FaultyVariantAdd ==
    \/ Begin("add") /\ CallArg(1, SqlNull)
    \/ After("add", 1) /\ CallArg(2, ret)
    \/ After("add", 2) /\ Return(ret)

VariantAdd ==
    \/ Begin("add") /\ CallArg(1, SqlNull)
    \/ /\ After("add", 1)
       /\ IF ret.null THEN Return([ret EXCEPT !.v = FromArith(@, Top.t)])
          ELSE CallArg(2, ret)
    \/ /\ After("add", 2)
       /\ Return(IF Top.t = "decimal" /\ ret.null THEN ret
                 ELSE [null |-> ret.null,
                       v |-> FromArith(Plus(Top.acc.v, ret.v, ArithType(Top.t)), Top.t)])

(* Item_func_uminus passes its argument's answer on. *)
VariantUminus ==
    \/ Begin("uminus") /\ CallArg(1, SqlNull)
    \/ After("uminus", 1) /\ Return([ret EXCEPT !.v = FromArith(@, Top.t)])

(* Item_func_isnull; the case of an argument of type NULL cannot arise. *)
VariantIsnull ==
    \/ Begin("isnull") /\ CallArg(1, SqlNull)
    \/ After("isnull", 1) /\ Return(Value(BoolValue(ret.null)))

VariantStep == VariantInt \/ VariantAdd \/ VariantUminus \/ VariantIsnull

VariantInit == TreeInit /\ MachineInit

VariantBuild == Build /\ (Len(items) \in Free(Virtual))'

(* gbench asks every type of an item. *)
VariantInvoke == \E n \in Free(Virtual), T \in ValueTypes : Ask(n, T)

VariantNext == VariantBuild \/ VariantInvoke \/ VariantStep \/ Leave

VariantSpec == VariantInit /\ [][VariantNext]_variantVars

-----------------------------------------------------------------------------
(* Properties. *)

(* "This is a direct replacement for virtual function calls": the tagged   *)
(* union answers what the virtual functions answer, which is what SQL says.*)
VariantReplaces ==
    mode = "ret" /\ stack = <<>> => Norm(ret) = sem[req.n][req.t]

Negations == OfKind({"uminus"})

(* It does so for every expression without a negation, in every type. *)
VariantAnswerCorrect ==
    mode = "ret" /\ stack = <<>> /\ req.n \in Free(Negations) =>
        Norm(ret) = sem[req.n][req.t]

(* Every field type that arises is LONGLONG or BOOL, although the rule     *)
(* that merges types has five: the case of Item_func_isnull for NULL is    *)
(* dead and the assert(0) behind its switch out of reach.                  *)
OnlyIntegerTypes ==
    \A k \in DOMAIN stack :
        items[stack[k].n].cmp \in {MYSQL_TYPE_LONGLONG, MYSQL_TYPE_BOOL}
=============================================================================
