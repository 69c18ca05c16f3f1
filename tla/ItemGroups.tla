------------------------------ MODULE ItemGroups ------------------------------
(***************************************************************************)
(* The same items evaluated by one group of value methods or another: a    *)
(* driver builds expressions and asks them, whenever and as often as it    *)
(* likes, by val_xxx(), val_xxx_null(), to_xxx_null(), or the              *)
(* to_xxx_null() of namespace variant.  (get_xxx() has ItemGet to itself;  *)
(* Bench has the groups one after the other over shared items.)            *)
(***************************************************************************)
EXTENDS DecimalPointers, ItemPrm, ItemNew, ItemVariant

VARIABLE group      \* the group of methods the driver calls

groupsVars == <<ptrVars, flags, group>>
memoryVars == <<null_value, mem, calls, res>>

Groups == {"old", "prm", "new", "variant"}

GroupsInit ==
    /\ PtrInit
    /\ flags = <<>>
    /\ group \in Groups

(* Nobody but val_xxx() looks at null_value: for the other groups one      *)
(* value stands for any garbage.                                           *)
GroupsBuild ==
    /\ \/ group = "old" /\ PtrBuild
       \/ /\ group # "old"
          /\ IF group = "variant" THEN VariantBuild ELSE Build
          /\ null_value' = Append(null_value, FALSE)
          /\ UNCHANGED <<mem, calls, res>>
    /\ UNCHANGED flags

(* Bound: what is asked is the newest item, or any literal before there is *)
(* a function.  An item's methods reach its arguments and no others, so    *)
(* that to ask it again with other items beside it adds nothing.           *)
Asked(n) == n = Len(items) \/ Len(items) = Len(LeafPool)

EvaluateOld ==
    /\ group = "old"
    /\ (PtrInvoke /\ Asked(req'.n)) \/ Call \/ Returning \/ PtrLeave
    /\ UNCHANGED flags

EvaluatePrm ==
    /\ group = "prm"
    /\ (PrmInvoke /\ Asked(req'.n)) \/ PrmStep \/ PrmLeave
    /\ UNCHANGED memoryVars

EvaluateNew ==
    /\ group = "new"
    /\ (Invoke /\ Asked(req'.n)) \/ NewStep \/ Leave
    /\ UNCHANGED <<memoryVars, flags>>

EvaluateVariant ==
    /\ group = "variant"
    /\ (VariantInvoke /\ Asked(req'.n)) \/ VariantStep \/ Leave
    /\ UNCHANGED <<memoryVars, flags>>

GroupsNext ==
    /\ GroupsBuild \/ EvaluateOld \/ EvaluatePrm \/ EvaluateNew \/ EvaluateVariant
    /\ UNCHANGED group

GroupsSpec == GroupsInit /\ [][GroupsNext]_groupsVars

-----------------------------------------------------------------------------
(* Properties: those of the modules, where their methods are called.       *)

(* val_xxx() is right, unless decimals are compared, in any order of calls *)
(* over garbage and over what earlier calls left in null_value; whoever    *)
(* answers NULL to an OR by val_bool() answers FALSE.                      *)
OldAnswers == group = "old" => OldAnswerCorrect /\ NullIsFalse

(* val_decimal() returns no address of its own locals; what it points to,  *)
(* if null_value is clear, is the number to answer; and the second operand *)
(* of an addition or of a comparison leaves the first what it was, in the  *)
(* caller's buffer, a local or a literal.                                  *)
OldPointers == group = "old" => NoDangling /\ PointerIsAnswer /\ OperandsKept

(* val_xxx_null() is right whatever the flags held, but for OR, IS NULL    *)
(* and comparisons of integers; OR can lose a number and never invents     *)
(* one; the flags alive are the driver's and those of the calls that wait  *)
(* with a local of their own.                                              *)
PrmAnswers ==
    group = "prm" =>
        PrmAnswerCorrect /\ NumbersAreRight /\ OneFlagPerLocal

(* to_xxx_null() is right unless OR meets NULL.                            *)
NewAnswers == group = "new" => NewAnswerCorrect

(* The variant items answer as the virtual ones, in every type, unless     *)
(* they negate; they are never asked to resolve any but the integer types. *)
VariantAnswers ==
    group = "variant" => VariantAnswerCorrect /\ OnlyIntegerTypes

(* item_func.cc:523 of Item_cond_or::to_bool_null(): "This ORs the NULL    *)
(* flag".                                                                  *)
OrKeepsNull == group = "new" => NewOrKeepsNull

(* "This is a direct replacement for virtual function calls".              *)
DirectReplacement == group = "variant" => VariantReplaces
=============================================================================
