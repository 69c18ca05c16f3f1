------------------------------- MODULE ItemTree -------------------------------
(***************************************************************************)
(* The expression trees.  A program first builds literals, then functions  *)
(* over items that exist already, so that `items' is in construction order *)
(* and the arguments of an item are earlier items; an item may be an       *)
(* argument of several others.                                             *)
(*                                                                         *)
(* `sem' is no state of the program: sem[n][T] is the value SQL gives item *)
(* n in a context of value type T, fixed when the item is constructed.     *)
(* What the four groups of value methods answer is compared with it.       *)
(***************************************************************************)
EXTENDS ItemTypes

CONSTANTS
    LeafPool,   \* the literals of a run, a sequence of [kind, val] records
    Kinds,      \* the function classes of a run
    MaxArity,   \* bound: no item of a run has more arguments
    MaxItems    \* bound: no run builds more items

VARIABLES items, sem

treeVars == <<items, sem>>

LeafKinds == {"null", "bool", "int", "real", "decimal"}

(* The numbers of arguments the constructors of a class take. *)
Arities == [add |-> {2}, uminus |-> {1}, or |-> {2, 3}, isnull |-> {1},
            coalesce |-> {1, 2, 3}, last_value |-> {1, 2, 3}, eq |-> {2}]

FuncKinds == {"add", "uminus", "or", "isnull", "coalesce", "last_value", "eq"}

ASSUME TreeAssumption ==
    /\ LeafPool \in Seq([kind : LeafKinds, val : Int])
    /\ \A i \in DOMAIN LeafPool :
         /\ LeafPool[i].kind = "null" => LeafPool[i].val = 0
         /\ LeafPool[i].kind = "bool" => LeafPool[i].val \in {0, One}
         /\ LeafPool[i].kind = "int"  => LeafPool[i].val % One = 0
    /\ Kinds \subseteq FuncKinds
    /\ MaxArity \in Nat
    /\ MaxItems \in Nat

-----------------------------------------------------------------------------
(* Construction. *)

\* Seeded fault: a boolean literal calls itself an integer.
FaultyLeaf(l) == [kind |-> l.kind, val |-> l.val, args |-> <<>>,
                  type |-> IF l.kind = "bool" THEN MYSQL_TYPE_LONGLONG
                           ELSE LeafType(l.kind),
                  cmp |-> LeafType(l.kind)]

Leaf(l) == [kind |-> l.kind, val |-> l.val, args |-> <<>>,
            type |-> LeafType(l.kind), cmp |-> LeafType(l.kind)]

(* `cmp' is cmp_type of Item_func_eq and m_arg0_field_type of             *)
(* Item_func_isnull; other classes do not keep it.                         *)
FuncItem(k, as) ==
    LET ts == [i \in DOMAIN as |-> items[as[i]].type]
    IN  [kind |-> k, val |-> 0, args |-> as,
         type |-> FuncType(k, ts), cmp |-> Hybrid_field_type(ts)]

-----------------------------------------------------------------------------
(* The value SQL gives an item. *)

LeafSem(it, T) ==
    IF it.kind = "null" THEN SqlNull
    ELSE Value(CASE T = "bool"     -> ToBool(IF it.kind = "decimal"
                                             THEN Trunc(it.val) ELSE it.val)
                 [] T = "longlong" -> Trunc(it.val)
                 [] T = "int32"    -> ToInt32(Trunc(it.val))
                 [] OTHER          -> it.val)

(* Addition and negation have no boolean form: they are done on doubles. *)
ArithType(T) == IF T = "bool" THEN "double" ELSE T
FromArith(v, T) == IF T = "bool" THEN ToBool(v) ELSE v

AddSem(a, b, T) ==
    IF a.null \/ b.null THEN SqlNull
    ELSE Value(FromArith(Plus(a.v, b.v, ArithType(T)), T))

UminusSem(a, T) ==
    IF a.null THEN SqlNull ELSE Value(FromArith(Neg(a.v, ArithType(T)), T))

(* Kleene disjunction, and the first of rs that is not NULL. *)
IsTrue(r) == ~r.null /\ r.v # 0

OrSem(rs) ==
    IF \E i \in DOMAIN rs : IsTrue(rs[i]) THEN Value(One)
    ELSE IF \E i \in DOMAIN rs : rs[i].null THEN SqlNull
    ELSE Value(0)

CoalesceSem(rs) ==
    IF \A i \in DOMAIN rs : rs[i].null THEN SqlNull
    ELSE rs[CHOOSE i \in DOMAIN rs :
              ~rs[i].null /\ \A j \in 1 .. i - 1 : rs[j].null]

(* Decimals are equal if decimal_cmp() says so: a zero is not equal to the *)
(* zero with the other sign.                                               *)
EqSem(a, b) ==
    IF a.null \/ b.null THEN SqlNull ELSE Value(BoolValue(a.v = b.v))

(* The value type in which an item, asked for type T, asks its i-th        *)
(* argument.                                                               *)
ArgType(it, T, i) ==
    CASE it.kind \in {"add", "uminus"}        -> ArithType(T)
      [] it.kind = "or"                       -> "bool"
      [] it.kind \in {"isnull", "eq"}         -> NativeType(it.cmp)
      [] it.kind = "last_value"
         /\ i < Len(it.args)                  ->
            IF T = "int32" THEN "int32" ELSE "longlong"
      [] OTHER                                -> T

SemOf(it, T, sm) ==
    LET rs == [i \in DOMAIN it.args |-> sm[it.args[i]][ArgType(it, T, i)]]
    IN  CASE it.kind \in LeafKinds   -> LeafSem(it, T)
          [] it.kind = "add"         -> AddSem(rs[1], rs[2], T)
          [] it.kind = "uminus"      -> UminusSem(rs[1], T)
          [] it.kind = "or"          -> OrSem(rs)
          [] it.kind = "isnull"      -> Value(BoolValue(rs[1].null))
          [] it.kind = "coalesce"    -> CoalesceSem(rs)
          [] it.kind = "last_value"  -> rs[Len(rs)]
          [] it.kind = "eq"          -> EqSem(rs[1], rs[2])

ItemSem(it, sm) == [T \in ValueTypes |-> SemOf(it, T, sm)]

-----------------------------------------------------------------------------

TreeInit ==
    /\ items = [i \in DOMAIN LeafPool |-> Leaf(LeafPool[i])]
    /\ sem = [i \in DOMAIN LeafPool |-> ItemSem(Leaf(LeafPool[i]), <<>>)]

(* The constructor of class k over the existing items as. *)
NewItem(k, as) ==
    /\ Len(items) < MaxItems
    /\ k \in Kinds
    /\ Len(as) \in Arities[k]
    /\ items' = Append(items, FuncItem(k, as))
    /\ sem' = Append(sem, ItemSem(FuncItem(k, as), sem))

ArgLists == UNION {[1 .. m -> DOMAIN items] : m \in 1 .. MaxArity}

Construct == \E k \in Kinds, as \in ArgLists : NewItem(k, as)

ItemRecord == [kind : LeafKinds \cup FuncKinds, val : Int, args : Seq(Nat \ {0}),
               type : FieldTypes, cmp : FieldTypes]

(* One item of the tree is well formed. *)
ItemOK(it, n) ==
    /\ it \in ItemRecord
    /\ it.kind \in LeafKinds => it.args = <<>> /\ it.type = LeafType(it.kind)
    /\ it.kind \in FuncKinds =>
         /\ Len(it.args) \in Arities[it.kind]
         /\ \A i \in DOMAIN it.args : it.args[i] \in 1 .. n - 1

TreeTypeOK ==
    /\ items \in Seq(ItemRecord)
    /\ Len(sem) = Len(items)
    /\ \A n \in DOMAIN items : ItemOK(items[n], n)
    /\ sem \in Seq([ValueTypes -> Results])

OfKind(ks) == {n \in DOMAIN items : items[n].kind \in ks}

(* The items with the arguments of all of them. *)
Closed(S) == \A n \in S : \A i \in DOMAIN items[n].args : items[n].args[i] \in S

(* The expressions in which no item of the set bad occurs. *)
Free(bad) == UNION {S \in SUBSET (DOMAIN items \ bad) : Closed(S)}

(* An item whose static type is NULL is NULL in every context: types are   *)
(* merged so that one argument that can be a number shows in the type.     *)
(* Item_func_isnull answers for such an argument without evaluating it.    *)
NullTypeIsNull ==
    \A n \in DOMAIN items :
        items[n].type = MYSQL_TYPE_NULL => \A T \in ValueTypes : sem[n][T].null
=============================================================================
