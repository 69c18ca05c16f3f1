---------------------------- MODULE ItemTreeProofs ----------------------------
(***************************************************************************)
(* What every group of value methods relies on: the items that have been   *)
(* built are well formed, their types are merged from those of their       *)
(* arguments, and the value SQL gives an item is a function of the values  *)
(* of its arguments.  TreeInv says so and is inductive.                    *)
(***************************************************************************)
EXTENDS ItemTree, SequenceTheorems, TLAPS

(* The facts of one item, whichever items are built after it. *)
Merged(n) ==
    \/ \E i \in DOMAIN LeafPool : items[n] = Leaf(LeafPool[i])
    \/ /\ items[n].kind \in FuncKinds
       /\ items[n] = FuncItem(items[n].kind, items[n].args)

(* An answer is the same before and after Norm. *)
Normal(r) == r.null => r = SqlNull

SemOK(n) ==
    /\ sem[n] = ItemSem(items[n], sem)
    /\ \A T \in ValueTypes : Normal(sem[n][T])

TreeInv ==
    /\ TreeTypeOK
    /\ \A n \in DOMAIN items : Merged(n) /\ SemOK(n)
    /\ NullTypeIsNull

-----------------------------------------------------------------------------
(* The conversions. *)

(* Every conversion of a number is a number. *)
LEMMA ConversionTypes ==
    ASSUME NEW v \in Int
    PROVE  /\ Trunc(v) \in Int
           /\ ToInt32(v) \in Int
           /\ ToBool(v) \in {0, One}
           /\ Double2decimal(v) \in Int
<1>1. One \in Nat \ {0}
  BY WidthAssumption
<1>2. v % One \in Int /\ (-v) % One \in Int
  BY <1>1
<1>3. Trunc(v) \in Int
  BY <1>2 DEF Trunc
<1>4. PICK h \in Nat \ {0} : h = Int32Half * One
  BY WidthAssumption
<1>5. 2 * h \in Nat \ {0} /\ v + h \in Int
  BY <1>4
<1>6. (v + h) % (2 * h) \in Int
  BY <1>5
<1>7. ToInt32(v) \in Int
  BY <1>4, <1>6 DEF ToInt32
<1>8. ToBool(v) \in {0, One}
  BY JunkAssumption DEF ToBool, BoolValue
<1>9. ASSUME NEW n \in Int PROVE LeadingNines(n) \in Int
  <2> DEFINE runs == {m \in {9, 99, 999, 9999, 99999, 999999, 9999999, 99999999, 999999999} :
                       \E p \in {1, 10, 100, 1000, 10000, 100000, 1000000, 10000000, 100000000} :
                         n \div p = m}
             longest == {m \in runs : \A k \in runs : k <= m}
  <2>1. \A m \in longest : m \in Int
    OBVIOUS
  <2>2. LeadingNines(n) = IF longest = {} THEN 0 ELSE CHOOSE m \in longest : TRUE
    BY DEF LeadingNines
  <2> HIDE DEF longest
  <2> QED
    BY <2>1, <2>2
<1>10. Double2decimal(v) \in Int
  <2>1. PICK w \in Int : w = (IF v < 0 THEN -v ELSE v) \div One
    BY <1>1
  <2>2. LeadingNines(w) * One \in Int
    BY <1>1, <1>9
  <2> QED
    BY <2>1, <2>2 DEF Double2decimal
<1> QED
  BY <1>3, <1>7, <1>8, <1>10

(* The sum and the negation of values are values. *)
LEMMA ArithmeticTypes ==
    ASSUME NEW a \in Values, NEW b \in Values, NEW T
    PROVE  /\ Plus(a, b, T) \in Values
           /\ Neg(a, T) \in Values
           /\ FromArith(a, T) \in Values
<1>1. ASSUME NEW v \in Int PROVE Fit(v, T) \in Int
  BY ConversionTypes DEF Fit
<1>2. ASSUME NEW v \in Values, v # Junk PROVE Num(v) \in Int
  BY <1>2 DEF Num, Values
<1>3. Plus(a, b, T) \in Values
  <2>1. CASE Junk \in {a, b}
    BY <2>1 DEF Plus, Values
  <2>2. CASE Junk \notin {a, b}
    <3>1. Num(a) + Num(b) \in Int
      BY <2>2, <1>2
    <3> QED
      BY <2>2, <3>1, <1>1 DEF Plus, Values
  <2> QED
    BY <2>1, <2>2
<1>4. Neg(a, T) \in Values
  <2>1. CASE a = Junk
    BY <2>1 DEF Neg, Values
  <2>2. CASE a # Junk
    <3>1. -Num(a) \in Int
      BY <2>2, <1>2
    <3> QED
      BY <2>2, <3>1, <1>1 DEF Neg, Values
  <2> QED
    BY <2>1, <2>2
<1>5. FromArith(a, T) \in Values
  BY WidthAssumption DEF FromArith, ToBool, BoolValue, Values
<1> QED
  BY <1>3, <1>4, <1>5

(* The types of the arguments decide the type of the result. *)
LEMMA Hybrid2Types ==
    ASSUME NEW ta \in FieldTypes, NEW tb \in FieldTypes
    PROVE  /\ Hybrid2(ta, tb) \in FieldTypes
           /\ Hybrid2(ta, tb) = MYSQL_TYPE_NULL =>
                ta = MYSQL_TYPE_NULL /\ tb = MYSQL_TYPE_NULL
BY DEF Hybrid2, FieldTypes, MYSQL_TYPE_NULL, MYSQL_TYPE_BOOL,
       MYSQL_TYPE_LONGLONG, MYSQL_TYPE_DOUBLE, MYSQL_TYPE_NEWDECIMAL

-----------------------------------------------------------------------------
(* The values of the functions. *)

Answers == {r \in Results : Normal(r)}

(* COALESCE of at most three arguments picks the first that is not NULL. *)
LEMMA CoalescePicks ==
    ASSUME NEW n \in 1 .. 3, NEW rs, DOMAIN rs = 1 .. n,
           NEW i \in 1 .. n, ~rs[i].null, \A j \in 1 .. i - 1 : rs[j].null
    PROVE  CoalesceSem(rs) = rs[i]
<1> DEFINE First(m) == ~rs[m].null /\ \A j \in 1 .. m - 1 : rs[j].null
<1>1. \A m \in 1 .. n : First(m) => m = i
  <2> SUFFICES ASSUME NEW m \in 1 .. n, First(m)
               PROVE  m = i
    OBVIOUS
  <2>1. ~(m < i)
    BY m \in 1 .. i - 1 => rs[m].null
  <2>2. ~(i < m)
    BY i \in 1 .. m - 1 => rs[i].null
  <2> QED
    BY <2>1, <2>2
<1>2. (CHOOSE m \in DOMAIN rs : First(m)) = i
  BY <1>1
<1> QED
  BY <1>2 DEF CoalesceSem

(* ... so its value is one of theirs, or NULL. *)
LEMMA CoalesceAnswers ==
    ASSUME NEW n \in 1 .. 3, NEW rs \in [1 .. n -> Answers]
    PROVE  CoalesceSem(rs) \in Answers
<1>1. CASE \A i \in 1 .. n : rs[i].null
  BY <1>1 DEF CoalesceSem, Answers, Results, Values, SqlNull, Normal
<1>2. CASE \E i \in 1 .. n : ~rs[i].null
  <2>1. \E i \in 1 .. n : ~rs[i].null /\ \A j \in 1 .. i - 1 : rs[j].null
    <3>1. CASE ~rs[1].null
      BY <3>1
    <3>2. CASE rs[1].null /\ n >= 2 /\ ~rs[2].null
      BY <3>2
    <3>3. CASE rs[1].null /\ n >= 2 /\ rs[2].null
      BY <1>2, <3>3
    <3>4. CASE rs[1].null /\ n = 1
      BY <1>2, <3>4
    <3> QED
      BY <3>1, <3>2, <3>3, <3>4
  <2>2. PICK i \in 1 .. n : ~rs[i].null /\ \A j \in 1 .. i - 1 : rs[j].null
    BY <2>1
  <2>3. CoalesceSem(rs) = rs[i]
    BY <2>2, CoalescePicks
  <2> QED
    BY <2>3
<1> QED
  BY <1>1, <1>2

(* The type in which an argument is asked is a value type. *)
LEMMA ArgTypes ==
    ASSUME NEW it, NEW T \in ValueTypes, NEW i
    PROVE  ArgType(it, T, i) \in ValueTypes
BY DEF ArgType, ArithType, NativeType, ValueTypes

(* The value of a literal is an answer. *)
LEMMA LeafAnswers ==
    ASSUME NEW it \in ItemRecord, NEW T \in ValueTypes
    PROVE  LeafSem(it, T) \in Answers
<1>1. it.val \in Int
  BY DEF ItemRecord
<1>2. Trunc(it.val) \in Int /\ ToInt32(Trunc(it.val)) \in Int
  BY <1>1, ConversionTypes
<1>3. ToBool(it.val) \in Int /\ ToBool(Trunc(it.val)) \in Int
  BY <1>1, <1>2, ConversionTypes, WidthAssumption
<1> QED
  BY <1>1, <1>2, <1>3 DEF LeafSem, Answers, Results, Values, SqlNull, Value, Normal

(* The value of an item whose arguments have one is an answer. *)
LEMMA SemAnswers ==
    ASSUME NEW it \in ItemRecord, NEW sm, NEW T \in ValueTypes,
           it.kind \in FuncKinds => Len(it.args) \in Arities[it.kind],
           \A i \in DOMAIN it.args : sm[it.args[i]] \in [ValueTypes -> Answers]
    PROVE  SemOf(it, T, sm) \in Answers
<1> DEFINE rs == [i \in DOMAIN it.args |-> sm[it.args[i]][ArgType(it, T, i)]]
           m  == Len(it.args)
<1>1. DOMAIN it.args = 1 .. m /\ m \in Nat
  BY LenProperties DEF ItemRecord
<1>2. rs \in [1 .. m -> Answers]
  BY <1>1, ArgTypes
<1>3. \A r \in Answers : r.v \in Values /\ r.null \in BOOLEAN
  BY DEF Answers, Results, Values
<1>4. One \in Int
  BY WidthAssumption
<1>5. CASE it.kind \in LeafKinds
  <2>1. SemOf(it, T, sm) = LeafSem(it, T)
    BY <1>5 DEF SemOf, LeafKinds
  <2> QED
    BY <2>1, LeafAnswers
<1>6. CASE it.kind = "add"
  <2>1. m = 2
    BY <1>6 DEF Arities, FuncKinds
  <2>2. rs[1] \in Answers /\ rs[2] \in Answers
    BY <1>2, <2>1
  <2>3. AddSem(rs[1], rs[2], T) \in Answers
    BY <2>2, <1>3, ArithmeticTypes DEF AddSem, Answers, Results, Values, SqlNull, Value, Normal
  <2> QED
    BY <1>6, <2>3 DEF SemOf, LeafKinds
<1>7. CASE it.kind = "uminus"
  <2>1. m = 1
    BY <1>7 DEF Arities, FuncKinds
  <2>2. rs[1] \in Answers
    BY <1>2, <2>1
  <2>3. UminusSem(rs[1], T) \in Answers
    BY <2>2, <1>3, ArithmeticTypes DEF UminusSem, Answers, Results, Values, SqlNull, Value, Normal
  <2> QED
    BY <1>7, <2>3 DEF SemOf, LeafKinds
<1>8. CASE it.kind = "or"
  BY <1>8, <1>4 DEF SemOf, LeafKinds, OrSem, Answers, Results, Values, SqlNull, Value, Normal
<1>9. CASE it.kind = "isnull"
  BY <1>9, <1>4 DEF SemOf, LeafKinds, BoolValue, Answers, Results, Values, SqlNull, Value, Normal
<1>10. CASE it.kind = "coalesce"
  <2>1. m \in 1 .. 3
    BY <1>10 DEF Arities, FuncKinds
  <2> QED
    BY <1>10, <2>1, <1>2, CoalesceAnswers DEF SemOf, LeafKinds
<1>11. CASE it.kind = "last_value"
  <2>1. m \in 1 .. 3
    BY <1>11 DEF Arities, FuncKinds
  <2>2. Len(rs) = m
    BY <1>1, <1>2
  <2>3. SemOf(it, T, sm) = rs[m]
    BY <1>11, <2>2 DEF SemOf, LeafKinds
  <2> HIDE DEF rs, m
  <2> QED
    BY <2>1, <2>3, <1>2
<1>12. CASE it.kind = "eq"
  <2>1. SemOf(it, T, sm) = EqSem(rs[1], rs[2])
    BY <1>12 DEF SemOf, LeafKinds
  <2>2. SqlNull \in Answers
    BY DEF Answers, Results, Values, SqlNull, Normal
  <2>3. \A v \in Int : Value(v) \in Answers
    BY DEF Answers, Results, Values, Value, Normal
  <2>4. \A b \in BOOLEAN : BoolValue(b) \in Int
    BY <1>4 DEF BoolValue
  <2>5. \A a, b : (a = b) \in BOOLEAN
    OBVIOUS
  <2>6. EqSem(rs[1], rs[2]) \in Answers
    BY <2>2, <2>3, <2>4, <2>5 DEF EqSem
  <2> QED
    BY <2>1, <2>6
<1> QED
  BY <1>5, <1>6, <1>7, <1>8, <1>9, <1>10, <1>11, <1>12 DEF ItemRecord, FuncKinds

-----------------------------------------------------------------------------
(* Construction. *)

(* A function on 1 .. n is a sequence of length n. *)
LEMMA FunctionIsSeq ==
    ASSUME NEW n \in Nat, NEW S, NEW f \in [1 .. n -> S]
    PROVE  f \in Seq(S) /\ Len(f) = n
<1>1. f \in Seq(S)
  BY SeqDef
<1>2. DOMAIN f = 1 .. Len(f) /\ Len(f) \in Nat /\ DOMAIN f = 1 .. n
  BY <1>1, LenProperties
<1> QED
  BY <1>1, <1>2

(* A literal is well formed, and its value depends on no other item. *)
LEMMA LeafOK ==
    ASSUME NEW i \in DOMAIN LeafPool, NEW n, NEW sm
    PROVE  /\ Leaf(LeafPool[i]) \in ItemRecord
           /\ ItemOK(Leaf(LeafPool[i]), n)
           /\ \A T \in ValueTypes :
                SemOf(Leaf(LeafPool[i]), T, sm) = LeafSem(Leaf(LeafPool[i]), T)
<1> DEFINE l == LeafPool[i]
           it == Leaf(l)
<1>1. l \in [kind : LeafKinds, val : Int]
  <2>1. LeafPool \in Seq([kind : LeafKinds, val : Int])
    BY TreeAssumption
  <2> QED
    BY <2>1, LenProperties
<1>2. LeafType(l.kind) \in FieldTypes
  BY DEF LeafType, FieldTypes, MYSQL_TYPE_NULL, MYSQL_TYPE_BOOL,
         MYSQL_TYPE_LONGLONG, MYSQL_TYPE_DOUBLE, MYSQL_TYPE_NEWDECIMAL
<1>3. <<>> \in Seq(Nat \ {0})
  BY EmptySeq
<1>4. it \in ItemRecord
  BY <1>1, <1>2, <1>3 DEF Leaf, ItemRecord
<1>5. it.kind \in LeafKinds /\ it.kind \notin FuncKinds
  BY <1>1 DEF Leaf, LeafKinds, FuncKinds
<1>6. ItemOK(it, n)
  BY <1>4, <1>5 DEF ItemOK, Leaf
<1>7. \A T \in ValueTypes : SemOf(it, T, sm) = LeafSem(it, T)
  BY <1>5 DEF SemOf, LeafKinds
<1> QED
  BY <1>4, <1>6, <1>7

(* The items a program starts with satisfy the invariant. *)
THEOREM TreeInitInv == TreeInit => TreeInv
<1> SUFFICES ASSUME TreeInit PROVE TreeInv
  OBVIOUS
<1>1. LeafPool \in Seq([kind : LeafKinds, val : Int])
  BY TreeAssumption
<1>2. Len(LeafPool) \in Nat /\ DOMAIN LeafPool = 1 .. Len(LeafPool)
  BY <1>1, LenProperties
<1>3. items \in Seq(ItemRecord) /\ Len(items) = Len(LeafPool)
  <2>1. items \in [1 .. Len(LeafPool) -> ItemRecord]
    BY <1>2, LeafOK DEF TreeInit
  <2> QED
    BY <1>2, <2>1, FunctionIsSeq
<1>4. DOMAIN items = DOMAIN LeafPool
      /\ \A n \in DOMAIN items : items[n] = Leaf(LeafPool[n])
  BY DEF TreeInit
<1>5. \A n \in DOMAIN items : ItemOK(items[n], n) /\ Merged(n)
  BY <1>4, LeafOK DEF Merged
<1>6. \A n \in DOMAIN items : sem[n] = [T \in ValueTypes |-> LeafSem(items[n], T)]
  BY <1>4, LeafOK, ZenonT(60) DEF TreeInit, ItemSem
<1>7. \A n \in DOMAIN items : sem[n] = ItemSem(items[n], sem)
  BY <1>4, <1>6, LeafOK DEF ItemSem
<1>8. \A n \in DOMAIN items : sem[n] \in [ValueTypes -> Answers]
  <2> SUFFICES ASSUME NEW n \in DOMAIN items
               PROVE  sem[n] \in [ValueTypes -> Answers]
    OBVIOUS
  <2>1. items[n] \in ItemRecord
    BY <1>4, LeafOK
  <2>2. \A T \in ValueTypes : LeafSem(items[n], T) \in Answers
    BY <2>1, LeafAnswers
  <2> QED
    BY <2>2, <1>6
<1>9. \A n \in DOMAIN items : SemOK(n)
  BY <1>7, <1>8 DEF SemOK, Answers
<1>10. Len(sem) = Len(items) /\ sem \in Seq([ValueTypes -> Results])
  <2>1. sem = [n \in 1 .. Len(LeafPool) |-> sem[n]]
    BY <1>2 DEF TreeInit
  <2>2. \A n \in 1 .. Len(LeafPool) : sem[n] \in [ValueTypes -> Results]
    BY <1>2, <1>4, <1>8 DEF Answers
  <2>3. sem \in [1 .. Len(LeafPool) -> [ValueTypes -> Results]]
    BY <2>1, <2>2
  <2> QED
    BY <2>3, <1>2, <1>3, FunctionIsSeq
<1>11. NullTypeIsNull
  <2> SUFFICES ASSUME NEW n \in DOMAIN items, items[n].type = MYSQL_TYPE_NULL,
                      NEW T \in ValueTypes
               PROVE  sem[n][T].null
    BY DEF NullTypeIsNull
  <2>1. items[n].kind = "null"
    BY <1>4 DEF Leaf, LeafType, MYSQL_TYPE_NULL, MYSQL_TYPE_BOOL,
                MYSQL_TYPE_LONGLONG, MYSQL_TYPE_DOUBLE, MYSQL_TYPE_NEWDECIMAL
  <2>2. sem[n][T] = LeafSem(items[n], T)
    BY <1>6
  <2>3. LeafSem(items[n], T) = SqlNull
    BY <2>1 DEF LeafSem
  <2> QED
    BY <2>2, <2>3 DEF SqlNull
<1> QED
  BY <1>3, <1>5, <1>9, <1>10, <1>11 DEF TreeInv, TreeTypeOK

(* The tree says what an argument of an item is. *)
LEMMA Arguments ==
    ASSUME TreeInv, NEW n \in DOMAIN items
    PROVE  /\ items[n] \in ItemRecord
           /\ Len(items[n].args) \in Nat
           /\ DOMAIN items[n].args = 1 .. Len(items[n].args)
           /\ items[n].kind \in LeafKinds =>
                items[n].args = <<>> /\ items[n].type = LeafType(items[n].kind)
           /\ items[n].kind \in FuncKinds =>
                Len(items[n].args) \in Arities[items[n].kind]
           /\ \A i \in DOMAIN items[n].args :
                items[n].args[i] \in DOMAIN items /\ items[n].args[i] < n
<1>1. ItemOK(items[n], n) /\ n \in 1 .. Len(items) /\ Len(items) \in Nat
      /\ DOMAIN items = 1 .. Len(items)
  BY LenProperties DEF TreeInv, TreeTypeOK
<1>2. items[n] \in ItemRecord
  BY <1>1 DEF ItemOK
<1>3. items[n].args \in Seq(Nat \ {0})
      /\ items[n].kind \in LeafKinds \cup FuncKinds
  BY <1>2 DEF ItemRecord
<1>4. Len(items[n].args) \in Nat /\ DOMAIN items[n].args = 1 .. Len(items[n].args)
  BY <1>3, LenProperties
<1>5. \A i \in DOMAIN items[n].args : items[n].args[i] \in 1 .. n - 1
  <2>1. items[n].kind \in LeafKinds => DOMAIN items[n].args = {}
    BY <1>1 DEF ItemOK
  <2> QED
    BY <1>1, <1>3, <2>1 DEF ItemOK
<1> QED
  BY <1>1, <1>2, <1>4, <1>5 DEF ItemOK

(* ... and what it is worth. *)
LEMMA SemTypes ==
    ASSUME TreeInv, NEW n \in DOMAIN items
    PROVE  /\ sem[n] \in [ValueTypes -> Answers]
           /\ \A T \in ValueTypes : sem[n][T] = SemOf(items[n], T, sem)
<1>1. n \in DOMAIN sem
  BY LenProperties DEF TreeInv, TreeTypeOK
<1>2. sem[n] \in [ValueTypes -> Results]
  BY <1>1, ElementOfSeq, LenProperties DEF TreeInv, TreeTypeOK
<1>3. SemOK(n)
  BY DEF TreeInv
<1>4. \A T \in ValueTypes : sem[n][T] \in Answers
  BY <1>2, <1>3 DEF SemOK, Answers
<1> QED
  BY <1>2, <1>3, <1>4 DEF SemOK, ItemSem

(* The type of a function is NULL only if all its arguments' types are. *)
LEMMA HybridTypes ==
    ASSUME NEW m \in 1 .. 3, NEW ts \in [1 .. m -> FieldTypes]
    PROVE  /\ Hybrid_field_type(ts) \in FieldTypes
           /\ Hybrid_field_type(ts) = MYSQL_TYPE_NULL =>
                \A i \in 1 .. m : ts[i] = MYSQL_TYPE_NULL
<1>1. Len(ts) = m
  BY FunctionIsSeq
<1>2. CASE m = 1
  <2>1. Hybrid_field_type(ts) = ts[1]
    BY <1>1, <1>2 DEF Hybrid_field_type
  <2> QED
    BY <2>1, <1>2
<1>3. CASE m = 2
  <2>1. Hybrid_field_type(ts) = Hybrid2(ts[1], ts[2])
    BY <1>1, <1>3 DEF Hybrid_field_type
  <2> QED
    BY <2>1, <1>3, Hybrid2Types
<1>4. CASE m = 3
  <2>1. Hybrid_field_type(ts) = Hybrid2(Hybrid2(ts[1], ts[2]), ts[3])
    BY <1>1, <1>4 DEF Hybrid_field_type
  <2>2. ts[1] \in FieldTypes /\ ts[2] \in FieldTypes /\ ts[3] \in FieldTypes
    BY <1>4
  <2>3. Hybrid2(ts[1], ts[2]) \in FieldTypes
    BY <2>2, Hybrid2Types
  <2> QED
    BY <2>1, <2>2, <2>3, <1>4, Hybrid2Types
<1> QED
  BY <1>2, <1>3, <1>4

(* What a constructor of class k builds over the items as. *)
WellBuilt(it, k, as) ==
    /\ Len(as) \in 1 .. 3
    /\ DOMAIN as = 1 .. Len(as)
    /\ \A i \in DOMAIN as : as[i] \in DOMAIN items
    /\ it.kind = k
    /\ it.args = as
    /\ ItemOK(it, Len(items) + 1)
    /\ it.type = MYSQL_TYPE_NULL =>
         /\ k \in {"add", "uminus", "coalesce", "last_value"}
         /\ items[as[Len(as)]].type = MYSQL_TYPE_NULL
         /\ k # "last_value" =>
              \A i \in DOMAIN as : items[as[i]].type = MYSQL_TYPE_NULL

(* The item a constructor builds is well formed. *)
LEMMA FuncItemOK ==
    ASSUME TreeInv, NEW k \in FuncKinds, NEW as \in ArgLists, Len(as) \in Arities[k]
    PROVE  WellBuilt(FuncItem(k, as), k, as)
<1> DEFINE ts == [i \in DOMAIN as |-> items[as[i]].type]
           it == FuncItem(k, as)
<1>1. Len(items) \in Nat /\ DOMAIN items = 1 .. Len(items)
  BY LenProperties DEF TreeInv, TreeTypeOK
<1>2. PICK m \in 1 .. MaxArity : as \in [1 .. m -> DOMAIN items]
  BY DEF ArgLists
<1>3. m \in Nat /\ Len(as) = m /\ as \in Seq(DOMAIN items)
  <2>1. m \in Nat
    BY TreeAssumption
  <2> QED
    BY <1>2, <2>1, FunctionIsSeq
<1>4. m \in 1 .. 3
  BY <1>3 DEF Arities, FuncKinds
<1>5. DOMAIN as = 1 .. m /\ \A i \in 1 .. m : as[i] \in DOMAIN items
  BY <1>2
<1>6. as \in Seq(Nat \ {0})
  <2>1. DOMAIN items \subseteq Nat \ {0}
    BY <1>1
  <2> QED
    BY <1>3, <2>1, SeqMonotonic
<1>7. ts \in [1 .. m -> FieldTypes]
  <2>1. \A n \in DOMAIN items : items[n].type \in FieldTypes
    BY Arguments DEF ItemRecord
  <2> QED
    BY <2>1, <1>5
<1>8. Len(ts) = m
  BY <1>7, <1>3, FunctionIsSeq
<1>9. Hybrid_field_type(ts) \in FieldTypes
      /\ (Hybrid_field_type(ts) = MYSQL_TYPE_NULL =>
            \A i \in 1 .. m : ts[i] = MYSQL_TYPE_NULL)
  BY <1>4, <1>7, HybridTypes
<1> HIDE DEF ts, it
<1>10. ts[m] \in FieldTypes
  BY <1>4, <1>7
<1>11. FuncType(k, ts) \in FieldTypes
  BY <1>8, <1>9, <1>10 DEF FuncType, FieldTypes, MYSQL_TYPE_BOOL
<1>12. it = [kind |-> k, val |-> 0, args |-> as,
             type |-> FuncType(k, ts), cmp |-> Hybrid_field_type(ts)]
  BY DEF FuncItem, ts, it
<1>13. it \in ItemRecord
  <2>1. k \in LeafKinds \cup FuncKinds
    OBVIOUS
  <2>2. [kind |-> k, val |-> 0, args |-> as, type |-> FuncType(k, ts),
         cmp |-> Hybrid_field_type(ts)] \in ItemRecord
    <3>1. 0 \in Int /\ Hybrid_field_type(ts) \in FieldTypes
      BY <1>9
    <3> QED
      BY <3>1, <2>1, <1>6, <1>11, Zenon DEF ItemRecord
  <2> QED
    BY <2>2, <1>12
<1>14. k \notin LeafKinds
  BY DEF FuncKinds, LeafKinds
<1>15. ItemOK(it, Len(items) + 1)
  <2>1. it.kind = k /\ it.args = as
    BY <1>12
  <2>2. \A i \in DOMAIN as : as[i] \in 1 .. (Len(items) + 1) - 1
    <3>1. (Len(items) + 1) - 1 = Len(items)
      BY <1>1
    <3> QED
      BY <3>1, <1>1, <1>5
  <2>3. Len(it.args) \in Arities[it.kind] /\ it.kind \notin LeafKinds
    BY <2>1, <1>14
  <2>4. \A i \in DOMAIN it.args : it.args[i] \in 1 .. (Len(items) + 1) - 1
    BY <2>1, <2>2
  <2> QED
    BY <2>3, <2>4, <1>13 DEF ItemOK
<1>16. ASSUME FuncType(k, ts) = MYSQL_TYPE_NULL
       PROVE  /\ k \in {"add", "uminus", "coalesce", "last_value"}
              /\ ts[m] = MYSQL_TYPE_NULL
              /\ k # "last_value" => \A i \in 1 .. m : ts[i] = MYSQL_TYPE_NULL
  <2>1. k \notin {"or", "isnull", "eq"}
    BY <1>16 DEF FuncType, MYSQL_TYPE_NULL, MYSQL_TYPE_BOOL
  <2>2. k = "last_value" => ts[m] = MYSQL_TYPE_NULL
    BY <1>16, <1>8 DEF FuncType
  <2>3. k # "last_value" => Hybrid_field_type(ts) = MYSQL_TYPE_NULL
    BY <1>16, <2>1 DEF FuncType
  <2> QED
    BY <2>1, <2>2, <2>3, <1>9, <1>4 DEF FuncKinds
<1>17. \A i \in 1 .. m : ts[i] = items[as[i]].type
  BY <1>5 DEF ts
<1>18. m \in 1 .. m
  BY <1>4
<1>19. it.type = FuncType(k, ts) /\ it.kind = k /\ it.args = as
  BY <1>12
<1> QED
  BY <1>3, <1>4, <1>5, <1>15, <1>16, <1>17, <1>18, <1>19 DEF it, WellBuilt

(* Only the values of the arguments go into the value of an item. *)
LEMMA SemStable ==
    ASSUME NEW it, NEW T, NEW sm1, NEW sm2,
           \A i \in DOMAIN it.args : sm1[it.args[i]] = sm2[it.args[i]]
    PROVE  SemOf(it, T, sm1) = SemOf(it, T, sm2)
<1>1. [i \in DOMAIN it.args |-> sm1[it.args[i]][ArgType(it, T, i)]]
    = [i \in DOMAIN it.args |-> sm2[it.args[i]][ArgType(it, T, i)]]
  OBVIOUS
<1> QED
  BY <1>1, Zenon DEF SemOf

(* A new item leaves the earlier ones, and their values, as they were. *)
LEMMA NewItemKeeps ==
    ASSUME TreeInv, NEW it, NEW v, items' = Append(items, it), sem' = Append(sem, v)
    PROVE  /\ Len(items) \in Nat
           /\ DOMAIN items = 1 .. Len(items)
           /\ DOMAIN items' = 1 .. Len(items) + 1
           /\ \A n \in DOMAIN items : items'[n] = items[n] /\ sem'[n] = sem[n]
           /\ items'[Len(items) + 1] = it
           /\ sem'[Len(items) + 1] = v
<1>1. items \in Seq(ItemRecord) /\ sem \in Seq([ValueTypes -> Results])
      /\ Len(sem) = Len(items)
  BY DEF TreeInv, TreeTypeOK
<1>2. Len(items) \in Nat /\ DOMAIN items = 1 .. Len(items)
  BY <1>1, LenProperties
<1>3. /\ DOMAIN items' = 1 .. Len(items) + 1
      /\ \A n \in 1 .. Len(items) : items'[n] = items[n]
      /\ items'[Len(items) + 1] = it
  BY <1>1, <1>2
<1>4. /\ \A n \in 1 .. Len(sem) : sem'[n] = sem[n]
      /\ sem'[Len(sem) + 1] = v
  BY <1>1, <1>2
<1> QED
  BY <1>1, <1>2, <1>3, <1>4

(* What holds of an item holds when others are built after it. *)
LEMMA OldItemKept ==
    ASSUME TreeInv, NEW n \in DOMAIN items,
           \A m \in DOMAIN items : items'[m] = items[m] /\ sem'[m] = sem[m]
    PROVE  Merged(n)' /\ SemOK(n)'
<1>1. /\ Merged(n) /\ SemOK(n)
      /\ items'[n] = items[n] /\ sem'[n] = sem[n]
  BY DEF TreeInv
<1>2. \A i \in DOMAIN items[n].args :
        /\ items'[items[n].args[i]] = items[items[n].args[i]]
        /\ sem'[items[n].args[i]] = sem[items[n].args[i]]
  BY Arguments
<1>3. Merged(n)'
  <2>1. CASE \E i \in DOMAIN LeafPool : items[n] = Leaf(LeafPool[i])
    BY <1>1, <2>1 DEF Merged, Leaf
  <2>2. CASE items[n].kind \in FuncKinds
               /\ items[n] = FuncItem(items[n].kind, items[n].args)
    <3>1. [i \in DOMAIN items[n].args |-> items'[items[n].args[i]].type]
        = [i \in DOMAIN items[n].args |-> items[items[n].args[i]].type]
      BY <1>2
    <3>2. items'[n] = FuncItem(items[n].kind, items[n].args)'
      BY <1>1, <2>2, <3>1, Zenon DEF FuncItem
    <3> QED
      BY <1>1, <2>2, <3>2 DEF Merged
  <2> QED
    BY <1>1, <2>1, <2>2 DEF Merged
<1>4. SemOK(n)'
  <2>1. \A T \in ValueTypes : SemOf(items[n], T, sem') = SemOf(items[n], T, sem)
    BY <1>2, SemStable
  <2>2. ItemSem(items[n], sem') = ItemSem(items[n], sem)
    BY <2>1 DEF ItemSem
  <2> QED
    BY <1>1, <2>2 DEF SemOK
<1> QED
  BY <1>3, <1>4

(* An item and its value are added to the tree. *)
Added(it) ==
    /\ items' = Append(items, it)
    /\ sem' = Append(sem, ItemSem(it, sem))

(* A function of items that are there keeps the invariant. *)
LEMMA FunctionKeeps ==
    ASSUME TreeInv, NEW k \in FuncKinds, NEW as \in ArgLists, Len(as) \in Arities[k],
           Added(FuncItem(k, as))
    PROVE  TreeInv'
<1> DEFINE it == FuncItem(k, as)
           v  == ItemSem(it, sem)
           N  == Len(items) + 1
<1>1. /\ items' = Append(items, it)
      /\ sem' = Append(sem, v)
      /\ Len(as) \in Arities[k]
      /\ k \in FuncKinds
  BY DEF Added
<1>2. /\ Len(items) \in Nat
      /\ DOMAIN items = 1 .. Len(items)
      /\ DOMAIN items' = 1 .. N
      /\ \A n \in DOMAIN items : items'[n] = items[n] /\ sem'[n] = sem[n]
      /\ items'[N] = it
      /\ sem'[N] = v
  BY <1>1, NewItemKeeps
<1>3. WellBuilt(it, k, as) /\ it \in ItemRecord
  <2>1. WellBuilt(FuncItem(k, as), k, as)
    BY <1>1, FuncItemOK
  <2> QED
    BY <2>1 DEF WellBuilt, ItemOK
<1> USE DEF WellBuilt
<1> HIDE DEF it
<1>4. \A i \in DOMAIN as :
        /\ sem[as[i]] \in [ValueTypes -> Answers]
        /\ sem'[as[i]] = sem[as[i]]
  BY <1>2, <1>3, SemTypes
<1>5. \A T \in ValueTypes : SemOf(it, T, sem) \in Answers
  BY <1>1, <1>3, <1>4, SemAnswers
<1>6. v \in [ValueTypes -> Answers]
      /\ \A T \in ValueTypes : v[T] = SemOf(it, T, sem)
  BY <1>5 DEF ItemSem
<1> HIDE DEF v
<1>7. TreeTypeOK'
  <2>1. items \in Seq(ItemRecord) /\ sem \in Seq([ValueTypes -> Results])
        /\ Len(sem) = Len(items)
    BY DEF TreeInv, TreeTypeOK
  <2>2. items' \in Seq(ItemRecord)
    BY <1>1, <1>3, <2>1
  <2>3. v \in [ValueTypes -> Results]
    BY <1>6 DEF Answers
  <2>4. sem' \in Seq([ValueTypes -> Results]) /\ Len(sem') = Len(items')
    BY <1>1, <2>1, <2>3
  <2>5. \A n \in DOMAIN items' : ItemOK(items'[n], n)
    BY <1>2, <1>3 DEF TreeInv, TreeTypeOK
  <2> QED
    BY <2>2, <2>4, <2>5 DEF TreeTypeOK
<1>8. ASSUME NEW n \in DOMAIN items'
      PROVE  Merged(n)'
  <2>1. CASE n \in DOMAIN items
    BY <1>2, <2>1, OldItemKept
  <2>2. CASE n = N
    <3>1. [i \in DOMAIN as |-> items'[as[i]].type]
        = [i \in DOMAIN as |-> items[as[i]].type]
      BY <1>2, <1>3
    <3>2. FuncItem(k, as)' = it
      BY <3>1, Zenon DEF FuncItem, it
    <3>3. items'[n] = it /\ it.kind = k /\ it.args = as
      BY <1>2, <1>3, <2>2
    <3> QED
      BY <1>1, <3>2, <3>3 DEF Merged
  <2> QED
    BY <1>2, <2>1, <2>2
<1>9. ASSUME NEW n \in DOMAIN items'
      PROVE  SemOK(n)'
  <2>1. CASE n \in DOMAIN items
    BY <1>2, <2>1, OldItemKept
  <2>2. CASE n = N
    <3>1. sem'[n] = v /\ items'[n] = it
      BY <1>2, <2>2
    <3>2. \A T \in ValueTypes : SemOf(it, T, sem') = SemOf(it, T, sem)
      BY <1>3, <1>4, SemStable
    <3>3. ItemSem(it, sem') = v
      BY <3>2 DEF ItemSem, v
    <3>4. \A T \in ValueTypes : Normal(v[T])
      BY <1>6 DEF Answers
    <3> QED
      BY <3>1, <3>3, <3>4 DEF SemOK
  <2> QED
    BY <1>2, <2>1, <2>2
<1>10. NullTypeIsNull'
  <2> SUFFICES ASSUME NEW n \in DOMAIN items', items'[n].type = MYSQL_TYPE_NULL,
                      NEW T \in ValueTypes
               PROVE  sem'[n][T].null
    BY DEF NullTypeIsNull
  <2>1. CASE n \in DOMAIN items
    BY <1>2, <2>1 DEF TreeInv, NullTypeIsNull
  <2>2. CASE n = N
    <3> DEFINE rs == [i \in DOMAIN it.args |-> sem[it.args[i]][ArgType(it, T, i)]]
               m  == Len(as)
    <3>0. m \in 1 .. 3 /\ DOMAIN as = 1 .. m /\ it.args = as
      BY <1>3
    <3>1. /\ k \in {"add", "uminus", "coalesce", "last_value"}
          /\ items[as[m]].type = MYSQL_TYPE_NULL
          /\ k # "last_value" =>
               \A i \in 1 .. m : items[as[i]].type = MYSQL_TYPE_NULL
      BY <1>2, <1>3, <2>2
    <3>2. DOMAIN rs = 1 .. m /\ Len(rs) = m /\ 1 \in 1 .. m /\ m \in 1 .. m
      <4> HIDE DEF m
      <4>1. \A i \in 1 .. m : sem[as[i]][ArgType(it, T, i)] \in Answers
        BY <3>0, <1>4, ArgTypes
      <4>2. rs \in [1 .. m -> Answers]
        BY <4>1, <3>0
      <4> HIDE DEF rs
      <4>3. Len(rs) = m
        BY <3>0, <4>2, FunctionIsSeq
      <4> QED
        BY <3>0, <4>2, <4>3
    <3>3. \A i \in 1 .. m : items[as[i]].type = MYSQL_TYPE_NULL =>
                              rs[i].null
      BY <1>3, ArgTypes DEF TreeInv, NullTypeIsNull
    <3>4. sem'[n][T] = SemOf(it, T, sem) /\ SemOf(it, T, sem) \in Answers
      BY <1>2, <1>5, <1>6, <2>2
    <3>5. SqlNull.null
      BY DEF SqlNull
    <3> HIDE DEF rs, m
    <3>6. CASE k = "add"
      <4>1. SemOf(it, T, sem) = AddSem(rs[1], rs[2], T)
        BY <1>3, <3>6 DEF SemOf, LeafKinds, rs
      <4>2. rs[1].null
        BY <3>1, <3>2, <3>3, <3>6
      <4> QED
        BY <4>1, <4>2, <3>4, <3>5 DEF AddSem
    <3>7. CASE k = "uminus"
      <4>1. SemOf(it, T, sem) = UminusSem(rs[1], T)
        BY <1>3, <3>7 DEF SemOf, LeafKinds, rs
      <4>2. rs[1].null
        BY <3>1, <3>2, <3>3, <3>7
      <4> QED
        BY <4>1, <4>2, <3>4, <3>5 DEF UminusSem
    <3>8. CASE k = "coalesce"
      <4>1. SemOf(it, T, sem) = CoalesceSem(rs)
        BY <1>3, <3>8 DEF SemOf, LeafKinds, rs
      <4>2. \A i \in 1 .. m : rs[i].null
        BY <3>1, <3>3, <3>8
      <4> QED
        BY <4>1, <4>2, <3>2, <3>4, <3>5 DEF CoalesceSem
    <3>9. CASE k = "last_value"
      <4>1. SemOf(it, T, sem) = rs[Len(rs)]
        BY <1>3, <3>9 DEF SemOf, LeafKinds, rs
      <4>2. rs[m].null
        BY <3>1, <3>2, <3>3
      <4> QED
        BY <4>1, <4>2, <3>2, <3>4
    <3> QED
      BY <3>1, <3>6, <3>7, <3>8, <3>9
  <2> QED
    BY <1>2, <2>1, <2>2
<1> QED
  BY <1>7, <1>8, <1>9, <1>10 DEF TreeInv

(* A constructor preserves the invariant. *)
THEOREM ConstructInv == TreeInv /\ Construct => TreeInv'
BY FunctionKeeps, TreeAssumption DEF Construct, NewItem, Added

(* So does a literal. *)
LEMMA LeafKeeps ==
    ASSUME TreeInv, NEW l \in DOMAIN LeafPool, Added(Leaf(LeafPool[l]))
    PROVE  TreeInv'
<1> DEFINE N == Len(items) + 1
<1>1. PICK it : it = Leaf(LeafPool[l])
  OBVIOUS
<1>2. PICK v : v = ItemSem(it, sem)
  OBVIOUS
<1>3. items' = Append(items, it) /\ sem' = Append(sem, v)
  BY <1>1, <1>2 DEF Added
<1>4. /\ Len(items) \in Nat
      /\ DOMAIN items = 1 .. Len(items)
      /\ DOMAIN items' = 1 .. N
      /\ \A n \in DOMAIN items : items'[n] = items[n] /\ sem'[n] = sem[n]
      /\ items'[N] = it
      /\ sem'[N] = v
  BY <1>3, NewItemKeeps
<1>5. /\ it \in ItemRecord
      /\ ItemOK(it, N)
      /\ it.args = <<>>
      /\ \A T \in ValueTypes : \A sm : SemOf(it, T, sm) = LeafSem(it, T)
  BY <1>1, LeafOK DEF Leaf
<1>6. \A T \in ValueTypes : LeafSem(it, T) \in Answers
  BY <1>5, LeafAnswers
<1>7. v \in [ValueTypes -> Answers] /\ \A T \in ValueTypes : v[T] = LeafSem(it, T)
  BY <1>2, <1>5, <1>6 DEF ItemSem
<1>8. TreeTypeOK'
  <2>1. items \in Seq(ItemRecord) /\ sem \in Seq([ValueTypes -> Results])
        /\ Len(sem) = Len(items)
    BY DEF TreeInv, TreeTypeOK
  <2>2. items' \in Seq(ItemRecord)
    BY <1>3, <1>5, <2>1
  <2>3. v \in [ValueTypes -> Results]
    BY <1>7 DEF Answers
  <2>4. sem' \in Seq([ValueTypes -> Results]) /\ Len(sem') = Len(items')
    BY <1>3, <2>1, <2>3
  <2>5. \A n \in DOMAIN items' : ItemOK(items'[n], n)
    BY <1>4, <1>5 DEF TreeInv, TreeTypeOK
  <2> QED
    BY <2>2, <2>4, <2>5 DEF TreeTypeOK
<1>9. ASSUME NEW n \in DOMAIN items'
      PROVE  Merged(n)' /\ SemOK(n)'
  <2>1. CASE n \in DOMAIN items
    BY <1>4, <2>1, OldItemKept
  <2>2. CASE n = N
    <3>1. items'[n] = it /\ sem'[n] = v
      BY <1>4, <2>2
    <3>2. Merged(n)'
      BY <1>1, <3>1 DEF Merged, Leaf
    <3>3. ItemSem(it, sem') = v
      BY <1>2, <1>5 DEF ItemSem
    <3>4. \A T \in ValueTypes : Normal(v[T])
      BY <1>7 DEF Answers
    <3> QED
      BY <3>1, <3>2, <3>3, <3>4 DEF SemOK
  <2> QED
    BY <1>4, <2>1, <2>2
<1>10. NullTypeIsNull'
  <2> SUFFICES ASSUME NEW n \in DOMAIN items', items'[n].type = MYSQL_TYPE_NULL,
                      NEW T \in ValueTypes
               PROVE  sem'[n][T].null
    BY DEF NullTypeIsNull
  <2>1. CASE n \in DOMAIN items
    BY <1>4, <2>1 DEF TreeInv, NullTypeIsNull
  <2>2. CASE n = N
    <3>1. it.type = MYSQL_TYPE_NULL /\ it.type = LeafType(it.kind)
      BY <1>1, <1>4, <2>2 DEF Leaf
    <3>2. it.kind = "null"
      BY <3>1 DEF LeafType, MYSQL_TYPE_NULL, MYSQL_TYPE_BOOL,
                  MYSQL_TYPE_LONGLONG, MYSQL_TYPE_DOUBLE, MYSQL_TYPE_NEWDECIMAL
    <3>3. LeafSem(it, T) = SqlNull
      BY <3>2 DEF LeafSem
    <3>4. sem'[n][T] = LeafSem(it, T)
      BY <1>4, <1>7, <2>2
    <3> QED
      BY <3>3, <3>4 DEF SqlNull
  <2> QED
    BY <1>4, <2>1, <2>2
<1> QED
  BY <1>8, <1>9, <1>10 DEF TreeInv

(* Evaluating an expression does not touch the tree. *)
THEOREM UnchangedInv == TreeInv /\ UNCHANGED treeVars => TreeInv'
BY DEF TreeInv, TreeTypeOK, treeVars, Merged, FuncItem, SemOK, NullTypeIsNull

-----------------------------------------------------------------------------
(* The values of an item's arguments. *)

(* The value of the j-th argument of it, asked for type T. *)
ArgValue(it, T, sm, j) == sm[it.args[j]][ArgType(it, T, j)]

(* How many arguments the classes have. *)
LEMMA ArityOf ==
    ASSUME NEW it, it.kind \in FuncKinds => Len(it.args) \in Arities[it.kind]
    PROVE  /\ it.kind \in {"uminus", "isnull"} => Len(it.args) = 1
           /\ it.kind \in {"add", "eq"} => Len(it.args) = 2
           /\ it.kind \in {"or", "coalesce", "last_value"} => Len(it.args) \in 1 .. 3
           /\ it.kind \in FuncKinds => Len(it.args) \in 1 .. 3
<1>1. /\ Arities["uminus"] = {1} /\ Arities["isnull"] = {1}
      /\ Arities["add"] = {2} /\ Arities["eq"] = {2} /\ Arities["or"] = {2, 3}
      /\ Arities["last_value"] = 1 .. 3 /\ Arities["coalesce"] = 1 .. 3
  BY DEF Arities
<1>2. {"uminus", "isnull", "add", "eq", "or", "coalesce", "last_value"} = FuncKinds
  BY DEF FuncKinds
<1>3. it.kind \in {"uminus", "isnull"} => Len(it.args) = 1
  BY <1>1, <1>2
<1>4. it.kind \in {"add", "eq"} => Len(it.args) = 2
  BY <1>1, <1>2
<1>5. it.kind \in {"or", "coalesce", "last_value"} => Len(it.args) \in 1 .. 3
  <2>1. it.kind = "or" => Len(it.args) \in {2, 3}
    BY <1>1, <1>2
  <2>2. it.kind \in {"coalesce", "last_value"} => Len(it.args) \in 1 .. 3
    BY <1>1, <1>2
  <2> QED
    BY <2>1, <2>2
<1> QED
  BY <1>2, <1>3, <1>4, <1>5

(* The value of an item, class by class. *)
LEMMA SemBy ==
    ASSUME NEW it \in ItemRecord, NEW sm, NEW T \in ValueTypes,
           it.kind \in FuncKinds => Len(it.args) \in Arities[it.kind]
    PROVE  /\ it.kind \in LeafKinds => SemOf(it, T, sm) = LeafSem(it, T)
           /\ it.kind = "add" => SemOf(it, T, sm) =
                AddSem(ArgValue(it, T, sm, 1), ArgValue(it, T, sm, 2), T)
           /\ it.kind = "uminus" => SemOf(it, T, sm) =
                UminusSem(ArgValue(it, T, sm, 1), T)
           /\ it.kind = "isnull" => SemOf(it, T, sm) =
                Value(BoolValue(ArgValue(it, T, sm, 1).null))
           /\ it.kind = "last_value" => SemOf(it, T, sm) =
                ArgValue(it, T, sm, Len(it.args))
           /\ it.kind = "eq" => SemOf(it, T, sm) =
                EqSem(ArgValue(it, T, sm, 1), ArgValue(it, T, sm, 2))
<1> DEFINE rs == [i \in DOMAIN it.args |-> sm[it.args[i]][ArgType(it, T, i)]]
           m  == Len(it.args)
<1>1. DOMAIN it.args = 1 .. m /\ m \in Nat
  BY LenProperties DEF ItemRecord
<1>2. \A i \in 1 .. m : rs[i] = ArgValue(it, T, sm, i)
  BY <1>1 DEF ArgValue
<1>3. Len(rs) = m
  <2>1. PICK S : S = {rs[i] : i \in 1 .. m}
    OBVIOUS
  <2>2. rs \in [1 .. m -> S]
    BY <1>1, <2>1
  <2> HIDE DEF rs, m
  <2> QED
    BY <1>1, <2>2, FunctionIsSeq
<1>4. /\ it.kind \in {"uminus", "isnull"} => m = 1
      /\ it.kind \in {"add", "eq"} => m = 2
      /\ it.kind = "last_value" => m \in 1 .. 3
  BY ArityOf
<1>5. /\ it.kind \in LeafKinds => SemOf(it, T, sm) = LeafSem(it, T)
      /\ it.kind = "add" => SemOf(it, T, sm) = AddSem(rs[1], rs[2], T)
      /\ it.kind = "uminus" => SemOf(it, T, sm) = UminusSem(rs[1], T)
  BY DEF SemOf, LeafKinds
<1>6. /\ it.kind = "isnull" => SemOf(it, T, sm) = Value(BoolValue(rs[1].null))
      /\ it.kind = "last_value" => SemOf(it, T, sm) = rs[Len(rs)]
      /\ it.kind = "eq" => SemOf(it, T, sm) = EqSem(rs[1], rs[2])
  BY DEF SemOf, LeafKinds
<1> HIDE DEF rs, m
<1>7. it.kind = "last_value" => rs[Len(rs)] = ArgValue(it, T, sm, m)
  BY <1>2, <1>3, <1>4
<1>8. /\ it.kind \in {"add", "eq", "uminus", "isnull"} => rs[1] = ArgValue(it, T, sm, 1)
      /\ it.kind \in {"add", "eq"} => rs[2] = ArgValue(it, T, sm, 2)
  BY <1>1, <1>2, <1>4
<1> QED
  BY <1>5, <1>6, <1>7, <1>8 DEF m

(* The value of a disjunction: TRUE if an operand is, else NULL if one is. *)
LEMMA OrSemBy ==
    ASSUME NEW it \in ItemRecord, NEW sm, NEW T \in ValueTypes, it.kind = "or"
    PROVE  /\ \A i \in 1 .. Len(it.args) :
                IsTrue(ArgValue(it, T, sm, i)) => SemOf(it, T, sm) = Value(One)
           /\ (\A i \in 1 .. Len(it.args) : ~IsTrue(ArgValue(it, T, sm, i)))
              /\ (\E i \in 1 .. Len(it.args) : ArgValue(it, T, sm, i).null) =>
                SemOf(it, T, sm) = SqlNull
           /\ (\A i \in 1 .. Len(it.args) :
                ~IsTrue(ArgValue(it, T, sm, i)) /\ ~ArgValue(it, T, sm, i).null) =>
                SemOf(it, T, sm) = Value(0)
<1> DEFINE rs == [i \in DOMAIN it.args |-> sm[it.args[i]][ArgType(it, T, i)]]
           m  == Len(it.args)
<1>1. DOMAIN it.args = 1 .. m
  BY LenProperties DEF ItemRecord
<1>2. DOMAIN rs = 1 .. m /\ \A i \in 1 .. m : rs[i] = ArgValue(it, T, sm, i)
  BY <1>1 DEF ArgValue
<1>3. SemOf(it, T, sm) = OrSem(rs)
  BY DEF SemOf, LeafKinds
<1> HIDE DEF rs, m
<1> QED
  BY <1>2, <1>3 DEF OrSem, m

(* The value of COALESCE: that of the first argument that is not NULL. *)
LEMMA CoalesceSemBy ==
    ASSUME NEW it \in ItemRecord, NEW sm, NEW T \in ValueTypes, it.kind = "coalesce",
           Len(it.args) \in 1 .. 3
    PROVE  /\ (\A i \in 1 .. Len(it.args) : ArgValue(it, T, sm, i).null) =>
                SemOf(it, T, sm) = SqlNull
           /\ \A i \in 1 .. Len(it.args) :
                ~ArgValue(it, T, sm, i).null
                /\ (\A j \in 1 .. i - 1 : ArgValue(it, T, sm, j).null) =>
                  SemOf(it, T, sm) = ArgValue(it, T, sm, i)
<1> DEFINE rs == [i \in DOMAIN it.args |-> sm[it.args[i]][ArgType(it, T, i)]]
           m  == Len(it.args)
<1>1. DOMAIN it.args = 1 .. m
  BY LenProperties DEF ItemRecord
<1>2. DOMAIN rs = 1 .. m /\ \A i \in 1 .. m : rs[i] = ArgValue(it, T, sm, i)
  BY <1>1 DEF ArgValue
<1>3. SemOf(it, T, sm) = CoalesceSem(rs)
  BY DEF SemOf, LeafKinds
<1> HIDE DEF rs
<1>4. (\A i \in 1 .. m : rs[i].null) => CoalesceSem(rs) = SqlNull
  BY <1>2 DEF CoalesceSem
<1>5. ASSUME NEW i \in 1 .. m, ~rs[i].null, \A j \in 1 .. i - 1 : rs[j].null
      PROVE  CoalesceSem(rs) = rs[i]
  BY <1>2, <1>5, CoalescePicks
<1> HIDE DEF m
<1>6. ASSUME NEW i \in 1 .. m, ~ArgValue(it, T, sm, i).null,
             \A j \in 1 .. i - 1 : ArgValue(it, T, sm, j).null
      PROVE  SemOf(it, T, sm) = ArgValue(it, T, sm, i)
  <2>1. m \in Nat
    BY DEF m
  <2>2. \A j \in 1 .. i - 1 : rs[j].null
    BY <1>2, <1>6, <2>1
  <2> QED
    BY <1>2, <1>3, <1>5, <1>6, <2>2
<1> QED
  BY <1>2, <1>3, <1>4, <1>6 DEF m
-----------------------------------------------------------------------------
(* What NULL and the truth values are in a tree. *)

(* No number of the answers a is Junk, and its truth value is one. *)
PlainAnswer(a) ==
    /\ \A T \in ValueTypes : a[T].v # Junk
    /\ a["bool"].v \in {0, One}

(* Calculating with numbers gives numbers. *)
LEMMA PlainArithmetic ==
    ASSUME NEW a \in Values \ {Junk}, NEW b \in Values \ {Junk}, NEW T
    PROVE  /\ FromArith(Plus(a, b, ArithType(T)), T) \in Values \ {Junk}
           /\ FromArith(Neg(a, ArithType(T)), T) \in Values \ {Junk}
           /\ FromArith(Plus(a, b, ArithType("bool")), "bool") \in {0, One}
           /\ FromArith(Neg(a, ArithType("bool")), "bool") \in {0, One}
<1>1. Num(a) \in Int /\ Num(b) \in Int
  BY NegZeroAssumption DEF Values, Num
<1>2. \A v \in Int : \A S : Fit(v, S) \in Int
  BY ConversionTypes DEF Fit
<1>3. One \in Int /\ Junk \notin Int /\ NegZero # Junk
  BY WidthAssumption, JunkAssumption, NegZeroAssumption
<1>4. \A S : Plus(a, b, S) \in Values \ {Junk} /\ Neg(a, S) \in Values \ {Junk}
  <2>1. Num(a) + Num(b) \in Int /\ -Num(a) \in Int
    BY <1>1
  <2> QED
    BY <1>2, <1>3, <2>1 DEF Plus, Neg, Values
<1>5. \A v \in Values \ {Junk} : ToBool(v) \in {0, One}
  BY DEF ToBool, BoolValue
<1>6. \A v \in Values \ {Junk} : FromArith(v, T) \in Values \ {Junk}
  BY <1>3, <1>5 DEF FromArith, Values
<1> QED
  BY <1>4, <1>5, <1>6 DEF FromArith

(* A literal's value. *)
LEMMA PlainLeaf ==
    ASSUME NEW it \in ItemRecord, NEW T \in ValueTypes
    PROVE  /\ LeafSem(it, T).v # Junk
           /\ LeafSem(it, "bool").v \in {0, One}
           /\ it.kind # "null" => ~LeafSem(it, T).null
<1>1. it.val \in Int /\ Junk \notin Int /\ One \in Int
  BY JunkAssumption, WidthAssumption DEF ItemRecord
<1>2. Trunc(it.val) \in Int /\ ToInt32(Trunc(it.val)) \in Int
  BY <1>1, ConversionTypes
<1>3. /\ ToBool(it.val) \in {0, One}
      /\ ToBool(Trunc(it.val)) \in {0, One}
  BY <1>1, <1>2, ConversionTypes
<1> QED
  BY <1>1, <1>2, <1>3 DEF LeafSem, SqlNull, Value

(* The value of an item whose arguments' values are plain is. *)
LEMMA PlainItem ==
    ASSUME NEW it \in ItemRecord, NEW sm, NEW T \in ValueTypes,
           it.kind \in FuncKinds => Len(it.args) \in Arities[it.kind],
           \A i \in DOMAIN it.args :
             sm[it.args[i]] \in [ValueTypes -> Answers] /\ PlainAnswer(sm[it.args[i]])
    PROVE  /\ SemOf(it, T, sm).v # Junk
           /\ T = "bool" => SemOf(it, T, sm).v \in {0, One}
<1> DEFINE A(j) == ArgValue(it, T, sm, j)
           m == Len(it.args)
<1>1. DOMAIN it.args = 1 .. m /\ m \in Nat
  BY LenProperties DEF ItemRecord
<1>2. \A j \in 1 .. m : /\ A(j) \in Answers
                        /\ A(j).v \in Values \ {Junk}
                        /\ A(j).null \in BOOLEAN
                        /\ ArgType(it, T, j) = "bool" => A(j).v \in {0, One}
  <2> SUFFICES ASSUME NEW j \in 1 .. m
               PROVE  /\ A(j) \in Answers
                      /\ A(j).v \in Values \ {Junk}
                      /\ A(j).null \in BOOLEAN
                      /\ ArgType(it, T, j) = "bool" => A(j).v \in {0, One}
    OBVIOUS
  <2>1. /\ sm[it.args[j]] \in [ValueTypes -> Answers]
        /\ PlainAnswer(sm[it.args[j]])
        /\ ArgType(it, T, j) \in ValueTypes
    BY <1>1, ArgTypes
  <2>2. A(j) \in Answers /\ A(j).v # Junk
        /\ (ArgType(it, T, j) = "bool" => A(j).v \in {0, One})
    BY <2>1 DEF PlainAnswer, ArgValue
  <2> QED
    BY <2>2 DEF Answers, Results
<1> HIDE DEF A, m
<1>3. SqlNull.v = 0 /\ (\A v : Value(v).v = v) /\ One \in Int
  BY WidthAssumption DEF SqlNull, Value
<1>4. 0 # Junk /\ One # Junk
  BY JunkAssumption, WidthAssumption
<1>5. /\ it.kind \in {"uminus", "isnull"} => m = 1
      /\ it.kind \in {"add", "eq"} => m = 2
      /\ it.kind \in {"coalesce", "last_value"} => m \in 1 .. 3
  BY ArityOf DEF m
<1>6. CASE it.kind \in LeafKinds
  BY <1>6, PlainLeaf, SemBy
<1>7. CASE it.kind = "add"
  <2>1. SemOf(it, T, sm) = AddSem(A(1), A(2), T)
    BY <1>7, SemBy DEF A
  <2>2. A(1).v \in Values \ {Junk} /\ A(2).v \in Values \ {Junk}
    BY <1>2, <1>5, <1>7
  <2>3. PICK v : v = FromArith(Plus(A(1).v, A(2).v, ArithType(T)), T)
    OBVIOUS
  <2>4. v # Junk /\ (T = "bool" => v \in {0, One})
    BY <2>2, <2>3, PlainArithmetic
  <2>5. SemOf(it, T, sm) = SqlNull \/ SemOf(it, T, sm) = Value(v)
    BY <2>1, <2>3 DEF AddSem
  <2> QED
    BY <1>3, <1>4, <2>4, <2>5
<1>8. CASE it.kind = "uminus"
  <2>1. SemOf(it, T, sm) = UminusSem(A(1), T)
    BY <1>8, SemBy DEF A
  <2>2. A(1).v \in Values \ {Junk}
    BY <1>2, <1>5, <1>8
  <2>3. PICK v : v = FromArith(Neg(A(1).v, ArithType(T)), T)
    OBVIOUS
  <2>4. v # Junk /\ (T = "bool" => v \in {0, One})
    BY <2>2, <2>3, PlainArithmetic
  <2>5. SemOf(it, T, sm) = SqlNull \/ SemOf(it, T, sm) = Value(v)
    BY <2>1, <2>3 DEF UminusSem
  <2> QED
    BY <1>3, <1>4, <2>4, <2>5
<1>9. CASE it.kind = "or"
  <2>1. SemOf(it, T, sm) \in {Value(One), SqlNull, Value(0)}
    BY <1>9, OrSemBy
  <2> QED
    BY <2>1, <1>3, <1>4
<1>10. CASE it.kind \in {"isnull", "eq"}
  <2>1. \A b : BoolValue(b) \in {0, One}
    BY DEF BoolValue
  <2>2. it.kind = "isnull" => SemOf(it, T, sm) = Value(BoolValue(A(1).null))
    BY SemBy DEF A
  <2>3. it.kind = "eq" => SemOf(it, T, sm) = EqSem(A(1), A(2))
    BY SemBy DEF A
  <2>4. EqSem(A(1), A(2)).v \in {0, One}
    BY <1>3, <2>1 DEF EqSem
  <2> QED
    BY <1>3, <1>4, <1>10, <2>1, <2>2, <2>3, <2>4
<1>11. CASE it.kind = "coalesce"
  <2>1. \A j : ArgType(it, T, j) = T
    BY <1>11 DEF ArgType
  <2>2. SemOf(it, T, sm) = SqlNull \/ \E j \in 1 .. m : SemOf(it, T, sm) = A(j)
    <3>1. CASE \A i \in 1 .. m : A(i).null
      BY <1>5, <1>11, <3>1, CoalesceSemBy DEF A, m
    <3>2. CASE \E i \in 1 .. m : ~A(i).null
      <4>1. \E i \in 1 .. m : ~A(i).null /\ \A j \in 1 .. i - 1 : A(j).null
        BY <1>5, <1>11, <3>2
      <4>2. PICK i \in 1 .. m : ~A(i).null /\ \A j \in 1 .. i - 1 : A(j).null
        BY <4>1
      <4>3. SemOf(it, T, sm) = A(i)
        BY <1>5, <1>11, <4>2, CoalesceSemBy DEF A, m
      <4> QED
        BY <4>3
    <3> QED
      BY <3>1, <3>2
  <2> QED
    BY <1>2, <1>3, <1>4, <2>1, <2>2
<1>12. CASE it.kind = "last_value"
  <2>1. ArgType(it, T, m) = T
    BY <1>12 DEF ArgType, m
  <2>2. SemOf(it, T, sm) = A(m)
    BY <1>12, SemBy DEF A, m
  <2> QED
    BY <1>2, <1>5, <1>12, <2>1, <2>2
<1> QED
  BY <1>6, <1>7, <1>8, <1>9, <1>10, <1>11, <1>12 DEF ItemRecord, FuncKinds

(* No function makes a NULL of arguments that are none. *)
LEMMA NonNullItem ==
    ASSUME NEW it \in ItemRecord, NEW sm, NEW T \in ValueTypes, it.kind # "null",
           it.kind \in FuncKinds => Len(it.args) \in Arities[it.kind],
           \A i \in DOMAIN it.args : \A S \in ValueTypes : ~sm[it.args[i]][S].null
    PROVE  ~SemOf(it, T, sm).null
<1> DEFINE A(j) == ArgValue(it, T, sm, j)
           m == Len(it.args)
<1>1. DOMAIN it.args = 1 .. m /\ m \in Nat
  BY LenProperties DEF ItemRecord
<1>2. \A j \in 1 .. m : ~A(j).null
  BY <1>1, ArgTypes DEF ArgValue
<1> HIDE DEF A, m
<1>3. \A v : ~Value(v).null
  BY DEF Value
<1>4. /\ it.kind \in {"uminus", "isnull"} => m = 1
      /\ it.kind \in {"add", "eq"} => m = 2
      /\ it.kind \in {"or", "coalesce", "last_value"} => m \in 1 .. 3
  BY ArityOf DEF m
<1>5. CASE it.kind \in LeafKinds
  <2>1. SemOf(it, T, sm) = LeafSem(it, T)
    BY <1>5, SemBy
  <2> QED
    BY <2>1, PlainLeaf
<1>6. CASE it.kind \in {"add", "eq"}
  <2>1. ~A(1).null /\ ~A(2).null
    BY <1>2, <1>4, <1>6
  <2>2. it.kind = "add" => SemOf(it, T, sm) = AddSem(A(1), A(2), T)
    BY SemBy DEF A
  <2>3. it.kind = "eq" => SemOf(it, T, sm) = EqSem(A(1), A(2))
    BY SemBy DEF A
  <2> QED
    BY <1>3, <1>6, <2>1, <2>2, <2>3 DEF AddSem, EqSem
<1>7. CASE it.kind \in {"uminus", "isnull"}
  <2>1. ~A(1).null
    BY <1>2, <1>4, <1>7
  <2>2. it.kind = "uminus" => SemOf(it, T, sm) = UminusSem(A(1), T)
    BY SemBy DEF A
  <2>3. it.kind = "isnull" => SemOf(it, T, sm) = Value(BoolValue(A(1).null))
    BY SemBy DEF A
  <2> QED
    BY <1>3, <1>7, <2>1, <2>2, <2>3 DEF UminusSem
<1>8. CASE it.kind = "or"
  <2>1. SemOf(it, T, sm) \in {Value(One), Value(0)}
    BY <1>2, <1>8, OrSemBy DEF A, m
  <2> QED
    BY <1>3, <2>1
<1>9. CASE it.kind = "coalesce"
  <2>1. 1 \in 1 .. m /\ 1 .. 1 - 1 = {}
    BY <1>4, <1>9
  <2>2. SemOf(it, T, sm) = A(1)
    BY <1>2, <1>4, <1>9, <2>1, CoalesceSemBy DEF A, m
  <2> QED
    BY <1>2, <2>1, <2>2
<1>10. CASE it.kind = "last_value"
  <2>1. m \in 1 .. m
    BY <1>4, <1>10
  <2>2. SemOf(it, T, sm) = A(m)
    BY <1>10, SemBy DEF A, m
  <2> QED
    BY <1>2, <2>1, <2>2
<1> QED
  BY <1>5, <1>6, <1>7, <1>8, <1>9, <1>10 DEF ItemRecord, FuncKinds

(* An expression without bad items has arguments without. *)
LEMMA FreeParts ==
    ASSUME NEW bad, NEW n \in Free(bad)
    PROVE  /\ n \in DOMAIN items
           /\ n \notin bad
           /\ \A i \in DOMAIN items[n].args : items[n].args[i] \in Free(bad)
<1>1. PICK S \in SUBSET (DOMAIN items \ bad) : Closed(S) /\ n \in S
  BY DEF Free
<1>2. \A i \in DOMAIN items[n].args : items[n].args[i] \in S
  BY <1>1 DEF Closed
<1> QED
  BY <1>1, <1>2 DEF Free

(* An expression was without items of the classes ks before others were    *)
(* built beside it.                                                        *)
LEMMA FreeBefore ==
    ASSUME TreeInv, NEW ks, NEW n \in DOMAIN items, (n \in Free(OfKind(ks)))',
           \A m \in DOMAIN items : m \in DOMAIN items' /\ items'[m] = items[m]
    PROVE  n \in Free(OfKind(ks))
<1>1. PICK S \in SUBSET (DOMAIN items' \ OfKind(ks)') : Closed(S)' /\ n \in S
  BY DEF Free
<1> DEFINE R == S \cap DOMAIN items
<1>2. \A m \in R : m \notin OfKind(ks)
  BY <1>1 DEF OfKind
<1>3. Closed(R)
  <2> SUFFICES ASSUME NEW m \in R, NEW i \in DOMAIN items[m].args
               PROVE  items[m].args[i] \in R
    BY DEF Closed
  <2>1. items'[m].args[i] \in S
    BY <1>1 DEF Closed
  <2>2. items[m].args[i] \in DOMAIN items
    BY Arguments
  <2> QED
    BY <2>1, <2>2
<1> QED
  BY <1>1, <1>2, <1>3 DEF Free

(* Every value is plain, and NULL comes from a literal. *)
PlainSem == \A n \in DOMAIN items : PlainAnswer(sem[n])
NullFree == \A n \in Free(OfKind({"null"})), T \in ValueTypes : ~sem[n][T].null

TreeFacts == TreeInv /\ PlainSem /\ NullFree

(* The value of the newest item. *)
LEMMA NewestFacts ==
    ASSUME TreeInv, NEW n \in DOMAIN items,
           \A i \in DOMAIN items[n].args :
             PlainAnswer(sem[items[n].args[i]])
             /\ (n \in Free(OfKind({"null"})) =>
                   \A T \in ValueTypes : ~sem[items[n].args[i]][T].null)
    PROVE  /\ PlainAnswer(sem[n])
           /\ n \in Free(OfKind({"null"})) => \A T \in ValueTypes : ~sem[n][T].null
<1> DEFINE it == items[n]
<1>1. /\ it \in ItemRecord
      /\ it.kind \in FuncKinds => Len(it.args) \in Arities[it.kind]
      /\ \A i \in DOMAIN it.args : sem[it.args[i]] \in [ValueTypes -> Answers]
  BY Arguments, SemTypes
<1>2. \A T \in ValueTypes : sem[n][T] = SemOf(it, T, sem)
  BY SemTypes
<1>3. "bool" \in ValueTypes
  BY DEF ValueTypes
<1>4. n \in Free(OfKind({"null"})) => it.kind # "null"
  BY FreeParts DEF OfKind
<1> HIDE DEF it
<1>5. \A T \in ValueTypes : /\ SemOf(it, T, sem).v # Junk
                            /\ T = "bool" => SemOf(it, T, sem).v \in {0, One}
  BY <1>1, PlainItem DEF it
<1>6. ASSUME n \in Free(OfKind({"null"})), NEW T \in ValueTypes
      PROVE  ~SemOf(it, T, sem).null
  BY <1>1, <1>4, <1>6, NonNullItem DEF it
<1> QED
  BY <1>2, <1>3, <1>5, <1>6 DEF PlainAnswer

(* The literals. *)
LEMMA FactsInit == TreeInit => TreeFacts
<1> SUFFICES ASSUME TreeInit PROVE TreeFacts
  OBVIOUS
<1>1. TreeInv
  BY TreeInitInv
<1>2. ASSUME NEW n \in DOMAIN items PROVE items[n].args = <<>>
  BY DEF TreeInit, Leaf
<1>3. \A n \in DOMAIN items :
        /\ PlainAnswer(sem[n])
        /\ n \in Free(OfKind({"null"})) => \A T \in ValueTypes : ~sem[n][T].null
  <2> SUFFICES ASSUME NEW n \in DOMAIN items
               PROVE  /\ PlainAnswer(sem[n])
                      /\ n \in Free(OfKind({"null"})) =>
                           \A T \in ValueTypes : ~sem[n][T].null
    OBVIOUS
  <2>1. DOMAIN items[n].args = {}
    BY <1>2
  <2> QED
    BY <1>1, <2>1, NewestFacts
<1> QED
  BY <1>1, <1>3, FreeParts DEF TreeFacts, PlainSem, NullFree

(* A function's value is a function of plain values, and of none of NULL   *)
(* if none of its arguments holds one.                                     *)
LEMMA FactsConstruct == TreeFacts /\ Construct => TreeFacts'
<1> SUFFICES ASSUME TreeFacts, Construct PROVE TreeFacts'
  OBVIOUS
<1>1. TreeInv /\ TreeInv'
  BY ConstructInv DEF TreeFacts
<1>2. PICK k \in FuncKinds, as \in ArgLists :
        /\ Len(as) \in Arities[k]
        /\ items' = Append(items, FuncItem(k, as))
        /\ sem' = Append(sem, ItemSem(FuncItem(k, as), sem))
  BY TreeAssumption DEF Construct, NewItem
<1> DEFINE it == FuncItem(k, as)
           N  == Len(items) + 1
<1>3. /\ Len(items) \in Nat
      /\ DOMAIN items = 1 .. Len(items)
      /\ DOMAIN items' = 1 .. N
      /\ \A n \in DOMAIN items : items'[n] = items[n] /\ sem'[n] = sem[n]
      /\ items'[N] = it
      /\ sem'[N] = ItemSem(it, sem)
  BY <1>1, <1>2, NewItemKeeps
<1>4. /\ it \in ItemRecord
      /\ it.kind = k
      /\ it.args = as
      /\ \A i \in DOMAIN as : as[i] \in DOMAIN items
      /\ it.kind \in FuncKinds => Len(it.args) \in Arities[it.kind]
  <2>1. WellBuilt(it, k, as)
    BY <1>1, <1>2, FuncItemOK
  <2> QED
    BY <1>2, <2>1 DEF WellBuilt, ItemOK
<1> HIDE DEF it
<1>5. \A i \in DOMAIN it.args :
        sem[it.args[i]] \in [ValueTypes -> Answers] /\ PlainAnswer(sem[it.args[i]])
  BY <1>1, <1>4, SemTypes DEF TreeFacts, PlainSem
<1>6. PlainSem'
  <2>1. \A T \in ValueTypes : /\ SemOf(it, T, sem).v # Junk
                              /\ T = "bool" => SemOf(it, T, sem).v \in {0, One}
    BY <1>4, <1>5, PlainItem
  <2>2. PlainAnswer(ItemSem(it, sem))
    BY <2>1 DEF PlainAnswer, ItemSem, ValueTypes
  <2>3. \A n \in DOMAIN items' : PlainAnswer(sem'[n])
    BY <1>3, <2>2 DEF TreeFacts, PlainSem
  <2> QED
    BY <2>3 DEF PlainSem
<1>7. NullFree'
  <2> SUFFICES ASSUME NEW n \in Free(OfKind({"null"}))', NEW T \in ValueTypes
               PROVE  ~sem'[n][T].null
    BY DEF NullFree
  <2>1. /\ n \in DOMAIN items'
        /\ items'[n].kind # "null"
        /\ \A i \in DOMAIN items'[n].args : (items'[n].args[i] \in Free(OfKind({"null"}))')
    <3>1. PICK S \in SUBSET (DOMAIN items' \ OfKind({"null"})') : Closed(S)' /\ n \in S
      BY DEF Free
    <3>2. \A i \in DOMAIN items'[n].args : items'[n].args[i] \in S
      BY <3>1 DEF Closed
    <3> QED
      BY <3>1, <3>2 DEF Free, OfKind
  <2>2. \A m \in DOMAIN items : m \in Free(OfKind({"null"}))' => m \in Free(OfKind({"null"}))
    BY <1>1, <1>3, FreeBefore
  <2>3. \A m \in DOMAIN items : m \in Free(OfKind({"null"}))' =>
          \A S \in ValueTypes : ~sem[m][S].null
    BY <2>2 DEF TreeFacts, NullFree
  <2>4. CASE n \in DOMAIN items
    BY <1>3, <2>3, <2>4
  <2>5. CASE n = N
    <3>1. it.kind # "null" /\ \A i \in DOMAIN as : as[i] \in Free(OfKind({"null"}))'
      BY <1>3, <1>4, <2>1, <2>5
    <3>2. \A i \in DOMAIN it.args : \A S \in ValueTypes : ~sem[it.args[i]][S].null
      BY <1>4, <2>3, <3>1
    <3>3. ~SemOf(it, T, sem).null
      BY <1>4, <3>1, <3>2, NonNullItem
    <3> QED
      BY <1>3, <2>5, <3>3 DEF ItemSem
  <2> QED
    BY <1>3, <2>1, <2>4, <2>5
<1> QED
  BY <1>1, <1>6, <1>7 DEF TreeFacts

LEMMA FactsUnchanged == TreeFacts /\ UNCHANGED treeVars => TreeFacts'
BY UnchangedInv DEF TreeFacts, treeVars, PlainSem, NullFree, Free, OfKind, Closed
=============================================================================
