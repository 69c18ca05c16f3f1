---------------------------- MODULE ItemMethodProofs ----------------------------
(***************************************************************************)
(* What the groups of methods answer, for any literals and any expressions *)
(* over them, in any order of calls.                                       *)
(*                                                                         *)
(* First what holds of the calls in progress, whichever group is           *)
(* evaluated: TypeInv is kept by every call of an argument, by every       *)
(* return of a result, and by the driver.                                  *)
(*                                                                         *)
(* get_xxx(), which needs nothing else, answers what SQL says for any      *)
(* widths of the integer types, if it is asked what ./test asks it; and so *)
(* it implements ItemSpec.                                                 *)
(*                                                                         *)
(* val_xxx() answers what SQL says of any expression that compares no      *)
(* decimals, whatever the members null_value hold at first: a flag that is *)
(* read is one this call wrote.  Whoever answers NULL to val_bool()        *)
(* answers FALSE, in any expression.                                       *)
(*                                                                         *)
(* val_xxx_null(), whatever garbage the flags it is handed pointers to     *)
(* hold at first, is right without OR, IS NULL and comparisons of          *)
(* integers; without IS NULL, COALESCE and those, the only thing that can  *)
(* go wrong is that OR answers NULL; and every call returns with as many   *)
(* flags as it was called with.                                            *)
(*                                                                         *)
(* to_xxx_null() is right of expressions without OR, and of expressions    *)
(* without NULL; that of namespace variant, of expressions without a       *)
(* negation, and meets no types but the integer ones.  Both calculate with *)
(* the number under a raised flag: it is a number too.                     *)
(***************************************************************************)
EXTENDS ItemGetCalls, ItemOld, ItemPrm, ItemNew, ItemVariant, ItemTreeProofs, FiniteSetTheorems

(* Frames are calls of items that exist, and those that wait for an answer *)
(* have called an argument.                                                *)
Waits(k) == stack[k].i \in 1 .. Len(items[stack[k].n].args)

TypeInv ==
    /\ TreeInv
    /\ MachineTypeOK
    /\ \A k \in DOMAIN stack :
         /\ stack[k].n \in DOMAIN items
         /\ k < Len(stack) \/ mode = "ret" => Waits(k)

-----------------------------------------------------------------------------
(* What the frame at work is. *)
LEMMA TopFrame ==
    ASSUME TypeInv, stack # <<>>
    PROVE  /\ Len(stack) \in Nat \ {0}
           /\ DOMAIN stack = 1 .. Len(stack)
           /\ \A k \in DOMAIN stack : stack[k] \in Frames
           /\ Top \in Frames
           /\ Top.n \in DOMAIN items
           /\ Callee \in ItemRecord
           /\ Last \in Nat
           /\ DOMAIN Callee.args = 1 .. Last
           /\ Callee.kind \in FuncKinds => Last \in Arities[Callee.kind]
           /\ \A j \in 1 .. Last : Arg(j) \in DOMAIN items
           /\ mode = "ret" => Top.i \in 1 .. Last
<1>1. stack \in Seq(Frames)
  BY DEF TypeInv, MachineTypeOK
<1>2. Len(stack) \in Nat \ {0} /\ DOMAIN stack = 1 .. Len(stack)
      /\ \A k \in DOMAIN stack : stack[k] \in Frames
  BY <1>1, LenProperties, EmptySeq
<1>3. Top \in Frames /\ Top.n \in DOMAIN items
  BY <1>2 DEF Top, TypeInv
<1>4. TreeInv
  BY DEF TypeInv
<1>5. mode = "ret" => Top.i \in 1 .. Len(items[Top.n].args)
  BY <1>2 DEF Top, TypeInv, Waits
<1> QED
  BY <1>2, <1>3, <1>4, <1>5, Arguments DEF Callee, Last, Arg

(* A call of an argument is a call of an item that exists. *)
LEMMA CallTypes ==
    ASSUME TypeInv, stack # <<>>, NEW j \in 1 .. Last, NEW i \in 1 .. Last,
           NEW a \in Results, CallAgain(j, i, a)
    PROVE  TypeInv'
<1> DEFINE f == [Top EXCEPT !.i = i, !.acc = a]
           g == Frame(Arg(j), ArgType(Callee, Top.t, j))
           s == [stack EXCEPT ![Len(stack)] = f]
<1>1. /\ stack' = Append(s, g)
      /\ mode' = "call"
      /\ ret' = SqlNull
      /\ UNCHANGED <<items, sem, req>>
  BY DEF CallAgain
<1>2. TreeInv'
  BY <1>1, UnchangedInv DEF TypeInv, treeVars
<1>3. f \in Frames /\ f.n = Top.n /\ f.i \in 1 .. Len(items[f.n].args)
  <2>1. Top \in Frames /\ Last \in Nat /\ i \in Nat
    BY TopFrame
  <2>2. f \in Frames /\ f.n = Top.n /\ f.i = i
    BY <2>1 DEF Frames
  <2>3. Last = Len(items[Top.n].args)
    BY DEF Last, Callee
  <2> HIDE DEF f
  <2> QED
    BY <2>2, <2>3
<1>4. SqlNull \in Results
  BY DEF SqlNull, Results, Values
<1>5. g.n = Arg(j) /\ Arg(j) \in DOMAIN items
  BY TopFrame DEF Frame
<1>6. g \in Frames
  <2>1. DOMAIN items \subseteq Nat \ {0}
    BY LenProperties DEF TypeInv, TreeInv, TreeTypeOK
  <2>2. ArgType(Callee, Top.t, j) \in ValueTypes
    BY TopFrame, ArgTypes DEF Frames
  <2> QED
    BY <1>4, <1>5, <2>1, <2>2 DEF Frame, Frames
<1>7. stack \in Seq(Frames)
  BY DEF TypeInv, MachineTypeOK
<1> HIDE DEF f, g
<1>8. s \in Seq(Frames) /\ Len(s) = Len(stack)
      /\ \A k \in 1 .. Len(stack) :
           s[k].n \in DOMAIN items /\ s[k].i \in 1 .. Len(items[s[k].n].args)
  <2>1. \A k \in 1 .. Len(stack) : s[k] = IF k = Len(stack) THEN f ELSE stack[k]
    BY <1>7, LenProperties
  <2>2. s \in Seq(Frames) /\ Len(s) = Len(stack)
    BY <1>3, <1>7, TopFrame, ExceptSeq
  <2>3. \A k \in DOMAIN stack :
          /\ stack[k].n \in DOMAIN items
          /\ k # Len(stack) => stack[k].i \in 1 .. Len(items[stack[k].n].args)
    BY TopFrame DEF TypeInv, Waits
  <2> QED
    BY <2>1, <2>2, <2>3, <1>3, TopFrame
<1> HIDE DEF s
<1>9. /\ stack' \in Seq(Frames)
      /\ \A k \in DOMAIN stack' : stack'[k].n \in DOMAIN items
      /\ \A k \in DOMAIN stack' :
           k < Len(stack') => stack'[k].i \in 1 .. Len(items[stack'[k].n].args)
  <2>1. stack' \in Seq(Frames) /\ DOMAIN stack' = 1 .. Len(s) + 1
        /\ (\A k \in 1 .. Len(s) : stack'[k] = s[k]) /\ stack'[Len(s) + 1] = g
        /\ Len(stack') = Len(s) + 1
    BY <1>1, <1>6, <1>8
  <2>2. Len(stack) \in Nat
    BY TopFrame
  <2>3. \A k \in DOMAIN stack' : stack'[k].n \in DOMAIN items
    BY <2>1, <2>2, <1>5, <1>8
  <2>4. \A k \in DOMAIN stack' :
          k < Len(stack') => stack'[k].i \in 1 .. Len(items[stack'[k].n].args)
    <3> SUFFICES ASSUME NEW k \in DOMAIN stack', k < Len(stack')
                 PROVE  stack'[k].i \in 1 .. Len(items[stack'[k].n].args)
      OBVIOUS
    <3>1. k \in 1 .. Len(stack) /\ stack'[k] = s[k]
      BY <2>1, <2>2, <1>8
    <3> QED
      BY <3>1, <1>8
  <2> QED
    BY <2>1, <2>3, <2>4
<1>10. req \in Requests
  BY DEF TypeInv, MachineTypeOK
<1> QED
  BY <1>1, <1>2, <1>4, <1>9, <1>10 DEF TypeInv, MachineTypeOK, Modes, Waits

(* A return leaves the frames below the top one. *)
LEMMA ReturnTypes ==
    ASSUME TypeInv, stack # <<>>, NEW r \in Results, Return(r)
    PROVE  TypeInv'
<1>1. /\ stack' = SubSeq(stack, 1, Len(stack) - 1)
      /\ mode' = "ret"
      /\ ret' = r
      /\ UNCHANGED <<items, sem, req>>
  BY DEF Return
<1>2. TreeInv'
  BY <1>1, UnchangedInv DEF TypeInv, treeVars
<1>3. /\ stack' \in Seq(Frames)
      /\ DOMAIN stack' = 1 .. Len(stack) - 1
      /\ \A k \in 1 .. Len(stack) - 1 : stack'[k] = stack[k]
  BY <1>1, TopFrame, SubSeqProperties DEF TypeInv, MachineTypeOK
<1>4. \A k \in DOMAIN stack' :
        /\ stack'[k].n \in DOMAIN items
        /\ stack'[k].i \in 1 .. Len(items[stack'[k].n].args)
  BY <1>3, TopFrame DEF TypeInv, Waits
<1>5. req \in Requests
  BY DEF TypeInv, MachineTypeOK
<1> QED
  BY <1>1, <1>2, <1>3, <1>4, <1>5 DEF TypeInv, MachineTypeOK, Modes, Waits

(* get_xxx() *)

(* Every answer of a method is a result. *)
LEMMA AnswerTypes ==
    /\ SqlNull \in Results
    /\ \A v \in Values : Value(v) \in Results
    /\ \A v \in Int : Value(v) \in Results
    /\ Value(0) \in Results
    /\ Value(One) \in Results
    /\ \A b \in BOOLEAN : Value(BoolValue(b)) \in Results
BY WidthAssumption DEF SqlNull, Value, BoolValue, Results, Values

-----------------------------------------------------------------------------
(* The driver: it builds an item, calls a method, takes the answer. *)
LEMMA BuildTypes ==
    ASSUME TypeInv, Build
    PROVE  /\ TypeInv'
           /\ Len(items) \in Nat
           /\ DOMAIN items' = 1 .. Len(items) + 1
           /\ \A n \in DOMAIN items : items'[n] = items[n]
<1>1. TreeInv'
  BY ConstructInv DEF Build, TypeInv
<1>2. /\ Len(items) \in Nat
      /\ DOMAIN items = 1 .. Len(items)
      /\ DOMAIN items' = 1 .. Len(items) + 1
      /\ \A n \in DOMAIN items : items'[n] = items[n]
  BY NewItemKeeps DEF Build, Construct, NewItem, TypeInv
<1> QED
  BY <1>1, <1>2 DEF Build, machineVars, TypeInv, MachineTypeOK, Waits

LEMMA AskTypes ==
    ASSUME TypeInv, NEW n \in DOMAIN items, NEW T \in ValueTypes, Ask(n, T)
    PROVE  TypeInv'
<1>1. stack \in Seq(Frames) /\ ret \in Results
  BY DEF TypeInv, MachineTypeOK
<1>2. DOMAIN items \subseteq Nat \ {0}
  BY LenProperties DEF TypeInv, TreeInv, TreeTypeOK
<1>3. TreeInv'
  BY UnchangedInv DEF Ask, TypeInv, treeVars
<1>4. Frame(n, T) \in Frames /\ Frame(n, T).n = n
  BY <1>2, AnswerTypes DEF Frame, Frames
<1>5. req' \in Requests
  BY <1>2 DEF Ask, Requests
<1> HIDE DEF Frame
<1>6. /\ stack' \in Seq(Frames)
      /\ \A k \in DOMAIN stack' : stack'[k].n \in DOMAIN items /\ ~(k < Len(stack'))
  BY <1>4 DEF Ask
<1> QED
  BY <1>1, <1>3, <1>5, <1>6 DEF Ask, TypeInv, MachineTypeOK, Modes

LEMMA LeaveTypes ==
    ASSUME TypeInv, Leave
    PROVE  TypeInv'
<1>1. TreeInv'
  BY UnchangedInv DEF Leave, TypeInv, treeVars
<1>2. NoReq \in Requests
  BY DEF NoReq, Requests, ValueTypes
<1>3. stack \in Seq(Frames)
  BY DEF TypeInv, MachineTypeOK
<1> QED
  BY <1>1, <1>2, <1>3, AnswerTypes DEF Leave, TypeInv, MachineTypeOK, Modes

(* Nothing runs yet. *)
LEMMA MachineInitTypes == TreeInit /\ MachineInit => TypeInv
<1> SUFFICES ASSUME TreeInit, MachineInit PROVE TypeInv
  OBVIOUS
<1>1. TreeInv
  BY TreeInitInv
<1>2. MachineTypeOK /\ DOMAIN stack = {}
  BY AnswerTypes, EmptySeq DEF MachineInit, MachineTypeOK, Modes, NoReq,
                               Requests, ValueTypes
<1> QED
  BY <1>1, <1>2 DEF TypeInv

(* Nothing changes. *)
LEMMA StutterTypes ==
    ASSUME TypeInv, UNCHANGED treeVars, UNCHANGED machineVars
    PROVE  TypeInv'
BY UnchangedInv DEF TypeInv, MachineTypeOK, machineVars, treeVars, Waits

-----------------------------------------------------------------------------
(* The numbers that are exact in every type, and the items that have an   *)
(* exact decimal.                                                          *)

(* Truncating a whole number changes nothing. *)
LEMMA TruncWhole ==
    ASSUME NEW v \in Int, v % One = 0
    PROVE  Trunc(v) = v
<1>1. One \in Nat \ {0}
  BY WidthAssumption
<1>2. PICK q \in Int : v = One * q
  <2>1. v = One * (v \div One) + (v % One) /\ v \div One \in Int
    BY <1>1
  <2> QED
    BY <2>1, <1>1
<1>3. PICK p \in Int, r \in 0 .. One - 1 : -v = One * p + r /\ r = (-v) % One
  <2>1. /\ -v = One * ((-v) \div One) + ((-v) % One)
        /\ (-v) \div One \in Int
        /\ (-v) % One \in 0 .. One - 1
    BY <1>1
  <2> QED
    BY <2>1
<1>4. One * (-q - p) = r
  <2>1. One * (-q - p) = -(One * q) - One * p
    BY <1>1
  <2>2. PICK a \in Int : a = One * q
    BY <1>1
  <2>3. PICK b \in Int : b = One * p
    BY <1>1
  <2>4. r \in Int /\ v = a /\ -v = b + r
    BY <1>1, <1>2, <1>3, <2>2, <2>3
  <2>5. -a - b = r
    BY <2>4
  <2> QED
    BY <2>1, <2>2, <2>3, <2>5
<1>5. -q - p = 0
  <2>1. -q - p >= 1 => One * (-q - p) >= One
    BY <1>1
  <2>2. -q - p <= -1 => One * (-q - p) < 0
    BY <1>1
  <2> QED
    BY <1>1, <1>4, <2>1, <2>2
<1>6. r = 0
  BY <1>1, <1>4, <1>5
<1> QED
  BY <1>3, <1>6 DEF Trunc

(* The two Booleans are numbers of every type. *)
LEMMA BoolExact ==
    ASSUME NEW v \in {0, One}
    PROVE  /\ v \in Int
           /\ Trunc(v) = v
           /\ ToInt32(v) = v
           /\ ToBool(v) = v
           /\ UlonglongToDecimal(v) = v
<1>1. One \in Nat \ {0} /\ v \in Int
  BY WidthAssumption
<1>2. v % One = 0
  BY <1>1
<1>3. Trunc(v) = v
  BY <1>1, <1>2, TruncWhole
<1>4. PICK h \in Nat : h = Int32Half * One /\ h > One
  <2>1. Int32Half * One >= 2 * One /\ Int32Half * One \in Nat
    BY WidthAssumption
  <2> QED
    BY <2>1, <1>1
<1>5. (v + h) % (2 * h) = v + h
  BY <1>1, <1>4
<1>6. ToInt32(v) = v
  BY <1>1, <1>4, <1>5 DEF ToInt32
<1>7. ToBool(v) = v /\ UlonglongToDecimal(v) = v
  BY <1>1, JunkAssumption DEF ToBool, BoolValue, UlonglongToDecimal
<1> QED
  BY <1>1, <1>3, <1>6, <1>7

(* A result type with an exact decimal is merged from such types only. *)
LEMMA Hybrid2Decimal ==
    ASSUME NEW ta \in FieldTypes, NEW tb \in FieldTypes,
           Hybrid2(ta, tb) \in DecimalTypes
    PROVE  ta \in DecimalTypes /\ tb \in DecimalTypes
BY DEF Hybrid2, DecimalTypes, FieldTypes, MYSQL_TYPE_NULL, MYSQL_TYPE_BOOL,
       MYSQL_TYPE_LONGLONG, MYSQL_TYPE_DOUBLE, MYSQL_TYPE_NEWDECIMAL

(* ... however many there are. *)
LEMMA HybridDecimal ==
    ASSUME NEW m \in 1 .. 3, NEW ts \in [1 .. m -> FieldTypes],
           Hybrid_field_type(ts) \in DecimalTypes
    PROVE  \A i \in 1 .. m : ts[i] \in DecimalTypes
<1>1. Len(ts) = m
  BY FunctionIsSeq
<1>2. CASE m = 1
  <2>1. Hybrid_field_type(ts) = ts[1]
    BY <1>1, <1>2 DEF Hybrid_field_type
  <2> QED
    BY <2>1, <1>2
<1>3. CASE m = 2
  <2>1. Hybrid_field_type(ts) = Hybrid2(ts[1], ts[2])
    BY <1>1, <1>3 DEF Hybrid_field_type
  <2> QED
    BY <2>1, <1>3, Hybrid2Decimal
<1>4. CASE m = 3
  <2>1. Hybrid_field_type(ts) = Hybrid2(Hybrid2(ts[1], ts[2]), ts[3])
    BY <1>1, <1>4 DEF Hybrid_field_type
  <2>2. ts[1] \in FieldTypes /\ ts[2] \in FieldTypes /\ ts[3] \in FieldTypes
    BY <1>4
  <2>3. Hybrid2(ts[1], ts[2]) \in FieldTypes
    BY <2>2, Hybrid2Types
  <2>4. Hybrid2(ts[1], ts[2]) \in DecimalTypes /\ ts[3] \in DecimalTypes
    BY <2>1, <2>2, <2>3, Hybrid2Decimal
  <2> QED
    BY <2>2, <2>4, <1>4, Hybrid2Decimal
<1> QED
  BY <1>2, <1>3, <1>4

(* An item asked for a decimal it has an exact one of asks its arguments   *)
(* for a decimal only if they have one.                                    *)
LEMMA ArgumentSafe ==
    ASSUME TreeInv, NEW n \in DOMAIN items, NEW T \in ValueTypes,
           T = "decimal" => items[n].type \in DecimalTypes,
           NEW j \in DOMAIN items[n].args, ArgType(items[n], T, j) = "decimal"
    PROVE  items[items[n].args[j]].type \in DecimalTypes
<1> DEFINE it == items[n]
           ts == [i \in DOMAIN it.args |-> items[it.args[i]].type]
           m  == Len(it.args)
<1>1. it \in ItemRecord /\ m \in Nat /\ DOMAIN it.args = 1 .. m
      /\ (\A i \in 1 .. m : it.args[i] \in DOMAIN items)
  BY Arguments
<1>2. it.kind \in FuncKinds
  BY <1>1, Arguments DEF ItemRecord
<1>3. m \in 1 .. 3
  <2>1. m \in Arities[it.kind]
    BY <1>2, Arguments
  <2>2. \A k \in FuncKinds : Arities[k] \subseteq 1 .. 3
    BY DEF FuncKinds, Arities
  <2> QED
    BY <1>2, <2>1, <2>2
<1>4. it = FuncItem(it.kind, it.args)
  <2>1. \A i \in DOMAIN LeafPool : Leaf(LeafPool[i]).args = <<>>
    BY DEF Leaf
  <2>2. it.args # <<>>
    OBVIOUS
  <2>3. Merged(n)
    BY DEF TreeInv
  <2> QED
    BY <2>1, <2>2, <2>3 DEF Merged
<1>5. it.cmp = Hybrid_field_type(ts) /\ it.type = FuncType(it.kind, ts)
  BY <1>4 DEF FuncItem
<1>6. ts \in [1 .. m -> FieldTypes]
  <2>1. \A i \in DOMAIN items : items[i].type \in FieldTypes
    BY Arguments DEF ItemRecord
  <2> QED
    BY <2>1, <1>1
<1>7. Len(ts) = m
  BY <1>1, <1>6, FunctionIsSeq
<1>8. ts[j] = items[it.args[j]].type /\ j \in 1 .. m
  BY <1>1
<1> HIDE DEF ts, m
<1>9. Hybrid_field_type(ts) \in DecimalTypes => ts[j] \in DecimalTypes
  BY <1>3, <1>6, <1>8, HybridDecimal
<1>10. CASE it.kind \in {"add", "uminus", "coalesce"}
  <2>1. T = "decimal"
    BY <1>10 DEF ArgType, ArithType
  <2>2. FuncType(it.kind, ts) = Hybrid_field_type(ts)
    BY <1>10 DEF FuncType
  <2> QED
    BY <2>1, <2>2, <1>5, <1>8, <1>9
<1>11. CASE it.kind \in {"isnull", "eq"}
  <2>1. NativeType(it.cmp) = "decimal"
    BY <1>11 DEF ArgType
  <2>2. it.cmp = MYSQL_TYPE_NEWDECIMAL
    BY <2>1, <1>1 DEF NativeType, ItemRecord, FieldTypes, MYSQL_TYPE_NULL,
                      MYSQL_TYPE_BOOL, MYSQL_TYPE_LONGLONG, MYSQL_TYPE_DOUBLE,
                      MYSQL_TYPE_NEWDECIMAL
  <2> QED
    BY <2>2, <1>5, <1>8, <1>9 DEF DecimalTypes
<1>12. CASE it.kind = "or"
  BY <1>12 DEF ArgType
<1>13. CASE it.kind = "last_value"
  <2>1. j = m /\ T = "decimal"
    BY <1>1, <1>8, <1>13 DEF ArgType, m
  <2>2. FuncType(it.kind, ts) = ts[m]
    BY <1>7, <1>13 DEF FuncType
  <2> QED
    BY <2>1, <2>2, <1>5, <1>8
<1> QED
  BY <1>2, <1>10, <1>11, <1>12, <1>13 DEF FuncKinds

-----------------------------------------------------------------------------
(* The calls in progress. *)

MachineInv == TypeInv /\ TreeFacts /\ InOrder

(* Of every frame. *)
SafeCalls == \A k \in DOMAIN stack : Safe(stack[k])
FirstCalls == \A k \in DOMAIN stack : KnowsFirst(stack[k])
CoalesceCalls == \A k \in DOMAIN stack : KnowsCoalesce(stack[k])

(* What the frame at work is, in its place. *)
LEMMA AtWork ==
    ASSUME MachineInv, stack # <<>>
    PROVE  /\ Len(stack) \in Nat \ {0}
           /\ DOMAIN stack = 1 .. Len(stack)
           /\ stack \in Seq(Frames)
           /\ stack[Len(stack)] = Top
           /\ Top \in Frames
           /\ Top.n \in DOMAIN items /\ Top.n \in Nat \ {0}
           /\ Top.i \in Nat /\ Top.acc \in Results /\ Top.t \in ValueTypes
           /\ Callee \in ItemRecord
           /\ Last \in Nat /\ Last = Len(items[Top.n].args)
           /\ DOMAIN Callee.args = 1 .. Last
           /\ \A j \in 1 .. Last : Arg(j) \in DOMAIN items /\ Arg(j) < Top.n
           /\ \A j \in 1 .. Last : ArgSem(Top, j) \in Answers
           /\ Callee.kind \in {"uminus", "isnull"} => Last = 1
           /\ Callee.kind \in {"add", "eq"} => Last = 2
           /\ Callee.kind \in {"or", "coalesce", "last_value"} => Last \in 1 .. 3
           /\ Callee.kind \in FuncKinds => 1 \in 1 .. Last
           /\ mode = "ret" => Top.i \in 1 .. Last
           /\ ret \in Results
           /\ TreeInv
<1>1. TypeInv /\ TreeInv
  BY DEF MachineInv, TypeInv
<1>2. /\ Len(stack) \in Nat \ {0}
      /\ DOMAIN stack = 1 .. Len(stack)
      /\ stack[Len(stack)] = Top
      /\ Top \in Frames
      /\ Top.n \in DOMAIN items
      /\ Callee \in ItemRecord
      /\ Last \in Nat /\ Last = Len(items[Top.n].args)
      /\ DOMAIN Callee.args = 1 .. Last
      /\ Callee.kind \in FuncKinds => Last \in Arities[Callee.kind]
      /\ \A j \in 1 .. Last : Arg(j) \in DOMAIN items
      /\ mode = "ret" => Top.i \in 1 .. Last
  BY <1>1, TopFrame DEF Top, Last, Callee
<1>3. stack \in Seq(Frames) /\ ret \in Results
  BY <1>1 DEF TypeInv, MachineTypeOK
<1>4. Top.i \in Nat /\ Top.acc \in Results /\ Top.t \in ValueTypes /\ Top.n \in Nat \ {0}
  BY <1>2 DEF Frames
<1>5. \A j \in 1 .. Last : Arg(j) < Top.n
  <2>1. ItemOK(items[Top.n], Top.n)
    BY <1>1, <1>2 DEF TreeInv, TreeTypeOK
  <2>2. \A j \in 1 .. Last : Callee.kind \in FuncKinds
    BY <1>1, <1>2, Arguments DEF Callee, ItemRecord
  <2>3. \A j \in 1 .. Last : Arg(j) \in 1 .. Top.n - 1
    BY <1>2, <2>1, <2>2 DEF ItemOK, Callee, Arg
  <2> QED
    BY <1>4, <2>3
<1>6. \A j \in 1 .. Last : ArgSem(Top, j) \in Answers
  <2>1. \A j \in 1 .. Last : ArgType(Callee, Top.t, j) \in ValueTypes
    BY <1>4, ArgTypes
  <2> QED
    BY <1>1, <1>2, <2>1, SemTypes DEF ArgSem, Callee, Arg
<1>7. /\ Callee.kind \in {"uminus", "isnull"} => Last = 1
      /\ Callee.kind \in {"add", "eq"} => Last = 2
      /\ Callee.kind \in {"or", "coalesce", "last_value"} => Last \in 1 .. 3
      /\ Callee.kind \in FuncKinds => Last \in 1 .. 3
  BY <1>2, ArityOf DEF Last
<1>8. Callee.kind \in FuncKinds => 1 \in 1 .. Last
  BY <1>7
<1> QED
  BY <1>1, <1>2, <1>3, <1>4, <1>5, <1>6, <1>7, <1>8, Zenon

(* The answer the frame at work owes, as a function of what its arguments  *)
(* are worth to it.                                                        *)
LEMMA Owes ==
    ASSUME MachineInv, stack # <<>>
    PROVE  /\ Callee.kind \in LeafKinds =>
                /\ Owed = LeafSem(Callee, Top.t)
                /\ \E l \in DOMAIN LeafPool : Callee = Leaf(LeafPool[l])
           /\ Callee.kind = "add" => Owed = AddSem(ArgSem(Top, 1), ArgSem(Top, 2), Top.t)
           /\ Callee.kind = "uminus" => Owed = UminusSem(ArgSem(Top, 1), Top.t)
           /\ Callee.kind = "isnull" => Owed = Value(BoolValue(ArgSem(Top, 1).null))
           /\ Callee.kind = "last_value" => Owed = ArgSem(Top, Last)
           /\ Callee.kind = "eq" => Owed = EqSem(ArgSem(Top, 1), ArgSem(Top, 2))
<1>1. /\ TreeInv
      /\ Top.n \in DOMAIN items
      /\ Top.t \in ValueTypes
      /\ Callee \in ItemRecord
      /\ Callee.kind \in FuncKinds => Len(Callee.args) \in Arities[Callee.kind]
  BY AtWork, Arguments DEF Callee
<1>2. Owed = SemOf(Callee, Top.t, sem)
  BY <1>1, SemTypes DEF Owed, Callee
<1>3. \A j : ArgValue(Callee, Top.t, sem, j) = ArgSem(Top, j)
  BY DEF ArgValue, ArgSem, Callee
<1>4. ASSUME Callee.kind \in LeafKinds
      PROVE  \E l \in DOMAIN LeafPool : Callee = Leaf(LeafPool[l])
  <2>1. Merged(Top.n)
    BY <1>1 DEF TreeInv
  <2>2. Callee.kind \notin FuncKinds
    BY <1>4 DEF LeafKinds, FuncKinds
  <2> QED
    BY <2>1, <2>2 DEF Merged, Callee
<1>5. Len(Callee.args) = Last
  BY DEF Last
<1> HIDE DEF Last
<1>6. /\ Callee.kind \in LeafKinds => Owed = LeafSem(Callee, Top.t)
      /\ Callee.kind = "add" => Owed = AddSem(ArgSem(Top, 1), ArgSem(Top, 2), Top.t)
      /\ Callee.kind = "uminus" => Owed = UminusSem(ArgSem(Top, 1), Top.t)
  BY <1>1, <1>2, <1>3, SemBy
<1>7. /\ Callee.kind = "isnull" => Owed = Value(BoolValue(ArgSem(Top, 1).null))
      /\ Callee.kind = "last_value" => Owed = ArgSem(Top, Last)
      /\ Callee.kind = "eq" => Owed = EqSem(ArgSem(Top, 1), ArgSem(Top, 2))
  BY <1>1, <1>2, <1>3, <1>5, SemBy
<1> QED
  BY <1>4, <1>6, <1>7

(* ... and, where a NULL argument decides it, what it is otherwise. *)
LEMMA OwesNumber ==
    ASSUME MachineInv, stack # <<>>
    PROVE  /\ Callee.kind \in {"add", "eq"}
              /\ (ArgSem(Top, 1).null \/ ArgSem(Top, 2).null) => Owed = SqlNull
           /\ Callee.kind = "add" /\ ~ArgSem(Top, 1).null /\ ~ArgSem(Top, 2).null =>
                Owed = Value(FromArith(Plus(ArgSem(Top, 1).v, ArgSem(Top, 2).v,
                                            ArithType(Top.t)), Top.t))
           /\ Callee.kind = "eq" /\ ~ArgSem(Top, 1).null /\ ~ArgSem(Top, 2).null =>
                Owed = Value(BoolValue(ArgSem(Top, 1).v = ArgSem(Top, 2).v))
           /\ Callee.kind = "uminus" /\ ArgSem(Top, 1).null => Owed = SqlNull
           /\ Callee.kind = "uminus" /\ ~ArgSem(Top, 1).null =>
                Owed = Value(FromArith(Neg(ArgSem(Top, 1).v, ArithType(Top.t)), Top.t))
<1>1. /\ Callee.kind = "add" => Owed = AddSem(ArgSem(Top, 1), ArgSem(Top, 2), Top.t)
      /\ Callee.kind = "uminus" => Owed = UminusSem(ArgSem(Top, 1), Top.t)
      /\ Callee.kind = "eq" => Owed = EqSem(ArgSem(Top, 1), ArgSem(Top, 2))
  BY Owes
<1> QED
  BY <1>1, Zenon DEF AddSem, UminusSem, EqSem

(* What comparing answers without the number of a NULL does. *)
LEMMA NormIs ==
    /\ \A r : r.null => Norm(r) = SqlNull
    /\ \A r : ~r.null => Norm(r) = r
    /\ \A v : Norm(Value(v)) = Value(v) /\ ~Value(v).null /\ Value(v).v = v
    /\ SqlNull.null /\ Norm(SqlNull) = SqlNull
    /\ \A r \in Results : r.null \in BOOLEAN /\ r.v \in Values
    /\ \A r \in Results : Norm(r).null <=> r.null
    /\ \A r \in Results : ~r.null => r = Value(r.v)
BY DEF Norm, SqlNull, Value, Results

LEMMA OwesOr ==
    ASSUME MachineInv, stack # <<>>, Callee.kind = "or"
    PROVE  /\ \A i \in 1 .. Last : IsTrue(ArgSem(Top, i)) => Owed = Value(One)
           /\ (\A i \in 1 .. Last : ~IsTrue(ArgSem(Top, i)))
              /\ (\E i \in 1 .. Last : ArgSem(Top, i).null) => Owed = SqlNull
           /\ (\A i \in 1 .. Last : ~IsTrue(ArgSem(Top, i)) /\ ~ArgSem(Top, i).null) =>
                Owed = Value(0)
<1>1. TreeInv /\ Top.n \in DOMAIN items /\ Top.t \in ValueTypes /\ Callee \in ItemRecord
  BY AtWork
<1>2. Owed = SemOf(Callee, Top.t, sem)
  BY <1>1, SemTypes DEF Owed, Callee
<1>3. \A j : ArgValue(Callee, Top.t, sem, j) = ArgSem(Top, j)
  BY DEF ArgValue, ArgSem, Callee
<1> QED
  BY <1>1, <1>2, <1>3, OrSemBy DEF Last

LEMMA OwesCoalesce ==
    ASSUME MachineInv, stack # <<>>, Callee.kind = "coalesce"
    PROVE  /\ (\A i \in 1 .. Last : ArgSem(Top, i).null) => Owed = SqlNull
           /\ \A i \in 1 .. Last :
                ~ArgSem(Top, i).null /\ (\A j \in 1 .. i - 1 : ArgSem(Top, j).null) =>
                  Owed = ArgSem(Top, i)
<1>1. TreeInv /\ Top.n \in DOMAIN items /\ Top.t \in ValueTypes /\ Callee \in ItemRecord
  BY AtWork
<1>2. Owed = SemOf(Callee, Top.t, sem)
  BY <1>1, SemTypes DEF Owed, Callee
<1>3. \A j : ArgValue(Callee, Top.t, sem, j) = ArgSem(Top, j)
  BY DEF ArgValue, ArgSem, Callee
<1>4. Len(Callee.args) \in 1 .. 3
  BY AtWork DEF Last
<1> QED
  BY <1>1, <1>2, <1>3, <1>4, CoalesceSemBy DEF Last

(* IS NULL of an argument of static type NULL need not ask. *)
LEMMA NullArgument ==
    ASSUME MachineInv, stack # <<>>, Callee.kind = "isnull",
           Callee.cmp = MYSQL_TYPE_NULL
    PROVE  ArgSem(Top, 1).null
<1> DEFINE ts == [i \in DOMAIN Callee.args |-> items[Callee.args[i]].type]
<1>1. /\ TreeInv /\ Top.n \in DOMAIN items /\ Top.t \in ValueTypes
      /\ DOMAIN Callee.args = 1 .. 1 /\ 1 \in 1 .. Last
      /\ Arg(1) \in DOMAIN items
  BY AtWork
<1>2. Callee = FuncItem(Callee.kind, Callee.args)
  <2>1. \A i \in DOMAIN LeafPool : Leaf(LeafPool[i]).args = <<>>
    BY DEF Leaf
  <2>2. Callee.args # <<>>
    <3>1. DOMAIN <<>> = {}
      OBVIOUS
    <3>2. 1 \in DOMAIN Callee.args
      BY <1>1
    <3> QED
      BY <3>1, <3>2
  <2>3. Merged(Top.n)
    BY <1>1 DEF TreeInv
  <2> QED
    BY <2>1, <2>2, <2>3 DEF Merged, Callee
<1>3. Callee.cmp = Hybrid_field_type(ts)
  BY <1>2 DEF FuncItem
<1>4. Len(ts) = 1 /\ ts[1] = items[Arg(1)].type
  <2>1. DOMAIN ts = 1 .. 1 /\ ts[1] = items[Arg(1)].type
    BY <1>1 DEF Arg
  <2>2. ts \in [1 .. 1 -> {items[Arg(1)].type}]
    BY <1>1 DEF Arg
  <2> HIDE DEF ts
  <2> QED
    BY <2>1, <2>2, FunctionIsSeq
<1>5. items[Arg(1)].type = MYSQL_TYPE_NULL
  BY <1>3, <1>4 DEF Hybrid_field_type
<1> QED
  BY <1>1, <1>5, ArgTypes DEF TreeInv, NullTypeIsNull, ArgSem, Arg, Callee

(* What the caller makes of a number v under a flag b. *)
Flagged(b, v) == Norm([null |-> b, v |-> v])

LEMMA FlaggedIs ==
    /\ \A b, v : b => Flagged(b, v) = SqlNull
    /\ \A v : Flagged(FALSE, v) = Value(v) /\ Flagged(TRUE, v) = SqlNull
    /\ \A b \in BOOLEAN : \A v : ~b => Flagged(b, v) = Value(v)
BY DEF Flagged, Norm, Value

(* A literal has no arguments. *)
LEMMA NoLiteral ==
    ASSUME MachineInv, stack # <<>>, NEW j \in 1 .. Last
    PROVE  Callee.kind \notin LeafKinds
<1>1. TreeInv /\ Top.n \in DOMAIN items /\ Last = Len(items[Top.n].args)
  BY AtWork
<1>2. Callee.kind \in LeafKinds => Last = Len(<<>>)
  BY <1>1, Arguments DEF Callee
<1> QED
  BY <1>2

(* The numbers that are answered. *)
LEMMA Numbers ==
    ASSUME MachineInv, stack # <<>>
    PROVE  /\ FromArith(Plus(Top.acc.v, ret.v, ArithType(Top.t)), Top.t) \in Values
           /\ FromArith(Neg(ret.v, ArithType(Top.t)), Top.t) \in Values
           /\ \A b : BoolValue(b) \in Values
           /\ 0 \in Values /\ One \in Values /\ SqlNull \in Results
<1>1. Top.acc \in Results /\ ret \in Results /\ Top.t \in ValueTypes
  BY AtWork
<1>2. Top.acc.v \in Values /\ ret.v \in Values
  BY <1>1, NormIs
<1>3. \A b : BoolValue(b) \in Values
  BY WidthAssumption DEF BoolValue, Values
<1>4. 0 \in Values /\ One \in Values
  BY WidthAssumption DEF Values
<1> QED
  BY <1>1, <1>2, <1>3, <1>4, ArithmeticTypes, AnswerTypes

(* The top frame as it waits for its i-th call, remembering a, and the      *)
(* frame of the call of its j-th argument.                                 *)
Waiting(i, a) == [Top EXCEPT !.i = i, !.acc = a]
Begun(j) == Frame(Arg(j), ArgType(Callee, Top.t, j))

(* A call of the j-th argument, as the i-th call.                          *)
LEMMA CallMove ==
    ASSUME MachineInv, stack # <<>>,
           NEW j \in 1 .. Last, NEW i \in 1 .. Last, NEW a \in Results,
           j = i \/ ComparesDecimals(Callee),
           CallAgain(j, i, a)
    PROVE  /\ MachineInv'
           /\ mode' = "call" /\ ret' = SqlNull /\ UNCHANGED <<items, sem, req>>
           /\ stack' # <<>>
           /\ Len(stack') = Len(stack) + 1
           /\ DOMAIN stack' = 1 .. Len(stack) + 1
           /\ \A k \in 1 .. Len(stack) - 1 : stack'[k] = stack[k]
           /\ stack'[Len(stack)] = Waiting(i, a)
           /\ stack'[Len(stack) + 1] = Begun(j)
           /\ Waiting(i, a).n = Top.n /\ Waiting(i, a).t = Top.t
           /\ Waiting(i, a).i = i /\ Waiting(i, a).acc = a
           /\ Begun(j).n = Arg(j) /\ Begun(j).i = 0
           /\ Begun(j).t = ArgType(Callee, Top.t, j)
           /\ Linked /\ j = i => Linked'
           /\ SafeCalls => SafeCalls'
<1> DEFINE f == [Top EXCEPT !.i = i, !.acc = a]
           g == Frame(Arg(j), ArgType(Callee, Top.t, j))
           s == [stack EXCEPT ![Len(stack)] = f]
           L == Len(stack)
<1>1. /\ stack' = Append(s, g)
      /\ mode' = "call"
      /\ ret' = SqlNull
      /\ UNCHANGED <<items, sem, req>>
  BY DEF CallAgain
<1>2. TypeInv /\ TreeFacts /\ InOrder
  BY DEF MachineInv
<1>3. TypeInv' /\ TreeFacts'
  BY <1>1, <1>2, CallTypes, FactsUnchanged DEF treeVars
<1>4. /\ L \in Nat \ {0}
      /\ DOMAIN stack = 1 .. L
      /\ stack \in Seq(Frames)
      /\ stack[L] = Top
      /\ Top \in Frames
      /\ Top.n \in DOMAIN items
      /\ Top.n \in Nat
      /\ Last \in Nat
      /\ DOMAIN Callee.args = 1 .. Last
      /\ Arg(j) \in DOMAIN items
      /\ Arg(j) < Top.n
      /\ Top.t \in ValueTypes
      /\ TreeInv
  BY AtWork
<1>5. i \in Nat /\ i # 0
  BY <1>4
<1>6. f.n = Top.n /\ f.t = Top.t /\ f.i = i /\ f.acc = a /\ f \in Frames
  BY <1>4, <1>5 DEF Frames
<1>7. g.n = Arg(j) /\ g.t = ArgType(Callee, Top.t, j) /\ g.i = 0
  BY DEF Frame
<1>8. /\ DOMAIN stack' = 1 .. L + 1
      /\ \A k \in 1 .. L - 1 : stack'[k] = stack[k]
      /\ stack'[L] = f
      /\ stack'[L + 1] = g
      /\ Len(stack') = L + 1
      /\ stack' # <<>>
  <2>1. s \in Seq(Frames) /\ Len(s) = L
        /\ (\A k \in 1 .. L : s[k] = IF k = L THEN f ELSE stack[k])
    BY <1>4, <1>6, ExceptSeq
  <2> HIDE DEF s, f, g, L
  <2>2. /\ Len(stack') = L + 1
        /\ DOMAIN stack' = 1 .. L + 1
        /\ \A k \in 1 .. L : stack'[k] = s[k]
        /\ stack'[L + 1] = g
    BY <1>1, <2>1
  <2>3. stack' # <<>>
    BY <1>4, <2>2
  <2> QED
    BY <1>4, <2>1, <2>2, <2>3
<1> HIDE DEF f, g, s
<1>9. Reaches(f, g) /\ (j = i => Calls(f, g))
  <2>1. items[f.n] = Callee
    BY <1>6 DEF Callee
  <2>2. j = i => Calls(f, g)
    BY <1>5, <1>6, <1>7, <2>1 DEF Calls, Arg
  <2> QED
    BY <1>4, <1>5, <1>6, <1>7, <2>1, <2>2 DEF Reaches, Arg
<1>10. ASSUME NEW k \in 1 .. L - 1
       PROVE  /\ Reaches(stack[k], stack[k + 1]) => Reaches(stack'[k], stack'[k + 1])
              /\ Calls(stack[k], stack[k + 1]) => Calls(stack'[k], stack'[k + 1])
  <2>1. stack'[k] = stack[k]
    BY <1>8
  <2>2. stack'[k + 1].n = stack[k + 1].n /\ stack'[k + 1].t = stack[k + 1].t
    <3>1. CASE k < L - 1
      BY <1>4, <1>8, <3>1
    <3>2. CASE k = L - 1
      BY <1>4, <1>6, <1>8, <3>2
    <3> QED
      BY <1>4, <3>1, <3>2
  <2> QED
    BY <2>1, <2>2, Zenon DEF Reaches, Calls
<1>11. stack'[1].n = stack[1].n /\ stack'[1].t = stack[1].t
  BY <1>4, <1>6, <1>8
<1>12. \A k \in 1 .. L : stack'[k].n = stack[k].n
  BY <1>4, <1>6, <1>8
<1>13. Linked /\ j = i => Linked'
  <2> SUFFICES ASSUME Linked, j = i PROVE Linked'
    OBVIOUS
  <2>1. \A k \in 1 .. L : Calls(stack'[k], stack'[k + 1])
    <3>1. \A k \in 1 .. L - 1 : Calls(stack'[k], stack'[k + 1])
      BY <1>10 DEF Linked
    <3>2. Calls(stack'[L], stack'[L + 1])
      BY <1>8, <1>9
    <3> HIDE DEF L
    <3>3. \A k \in 1 .. L : k \in 1 .. L - 1 \/ k = L
      BY <1>4
    <3> QED
      BY <3>1, <3>2, <3>3, Zenon
  <2>2. \A k \in 1 .. L : Calls(stack[k], stack[k + 1])'
    BY <1>1, <2>1, Zenon DEF Calls
  <2>3. Len(stack') - 1 = L
    BY <1>4, <1>8
  <2>4. stack'[1].n = req.n /\ stack'[1].t = req.t
    BY <1>4, <1>11 DEF Linked
  <2> HIDE DEF L
  <2> QED
    BY <1>1, <2>2, <2>3, <2>4, Zenon DEF Linked
<1>14. InOrder'
  <2>1. CallsMatchMode'
    <3>1. Top'.i = 0
      BY <1>7, <1>8 DEF Top
    <3> QED
      BY <1>1, <1>2, <1>8, <3>1 DEF InOrder, CallsMatchMode
  <2>2. stack'[1].n = req.n /\ stack'[1].t = req.t
    BY <1>2, <1>4, <1>11 DEF InOrder
  <2>3. \A k \in 1 .. L : Reaches(stack[k], stack[k + 1])'
    <3>1. \A k \in 1 .. L - 1 : Reaches(stack'[k], stack'[k + 1])
      BY <1>2, <1>10 DEF InOrder
    <3>2. Reaches(stack'[L], stack'[L + 1])
      BY <1>8, <1>9
    <3>3. \A k \in 1 .. L : Reaches(stack'[k], stack'[k + 1])
      BY <1>4, <3>1, <3>2
    <3> QED
      BY <1>1, <3>3, Zenon DEF Reaches, Calls
  <2>4. ASSUME NEW k \in DOMAIN stack', NEW m \in DOMAIN stack', k < m
        PROVE  stack'[m].n < stack'[k].n
    <3>1. CASE m \in 1 .. L
      BY <1>2, <1>4, <1>8, <1>12, <2>4, <3>1 DEF InOrder
    <3>2. CASE m = L + 1
      <4>1. k \in 1 .. L /\ stack'[m].n = Arg(j) /\ stack'[k].n = stack[k].n
        BY <1>4, <1>7, <1>8, <1>12, <2>4, <3>2
      <4>2. k = L \/ Top.n < stack[k].n
        BY <1>2, <1>4, <4>1 DEF InOrder
      <4>3. stack[k].n \in Nat /\ Arg(j) \in Nat
        <5>1. stack[k] \in Frames /\ stack'[m] \in Frames
          <6>1. stack' \in Seq(Frames)
            BY <1>3 DEF TypeInv, MachineTypeOK
          <6> QED
            BY <1>4, <4>1, <6>1
        <5> QED
          BY <4>1, <5>1 DEF Frames
      <4> QED
        BY <1>4, <4>1, <4>2, <4>3
    <3> QED
      BY <1>8, <3>1, <3>2
  <2>5. ASSUME NEW k \in DOMAIN stack', NEW bad \in SUBSET DOMAIN items,
               req.n \in Free(bad)
        PROVE  stack'[k].n \in Free(bad)
    <3>1. CASE k \in 1 .. L
      BY <1>2, <1>4, <1>12, <2>5, <3>1 DEF InOrder
    <3>2. CASE k = L + 1
      <4>1. Top.n \in Free(bad)
        BY <1>2, <1>4, <2>5 DEF InOrder
      <4>2. Arg(j) \in Free(bad)
        BY <1>4, <4>1, FreeParts DEF Arg, Callee
      <4> QED
        BY <1>7, <1>8, <3>2, <4>2
    <3> QED
      BY <1>8, <3>1, <3>2
  <2>6. \A bad : Free(bad)' = Free(bad)
    BY <1>1 DEF Free, Closed
  <2>7. \A k \in DOMAIN stack', bad \in SUBSET DOMAIN items' :
          req'.n \in Free(bad)' => stack'[k].n \in Free(bad)'
    BY <1>1, <2>5, <2>6
  <2>8. Len(stack') - 1 = L
    BY <1>4, <1>8
  <2> HIDE DEF L
  <2> QED
    BY <1>1, <2>1, <2>2, <2>3, <2>4, <2>7, <2>8 DEF InOrder
<1>15. SafeCalls => SafeCalls'
  <2> SUFFICES ASSUME SafeCalls, NEW k \in DOMAIN stack'
               PROVE  Safe(stack[k])'
    BY DEF SafeCalls
  <2>1. Safe(Top)
    BY <1>4 DEF SafeCalls
  <2>2. Safe(stack'[k])
    <3>1. CASE k \in 1 .. L - 1
      BY <1>4, <1>8, <3>1 DEF SafeCalls
    <3>2. CASE k = L
      BY <1>6, <1>8, <2>1, <3>2 DEF Safe
    <3>3. CASE k = L + 1
      <4>1. Top.t = "decimal" => items[Top.n].type \in DecimalTypes
        BY <2>1 DEF Safe
      <4>2. Safe(g)
        BY <1>4, <1>7, <4>1, ArgumentSafe DEF Safe, Callee, Arg
      <4> QED
        BY <1>8, <3>3, <4>2
    <3> QED
      BY <1>4, <1>8, <3>1, <3>2, <3>3
  <2> QED
    BY <1>1, <2>2 DEF Safe
<1>16. f = Waiting(i, a) /\ g = Begun(j)
  BY DEF f, g, Waiting, Begun
<1> QED
  BY <1>1, <1>3, <1>6, <1>7, <1>8, <1>13, <1>14, <1>15, <1>16 DEF MachineInv

(* What the call and the calls below it know of their arguments.           *)
LEMMA CallKnows ==
    ASSUME MachineInv, stack # <<>>,
           NEW j \in 1 .. Last, NEW i \in 1 .. Last, NEW a \in Results,
           j = i \/ ComparesDecimals(Callee),
           CallAgain(j, i, a)
    PROVE  /\ FirstCalls
              /\ (Callee.kind \in {"add", "eq"} /\ i = 2 =>
                    ~ArgSem(Top, 1).null /\ a = ArgSem(Top, 1))
                => FirstCalls'
           /\ CoalesceCalls
              /\ (Callee.kind = "coalesce" => \A m \in 1 .. i - 1 : ArgSem(Top, m).null)
                => CoalesceCalls'
<1> DEFINE L == Len(stack)
           f == Waiting(i, a)
           g == Begun(j)
<1>1. /\ DOMAIN stack' = 1 .. L + 1
      /\ \A k \in 1 .. L - 1 : stack'[k] = stack[k]
      /\ stack'[L] = f
      /\ stack'[L + 1] = g
      /\ UNCHANGED <<items, sem>>
      /\ f.n = Top.n /\ f.t = Top.t /\ f.i = i /\ f.acc = a /\ g.i = 0
  BY CallMove
<1>2. L \in Nat \ {0} /\ DOMAIN stack = 1 .. L /\ Top \in Frames /\ Last \in Nat
  BY AtWork
<1> HIDE DEF f, g, L
<1>4. \A k \in DOMAIN stack' :
        \/ k \in DOMAIN stack /\ stack'[k] = stack[k]
        \/ stack'[k] = f
        \/ stack'[k] = g
  BY <1>1, <1>2
<1>5. \A m : ArgSem(f, m) = ArgSem(Top, m)
  BY <1>1 DEF ArgSem
<1>6. items[f.n] = Callee
  BY <1>1 DEF Callee
<1>7. ASSUME FirstCalls,
             Callee.kind \in {"add", "eq"} /\ i = 2 =>
               ~ArgSem(Top, 1).null /\ a = ArgSem(Top, 1)
      PROVE  FirstCalls'
  <2>1. KnowsFirst(f)
    BY <1>1, <1>5, <1>6, <1>7 DEF KnowsFirst
  <2>2. KnowsFirst(g)
    BY <1>1 DEF KnowsFirst
  <2>3. \A k \in DOMAIN stack' : KnowsFirst(stack'[k])
    BY <1>4, <1>7, <2>1, <2>2, Zenon DEF FirstCalls
  <2> QED
    BY <1>1, <2>3, Zenon DEF FirstCalls, KnowsFirst, ArgSem
<1>8. ASSUME CoalesceCalls,
             Callee.kind = "coalesce" => \A m \in 1 .. i - 1 : ArgSem(Top, m).null
      PROVE  CoalesceCalls'
  <2>1. KnowsCoalesce(f)
    BY <1>1, <1>5, <1>6, <1>8 DEF KnowsCoalesce
  <2>2. KnowsCoalesce(g)
    BY <1>1 DEF KnowsCoalesce
  <2>3. \A k \in DOMAIN stack' : KnowsCoalesce(stack'[k])
    BY <1>4, <1>8, <2>1, <2>2, Zenon DEF CoalesceCalls
  <2> QED
    BY <1>1, <2>3, Zenon DEF CoalesceCalls, KnowsCoalesce, ArgSem
<1> QED
  BY <1>7, <1>8

(* A return of r to the frame below, which is the one that called, and for *)
(* the argument it is at unless it compares decimals.                      *)
LEMMA ReturnMove ==
    ASSUME MachineInv, stack # <<>>, NEW r \in Results, Return(r)
    PROVE  /\ MachineInv'
           /\ mode' = "ret" /\ ret' = r /\ UNCHANGED <<items, sem, req>>
           /\ Len(stack') = Len(stack) - 1
           /\ DOMAIN stack' = 1 .. Len(stack) - 1
           /\ \A k \in 1 .. Len(stack) - 1 : stack'[k] = stack[k]
           /\ stack' = <<>> <=> Len(stack) = 1
           /\ stack' = <<>> => req.n = Top.n /\ req.t = Top.t
           /\ AnswerType' = Top.t
           /\ Linked \/ stack' = <<>> \/ ~ComparesDecimals(Callee') =>
                Answering' = Top.n /\ Wanted' = Owed
           /\ Linked => Linked'
           /\ SafeCalls => SafeCalls'
           /\ FirstCalls => FirstCalls'
           /\ CoalesceCalls => CoalesceCalls'
<1> DEFINE L == Len(stack)
<1>1. /\ mode' = "ret"
      /\ ret' = r
      /\ UNCHANGED <<items, sem, req>>
  BY DEF Return
<1>2. TypeInv /\ TreeFacts /\ InOrder
  BY DEF MachineInv
<1>3. TypeInv' /\ TreeFacts'
  BY <1>1, <1>2, ReturnTypes, FactsUnchanged DEF treeVars
<1>4. L \in Nat \ {0} /\ DOMAIN stack = 1 .. L /\ stack \in Seq(Frames) /\ stack[L] = Top
  BY AtWork
<1>5. /\ stack' \in Seq(Frames)
      /\ Len(stack') = L - 1
      /\ DOMAIN stack' = 1 .. L - 1
      /\ \A k \in 1 .. L - 1 : stack'[k] = stack[k]
  BY <1>4, SubSeqProperties DEF Return
<1>6. stack' = <<>> <=> L = 1
  BY <1>4, <1>5, EmptySeq
<1> HIDE DEF L
<1>7. stack[1].n = req.n /\ stack[1].t = req.t
  BY <1>2 DEF InOrder
<1>8. stack' = <<>> => req.n = Top.n /\ req.t = Top.t
  BY <1>4, <1>6, <1>7
<1>9. L # 1 => /\ L - 1 \in DOMAIN stack
               /\ L - 1 \in 1 .. L - 1
               /\ stack'[L - 1] = stack[L - 1]
               /\ Top' = stack[L - 1]
               /\ Callee' = items[stack[L - 1].n]
               /\ Reaches(stack[L - 1], Top)
  <2> SUFFICES ASSUME L # 1
               PROVE  /\ L - 1 \in DOMAIN stack
                      /\ L - 1 \in 1 .. L - 1
                      /\ stack'[L - 1] = stack[L - 1]
                      /\ Top' = stack[L - 1]
                      /\ Callee' = items[stack[L - 1].n]
                      /\ Reaches(stack[L - 1], Top)
    OBVIOUS
  <2>1. L - 1 \in DOMAIN stack /\ L - 1 \in 1 .. L - 1
    BY <1>4
  <2>2. Top' = stack[L - 1] /\ stack'[L - 1] = stack[L - 1]
    BY <1>5, <2>1 DEF Top
  <2>3. Callee' = items[stack[L - 1].n]
    BY <1>1, <2>2 DEF Callee
  <2>4. \A k \in 1 .. L - 1 : Reaches(stack[k], stack[k + 1])
    BY <1>2 DEF InOrder, L
  <2>5. (L - 1) + 1 = L
    BY <1>4
  <2> QED
    BY <1>4, <2>1, <2>2, <2>3, <2>4, <2>5
<1>10. AnswerType' = Top.t
  <2>1. CASE L = 1
    BY <1>1, <1>6, <1>8, <2>1 DEF AnswerType
  <2>2. CASE L # 1
    <3>1. AnswerType' = ArgType(items[stack[L - 1].n], stack[L - 1].t, stack[L - 1].i)
      BY <1>6, <1>9, <2>2 DEF AnswerType
    <3>2. CASE ComparesDecimals(Callee')
      <4>1. \A T, m : ArgType(Callee', T, m) = "decimal"
        BY <3>2 DEF ComparesDecimals, ArgType, NativeType, MYSQL_TYPE_NULL,
                    MYSQL_TYPE_BOOL, MYSQL_TYPE_LONGLONG, MYSQL_TYPE_DOUBLE,
                    MYSQL_TYPE_NEWDECIMAL
      <4> QED
        BY <1>9, <2>2, <3>1, <4>1 DEF Reaches
    <3>3. CASE ~ComparesDecimals(Callee')
      BY <1>9, <2>2, <3>1, <3>3 DEF Reaches, Calls
    <3> QED
      BY <3>2, <3>3
  <2> QED
    BY <2>1, <2>2
<1>11. Linked \/ stack' = <<>> \/ ~ComparesDecimals(Callee') =>
         Answering' = Top.n /\ Wanted' = Owed
  <2> SUFFICES ASSUME Linked \/ stack' = <<>> \/ ~ComparesDecimals(Callee')
               PROVE  Answering' = Top.n /\ Wanted' = Owed
    OBVIOUS
  <2>1. CASE L = 1
    BY <1>1, <1>6, <1>8, <2>1 DEF Answering, Wanted, Owed
  <2>2. CASE L # 1
    <3>1. Calls(stack[L - 1], Top)
      <4>1. CASE Linked
        <5>1. \A k \in 1 .. L - 1 : Calls(stack[k], stack[k + 1])
          BY <4>1 DEF Linked, L
        <5>2. (L - 1) + 1 = L
          BY <1>4
        <5> QED
          BY <1>4, <1>9, <2>2, <5>1, <5>2
      <4>2. CASE ~Linked
        BY <1>6, <1>9, <2>2, <4>2 DEF Reaches
      <4> QED
        BY <4>1, <4>2
    <3>2. Answering' = items[stack[L - 1].n].args[stack[L - 1].i]
      BY <1>6, <1>9, <2>2 DEF Answering, Arg
    <3>3. Wanted' = sem[items[stack[L - 1].n].args[stack[L - 1].i]]
                       [ArgType(items[stack[L - 1].n], stack[L - 1].t, stack[L - 1].i)]
      BY <1>1, <1>6, <1>9, <2>2 DEF Wanted, ArgSem
    <3> QED
      BY <3>1, <3>2, <3>3 DEF Calls, Owed
  <2> QED
    BY <2>1, <2>2
<1>12. \A k \in 1 .. (L - 1) - 1 : k \in 1 .. L - 1 /\ k + 1 \in 1 .. L - 1
  BY <1>4
<1>13. Linked => Linked'
  <2> SUFFICES ASSUME Linked PROVE Linked'
    OBVIOUS
  <2>1. \A k \in 1 .. L - 1 : Calls(stack[k], stack[k + 1])
    BY DEF Linked, L
  <2>2. \A k \in 1 .. (L - 1) - 1 : Calls(stack'[k], stack'[k + 1])
    BY <1>5, <1>12, <2>1, Zenon
  <2>3. \A k \in 1 .. (L - 1) - 1 : Calls(stack[k], stack[k + 1])'
    BY <1>1, <2>2, Zenon DEF Calls
  <2>4. stack' # <<>> => stack'[1].n = req.n /\ stack'[1].t = req.t
    BY <1>4, <1>5, <1>6, <1>7
  <2> QED
    BY <1>1, <1>5, <2>3, <2>4, Zenon DEF Linked
<1>14. InOrder'
  <2>1. CallsMatchMode'
    BY <1>1, <1>2 DEF InOrder, CallsMatchMode
  <2>2. stack' # <<>> => stack'[1].n = req.n /\ stack'[1].t = req.t
    BY <1>4, <1>5, <1>6, <1>7
  <2>3. \A k \in 1 .. (L - 1) - 1 : Reaches(stack[k], stack[k + 1])'
    <3>1. \A k \in 1 .. L - 1 : Reaches(stack[k], stack[k + 1])
      BY <1>2 DEF InOrder, L
    <3>2. \A k \in 1 .. (L - 1) - 1 : Reaches(stack'[k], stack'[k + 1])
      BY <1>5, <1>12, <3>1, Zenon
    <3> QED
      BY <1>1, <3>2, Zenon DEF Reaches, Calls
  <2>4. \A k, m \in DOMAIN stack' : k < m => stack'[m].n < stack'[k].n
    BY <1>2, <1>4, <1>5 DEF InOrder
  <2>5. \A k \in DOMAIN stack', bad \in SUBSET DOMAIN items :
          req.n \in Free(bad) => stack'[k].n \in Free(bad)
    BY <1>2, <1>4, <1>5 DEF InOrder
  <2>6. \A bad : Free(bad)' = Free(bad)
    BY <1>1 DEF Free, Closed
  <2>7. \A k \in DOMAIN stack', bad \in SUBSET DOMAIN items' :
          req'.n \in Free(bad)' => stack'[k].n \in Free(bad)'
    BY <1>1, <2>5, <2>6
  <2> QED
    BY <1>1, <1>5, <2>1, <2>2, <2>3, <2>4, <2>7 DEF InOrder
<1>15. \A k \in DOMAIN stack' : k \in DOMAIN stack /\ stack'[k] = stack[k]
  BY <1>4, <1>5
<1>16. SafeCalls => SafeCalls'
  BY <1>1, <1>15, Zenon DEF SafeCalls, Safe
<1>17. FirstCalls => FirstCalls'
  BY <1>1, <1>15, Zenon DEF FirstCalls, KnowsFirst, ArgSem
<1>18. CoalesceCalls => CoalesceCalls'
  BY <1>1, <1>15, Zenon DEF CoalesceCalls, KnowsCoalesce, ArgSem
<1> QED
  BY <1>1, <1>3, <1>5, <1>6, <1>8, <1>10, <1>11, <1>13, <1>14, <1>16, <1>17, <1>18
     DEF MachineInv, L

-----------------------------------------------------------------------------
(* The driver, again: no call is in progress, or one that has just begun.  *)

(* With no frame there is nothing to know. *)
Quiet == stack = <<>> /\ Linked /\ SafeCalls /\ FirstCalls /\ CoalesceCalls

LEMMA NoFrames == stack = <<>> => Quiet
<1> SUFFICES ASSUME stack = <<>> PROVE Quiet
  OBVIOUS
<1>1. DOMAIN stack = {} /\ Len(stack) = 0
  BY EmptySeq
<1> QED
  BY <1>1 DEF Quiet, Linked, SafeCalls, FirstCalls, CoalesceCalls

LEMMA OutOfOrder ==
    ASSUME stack = <<>>, mode \in {"idle", "ret"},
           mode = "idle" => req = NoReq,
           mode = "ret" => req.n \in DOMAIN items
    PROVE  InOrder
<1>1. DOMAIN stack = {} /\ Len(stack) = 0
  BY EmptySeq
<1> QED
  BY <1>1 DEF InOrder, CallsMatchMode

LEMMA InitMove == TreeInit /\ MachineInit => MachineInv /\ Quiet /\ mode = "idle"
BY MachineInitTypes, FactsInit, NoFrames, OutOfOrder DEF MachineInit, MachineInv

LEMMA BuildMove ==
    ASSUME MachineInv, Build
    PROVE  /\ MachineInv'
           /\ Quiet'
           /\ mode = "idle" /\ stack = <<>> /\ req = NoReq /\ UNCHANGED machineVars
           /\ Len(items) \in Nat
           /\ DOMAIN items' = 1 .. Len(items) + 1
           /\ \A n \in DOMAIN items : items'[n] = items[n]
<1>1. /\ TypeInv'
      /\ Len(items) \in Nat
      /\ DOMAIN items' = 1 .. Len(items) + 1
      /\ \A n \in DOMAIN items : items'[n] = items[n]
  BY BuildTypes DEF MachineInv
<1>2. TreeFacts'
  BY FactsConstruct DEF MachineInv, Build
<1>3. mode = "idle" /\ stack = <<>> /\ req = NoReq /\ UNCHANGED machineVars
  BY DEF MachineInv, InOrder, CallsMatchMode, Build
<1>4. (stack = <<>>)' /\ mode' = "idle" /\ req' = NoReq
  BY <1>3 DEF machineVars
<1>5. InOrder'
  <2>1. DOMAIN stack' = {} /\ Len(stack') = 0
    BY <1>4, EmptySeq
  <2> QED
    BY <1>4, <2>1 DEF InOrder, CallsMatchMode
<1>6. Quiet'
  BY <1>4, NoFrames, PTL
<1> QED
  BY <1>1, <1>2, <1>3, <1>5, <1>6 DEF MachineInv

LEMMA AskMove ==
    ASSUME MachineInv, NEW n \in DOMAIN items, NEW T \in ValueTypes, Ask(n, T)
    PROVE  /\ MachineInv'
           /\ mode = "idle" /\ mode' = "call" /\ UNCHANGED <<items, sem, ret>>
           /\ stack' = <<Frame(n, T)>> /\ stack' # <<>>
           /\ Len(stack') = 1 /\ DOMAIN stack' = 1 .. 1
           /\ stack'[1].n = n /\ stack'[1].t = T /\ stack'[1].i = 0
           /\ req'.n = n /\ req'.t = T
           /\ Linked' /\ FirstCalls' /\ CoalesceCalls'
           /\ (T = "decimal" => items[n].type \in DecimalTypes) => SafeCalls'
<1>1. mode = "idle" /\ mode' = "call" /\ UNCHANGED <<items, sem, ret>>
      /\ stack' = <<Frame(n, T)>> /\ req'.n = n /\ req'.t = T
  BY DEF Ask
<1>2. TypeInv' /\ TreeFacts'
  BY <1>1, AskTypes, FactsUnchanged DEF MachineInv, treeVars
<1>3. Len(stack') = 1 /\ DOMAIN stack' = 1 .. 1 /\ stack'[1] = Frame(n, T) /\ stack' # <<>>
  BY <1>1
<1>4. stack'[1].n = n /\ stack'[1].t = T /\ stack'[1].i = 0
  BY <1>3 DEF Frame
<1>5. \A k \in DOMAIN stack' : k = 1
  BY <1>3
<1>6. InOrder'
  BY <1>1, <1>3, <1>4, <1>5 DEF InOrder, CallsMatchMode, Top
<1>7. Linked'
  BY <1>1, <1>3, <1>4 DEF Linked
<1>8. FirstCalls' /\ CoalesceCalls'
  BY <1>4, <1>5 DEF FirstCalls, CoalesceCalls, KnowsFirst, KnowsCoalesce
<1>9. (T = "decimal" => items[n].type \in DecimalTypes) => SafeCalls'
  BY <1>1, <1>4, <1>5 DEF SafeCalls, Safe
<1> QED
  BY <1>1, <1>2, <1>3, <1>4, <1>6, <1>7, <1>8, <1>9 DEF MachineInv

(* ./test asks for a decimal only an item that has an exact one. *)
LEMMA EnterSafe ==
    ASSUME TreeInv, NEW n \in DOMAIN items, "decimal" \in EntryTypes(items[n])
    PROVE  items[n].type \in DecimalTypes
<1>1. items[n].type \in FieldTypes
  BY Arguments DEF ItemRecord
<1> QED
  BY <1>1 DEF EntryTypes, NativeType, DecimalTypes, FieldTypes, MYSQL_TYPE_NULL,
              MYSQL_TYPE_BOOL, MYSQL_TYPE_LONGLONG, MYSQL_TYPE_DOUBLE,
              MYSQL_TYPE_NEWDECIMAL

LEMMA LeaveMove ==
    ASSUME MachineInv, Leave
    PROVE  /\ MachineInv'
           /\ Quiet'
           /\ mode' = "idle" /\ ret' = SqlNull /\ UNCHANGED <<items, sem, stack>>
<1>1. (stack = <<>>)' /\ mode' = "idle" /\ req' = NoReq /\ ret' = SqlNull
      /\ UNCHANGED <<items, sem, stack>>
  BY DEF Leave
<1>2. TypeInv' /\ TreeFacts'
  BY <1>1, LeaveTypes, FactsUnchanged DEF MachineInv, treeVars
<1>3. InOrder'
  <2>1. DOMAIN stack' = {} /\ Len(stack') = 0
    BY <1>1, EmptySeq
  <2> QED
    BY <1>1, <2>1 DEF InOrder, CallsMatchMode
<1>4. Quiet'
  BY <1>1, NoFrames, PTL
<1> QED
  BY <1>1, <1>2, <1>3, <1>4 DEF MachineInv

LEMMA StutterMove ==
    ASSUME MachineInv, UNCHANGED treeVars, UNCHANGED machineVars
    PROVE  /\ MachineInv'
           /\ UNCHANGED <<items, sem, stack, mode, ret, req>>
           /\ Linked => Linked'
           /\ SafeCalls => SafeCalls'
           /\ FirstCalls => FirstCalls'
           /\ CoalesceCalls => CoalesceCalls'
           /\ Wanted' = Wanted
           /\ Answering' = Answering
<1>1. TypeInv' /\ TreeFacts'
  BY StutterTypes, FactsUnchanged DEF MachineInv
<1>2. UNCHANGED <<items, sem, stack, mode, ret, req>>
  BY DEF treeVars, machineVars
<1>3. InOrder'
  <2>1. \A bad : Free(bad)' = Free(bad)
    BY <1>2 DEF Free, Closed
  <2>2. \A k \in 1 .. Len(stack) - 1 : Reaches(stack[k], stack[k + 1])'
    BY <1>2, Zenon DEF MachineInv, InOrder, Reaches, Calls
  <2> QED
    BY <1>2, <2>1, <2>2 DEF MachineInv, InOrder, CallsMatchMode, Top
<1>4. /\ Linked => Linked'
      /\ SafeCalls => SafeCalls'
  BY <1>2, Zenon DEF Linked, Calls, SafeCalls, Safe
<1>5. /\ FirstCalls => FirstCalls'
      /\ CoalesceCalls => CoalesceCalls'
  BY <1>2, Zenon DEF FirstCalls, KnowsFirst, CoalesceCalls, KnowsCoalesce, ArgSem
<1>6. Wanted' = Wanted /\ Answering' = Answering
  BY <1>2, Zenon DEF Wanted, Answering, ArgSem, Arg, Callee, Top
<1> QED
  BY <1>1, <1>2, <1>3, <1>4, <1>5, <1>6 DEF MachineInv

-----------------------------------------------------------------------------
(* Every answer of a method is a result. *)
LEMMA ResultTypes ==
    /\ SqlNull \in Results
    /\ NullAnswer \in Results
    /\ \A v \in Values : Value(v) \in Results
    /\ \A v \in Int : Value(v) \in Results
    /\ Value(0) \in Results
    /\ Value(One) \in Results
    /\ \A b \in BOOLEAN : Value(BoolValue(b)) \in Results
BY WidthAssumption DEF SqlNull, NullAnswer, Value, BoolValue, Results, Values

(* So is that of a literal. *)
LEMMA GetLeafTypes ==
    ASSUME NEW it \in ItemRecord, NEW T, it.kind \in LeafKinds
    PROVE  GetLeafResult(it, T) \in Results
<1>1. it.val \in Int
  BY DEF ItemRecord
<1>2. /\ Trunc(it.val) \in Int
      /\ ToInt32(it.val) \in Int
      /\ ToInt32(Trunc(it.val)) \in Int
      /\ UlonglongToDecimal(it.val) \in Int
      /\ Double2decimal(Trunc(it.val)) \in Int
  BY <1>1, ConversionTypes, WidthAssumption DEF UlonglongToDecimal
<1>3. ToBool(it.val) \in Int /\ ToBool(Trunc(it.val)) \in Int
  BY <1>1, <1>2, ConversionTypes, WidthAssumption
<1>4. CASE it.kind = "null"
  BY <1>4, ResultTypes DEF GetLeafResult
<1>5. CASE it.kind = "bool"
  BY <1>1, <1>2, <1>5, ResultTypes DEF GetLeafResult, GetLeafBool
<1>6. CASE it.kind = "int"
  BY <1>1, <1>2, <1>3, <1>6, ResultTypes DEF GetLeafResult, GetLeafInt
<1>7. CASE it.kind = "real"
  BY <1>1, <1>2, <1>3, <1>7, ResultTypes DEF GetLeafResult, GetLeafReal
<1>8. CASE it.kind = "decimal"
  BY <1>1, <1>2, <1>3, <1>8, ResultTypes DEF GetLeafResult, GetLeafDecimal
<1> QED
  BY <1>4, <1>5, <1>6, <1>7, <1>8 DEF LeafKinds

(* A literal answers its value, unless it is asked for a decimal it has no *)
(* exact one of.                                                           *)
LEMMA GetLeafExact ==
    ASSUME NEW i \in DOMAIN LeafPool, NEW T \in ValueTypes,
           T = "decimal" => Leaf(LeafPool[i]).type \in DecimalTypes
    PROVE  Norm(GetLeafResult(Leaf(LeafPool[i]), T)) = LeafSem(Leaf(LeafPool[i]), T)
<1> DEFINE l  == LeafPool[i]
           it == Leaf(l)
<1>1. l \in [kind : LeafKinds, val : Int]
  <2>1. LeafPool \in Seq([kind : LeafKinds, val : Int])
    BY TreeAssumption
  <2> QED
    BY <2>1, LenProperties
<1>2. it.kind = l.kind /\ it.val = l.val /\ it.type = LeafType(l.kind)
  BY DEF Leaf
<1>3. l.kind = "bool" => l.val \in {0, One}
  BY TreeAssumption
<1>4. l.kind = "int" => l.val % One = 0
  BY TreeAssumption
<1>5. T \in {"bool", "int32", "longlong", "double", "decimal"}
  BY DEF ValueTypes
<1>6. \A v : Norm(Value(v)) = Value(v)
  BY DEF Norm, Value
<1>7. T = "decimal" => l.kind \notin {"int", "real"}
  BY <1>2 DEF LeafType, DecimalTypes, MYSQL_TYPE_NULL, MYSQL_TYPE_BOOL,
              MYSQL_TYPE_LONGLONG, MYSQL_TYPE_DOUBLE, MYSQL_TYPE_NEWDECIMAL
<1> HIDE DEF l, it
<1>8. CASE l.kind = "null"
  <2>1. GetLeafResult(it, T) = NullAnswer /\ LeafSem(it, T) = SqlNull
    BY <1>2, <1>8 DEF GetLeafResult, LeafSem
  <2>2. Norm(NullAnswer) = SqlNull
    BY DEF NullAnswer, Norm
  <2> QED
    BY <2>1, <2>2 DEF it, l
<1>9. CASE l.kind = "bool"
  <2>1. GetLeafResult(it, T) = Value(l.val)
    BY <1>2, <1>3, <1>9, BoolExact DEF GetLeafResult, GetLeafBool
  <2>2. LeafSem(it, T) = Value(l.val)
    BY <1>2, <1>3, <1>9, BoolExact DEF LeafSem
  <2> QED
    BY <2>1, <2>2, <1>6 DEF it, l
<1>10. CASE l.kind = "int"
  <2>1. Trunc(l.val) = l.val
    BY <1>1, <1>4, <1>10, TruncWhole
  <2>2. GetLeafResult(it, T) = GetLeafInt(l.val, T)
    BY <1>2, <1>10 DEF GetLeafResult
  <2>3. GetLeafInt(l.val, T) = LeafSem(it, T)
    BY <2>1, <1>2, <1>5, <1>7, <1>10 DEF GetLeafInt, LeafSem
  <2> QED
    BY <2>2, <2>3, <1>6 DEF GetLeafInt, it, l
<1>11. CASE l.kind = "real"
  <2>1. GetLeafResult(it, T) = GetLeafReal(l.val, T)
    BY <1>2, <1>11 DEF GetLeafResult
  <2>2. GetLeafReal(l.val, T) = LeafSem(it, T)
    BY <1>2, <1>5, <1>7, <1>11 DEF GetLeafReal, LeafSem
  <2> QED
    BY <2>1, <2>2, <1>6 DEF GetLeafReal, it, l
<1>12. CASE l.kind = "decimal"
  <2>1. GetLeafResult(it, T) = GetLeafDecimal(l.val, T)
    BY <1>2, <1>12 DEF GetLeafResult
  <2>2. GetLeafDecimal(l.val, T) = LeafSem(it, T)
    BY <1>2, <1>5, <1>12 DEF GetLeafDecimal, LeafSem
  <2> QED
    BY <2>1, <2>2, <1>6 DEF GetLeafDecimal, it, l
<1> QED
  BY <1>1, <1>8, <1>9, <1>10, <1>11, <1>12 DEF it, l, LeafKinds


-----------------------------------------------------------------------------
(* The invariant. *)

OrCalls == \A k \in DOMAIN stack : KnowsOr(stack[k])

GetInv ==
    /\ MachineInv
    /\ Linked
    /\ SafeCalls
    /\ FirstCalls
    /\ CoalesceCalls
    /\ OrCalls
    /\ mode = "ret" => Norm(ret) = Wanted

(* What the frame at work has been handed. *)
LEMMA GetHanded ==
    ASSUME GetInv, stack # <<>>, mode = "ret"
    PROVE  /\ Top.i \in 1 .. Last
           /\ ret \in Results
           /\ ret.null <=> ArgSem(Top, Top.i).null
           /\ ret.null => ArgSem(Top, Top.i) = SqlNull
           /\ ~ret.null => ArgSem(Top, Top.i) = ret
<1>1. Norm(ret) = ArgSem(Top, Top.i)
  BY DEF GetInv, Wanted
<1>2. Top.i \in 1 .. Last /\ ret \in Results
  BY AtWork DEF GetInv
<1> QED
  BY <1>1, <1>2, NormIs

(* What it knows of the arguments before. *)
LEMMA GetKnows ==
    ASSUME GetInv, stack # <<>>
    PROVE  /\ Callee.kind \in {"add", "eq"} /\ Top.i = 2 =>
                ~ArgSem(Top, 1).null /\ Top.acc = ArgSem(Top, 1)
           /\ Callee.kind = "coalesce" =>
                \A j \in 1 .. Top.i - 1 : ArgSem(Top, j).null
           /\ Callee.kind = "or" => KnowsOr(Top)
<1>1. Top = stack[Len(stack)] /\ Len(stack) \in DOMAIN stack
  BY AtWork DEF GetInv
<1>2. KnowsFirst(Top) /\ KnowsCoalesce(Top) /\ KnowsOr(Top)
  BY <1>1, Zenon DEF GetInv, FirstCalls, CoalesceCalls, OrCalls
<1> QED
  BY <1>2 DEF KnowsFirst, KnowsCoalesce, Callee

(* An answer that is owed. *)
LEMMA GetReturn ==
    ASSUME GetInv, stack # <<>>, NEW r \in Results, Norm(r) = Owed, Return(r)
    PROVE  GetInv'
<1>1. /\ MachineInv'
      /\ mode' = "ret" /\ ret' = r /\ UNCHANGED <<items, sem, req>>
      /\ DOMAIN stack' = 1 .. Len(stack) - 1
      /\ \A k \in 1 .. Len(stack) - 1 : stack'[k] = stack[k]
      /\ Wanted' = Owed
      /\ Linked' /\ SafeCalls' /\ FirstCalls' /\ CoalesceCalls'
  BY ReturnMove DEF GetInv
<1>2. \A k \in DOMAIN stack' : k \in DOMAIN stack /\ stack'[k] = stack[k]
  BY <1>1, AtWork DEF GetInv
<1>3. OrCalls'
  BY <1>1, <1>2, Zenon DEF GetInv, OrCalls, KnowsOr, ArgSem
<1>4. Norm(ret)' = Wanted'
  BY <1>1 DEF Norm, SqlNull
<1> QED
  BY <1>1, <1>3, <1>4 DEF GetInv

(* A call of the next argument, that remembers what it will need. *)
LEMMA GetCall ==
    ASSUME GetInv, stack # <<>>, NEW i \in 1 .. Last, NEW a \in Results, CallArg(i, a),
           Callee.kind \in {"add", "eq"} /\ i = 2 =>
             ~ArgSem(Top, 1).null /\ a = ArgSem(Top, 1),
           Callee.kind = "coalesce" => \A m \in 1 .. i - 1 : ArgSem(Top, m).null,
           Callee.kind = "or" =>
             /\ \A m \in 1 .. i - 1 : ~IsTrue(ArgSem(Top, m))
             /\ a.null => \E m \in 1 .. i - 1 : ArgSem(Top, m).null
             /\ ~a.null => a = Value(0) /\ \A m \in 1 .. i - 1 : ~ArgSem(Top, m).null
    PROVE  GetInv'
<1> DEFINE L == Len(stack)
           f == Waiting(i, a)
           g == Begun(i)
<1>1. CallAgain(i, i, a)
  BY DEF CallArg
<1>2. /\ MachineInv'
      /\ mode' = "call" /\ UNCHANGED <<items, sem, req>>
      /\ DOMAIN stack' = 1 .. L + 1
      /\ \A k \in 1 .. L - 1 : stack'[k] = stack[k]
      /\ stack'[L] = f
      /\ stack'[L + 1] = g
      /\ f.n = Top.n /\ f.t = Top.t /\ f.i = i /\ f.acc = a /\ g.i = 0
      /\ Linked' /\ SafeCalls'
  BY <1>1, CallMove DEF GetInv
<1>3. FirstCalls' /\ CoalesceCalls'
  BY <1>1, CallKnows DEF GetInv
<1>4. OrCalls'
  <2>1. L \in Nat \ {0} /\ DOMAIN stack = 1 .. L
    BY AtWork DEF GetInv
  <2> HIDE DEF f, g, L
  <2>2. \A k \in DOMAIN stack' :
          \/ k \in DOMAIN stack /\ stack'[k] = stack[k]
          \/ stack'[k] = f
          \/ stack'[k] = g
    BY <1>2, <2>1
  <2>3. items[f.n] = Callee /\ \A m : ArgSem(f, m) = ArgSem(Top, m)
    BY <1>2 DEF ArgSem, Callee
  <2>4. KnowsOr(f)
    BY <1>2, <2>3 DEF KnowsOr
  <2>5. KnowsOr(g)
    BY <1>2 DEF KnowsOr
  <2>6. \A k \in DOMAIN stack' : KnowsOr(stack'[k])
    BY <2>2, <2>4, <2>5, Zenon DEF GetInv, OrCalls
  <2> QED
    BY <1>2, <2>6, Zenon DEF OrCalls, KnowsOr, ArgSem
<1> QED
  BY <1>2, <1>3, <1>4 DEF GetInv

-----------------------------------------------------------------------------
(* The steps. *)

LEMMA GetLeafStep == GetInv /\ GetLeaf => GetInv'
<1> SUFFICES ASSUME GetInv, GetLeaf PROVE GetInv'
  OBVIOUS
<1>1. stack # <<>> /\ Callee.kind \in LeafKinds /\ Return(GetLeafResult(Callee, Top.t))
  BY DEF GetLeaf, Begin
<1>2. Callee \in ItemRecord /\ Top.t \in ValueTypes /\ Callee = items[Top.n]
  BY <1>1, AtWork DEF GetInv, Callee
<1>3. Owed = LeafSem(Callee, Top.t)
  BY <1>1, Owes DEF GetInv
<1>4. PICK l \in DOMAIN LeafPool : Callee = Leaf(LeafPool[l])
  BY <1>1, Owes DEF GetInv
<1>5. Safe(Top)
  BY <1>1, AtWork DEF GetInv, SafeCalls
<1>6. Norm(GetLeafResult(Callee, Top.t)) = Owed
  BY <1>2, <1>3, <1>4, <1>5, GetLeafExact DEF Safe
<1>7. GetLeafResult(Callee, Top.t) \in Results
  BY <1>1, <1>2, GetLeafTypes
<1> QED
  BY <1>1, <1>6, <1>7, GetReturn

LEMMA GetAddStep == GetInv /\ GetAdd => GetInv'
<1> SUFFICES ASSUME GetInv, GetAdd PROVE GetInv'
  OBVIOUS
<1>1. stack # <<>> /\ Callee.kind = "add"
  BY DEF GetAdd, Begin, After, Returned
<1>2. MachineInv /\ 1 \in 1 .. Last /\ 2 \in 1 .. Last /\ Top.acc \in Results
  BY <1>1, AtWork DEF GetInv
<1>3. CASE Begin("add") /\ CallArg(1, SqlNull)
  BY <1>1, <1>2, <1>3, ResultTypes, GetCall
<1>4. CASE (After("add", 1) \/ After("add", 2)) /\ ret.null /\ Return(NullAnswer)
  <2>1. Owed = SqlNull
    BY <1>1, <1>2, <1>4, GetHanded, OwesNumber DEF After, Returned
  <2>2. NullAnswer \in Results /\ Norm(NullAnswer) = SqlNull
    BY ResultTypes DEF NullAnswer, Norm
  <2> QED
    BY <1>1, <1>4, <2>1, <2>2, GetReturn
<1>5. CASE After("add", 1) /\ ~ret.null /\ CallArg(2, ret)
  <2>1. ret \in Results /\ ~ArgSem(Top, 1).null /\ ArgSem(Top, 1) = ret
    BY <1>1, <1>5, GetHanded DEF After, Returned
  <2> QED
    BY <1>1, <1>2, <1>5, <2>1, GetCall
<1>6. CASE /\ After("add", 2)
           /\ ~ret.null
           /\ Return(Value(FromArith(Plus(Top.acc.v, ret.v, ArithType(Top.t)), Top.t)))
  <2>1. /\ ~ArgSem(Top, 1).null /\ ArgSem(Top, 1) = Top.acc
        /\ ~ArgSem(Top, 2).null /\ ArgSem(Top, 2) = ret
        /\ ret \in Results
    BY <1>1, <1>6, GetHanded, GetKnows DEF After, Returned
  <2> DEFINE v == FromArith(Plus(Top.acc.v, ret.v, ArithType(Top.t)), Top.t)
  <2>2. Owed = Value(v)
    BY <1>1, <1>2, <2>1, OwesNumber
  <2>3. v \in Values
    BY <1>2, <2>1, ArithmeticTypes, NormIs
  <2> HIDE DEF v
  <2>4. Value(v) \in Results /\ Norm(Value(v)) = Value(v)
    BY <2>3, ResultTypes, NormIs
  <2> QED
    BY <1>1, <1>6, <2>2, <2>4, GetReturn DEF v
<1> QED
  BY <1>3, <1>4, <1>5, <1>6 DEF GetAdd

LEMMA GetUminusStep == GetInv /\ GetUminus => GetInv'
<1> SUFFICES ASSUME GetInv, GetUminus PROVE GetInv'
  OBVIOUS
<1>1. stack # <<>> /\ Callee.kind = "uminus"
  BY DEF GetUminus, Begin, After, Returned
<1>2. MachineInv /\ 1 \in 1 .. Last
  BY <1>1, AtWork DEF GetInv
<1>3. CASE Begin("uminus") /\ CallArg(1, SqlNull)
  BY <1>1, <1>2, <1>3, ResultTypes, GetCall
<1>4. CASE After("uminus", 1) /\ ret.null /\ Return(NullAnswer)
  <2>1. Owed = SqlNull
    BY <1>1, <1>2, <1>4, GetHanded, OwesNumber DEF After, Returned
  <2>2. NullAnswer \in Results /\ Norm(NullAnswer) = SqlNull
    BY ResultTypes DEF NullAnswer, Norm
  <2> QED
    BY <1>1, <1>4, <2>1, <2>2, GetReturn
<1>5. CASE /\ After("uminus", 1)
           /\ ~ret.null
           /\ Return(Value(FromArith(Neg(ret.v, ArithType(Top.t)), Top.t)))
  <2>1. ret \in Results /\ ~ArgSem(Top, 1).null /\ ArgSem(Top, 1) = ret
    BY <1>1, <1>5, GetHanded DEF After, Returned
  <2> DEFINE v == FromArith(Neg(ret.v, ArithType(Top.t)), Top.t)
  <2>2. Owed = Value(v)
    BY <1>1, <1>2, <2>1, OwesNumber
  <2>3. v \in Values
    BY <2>1, ArithmeticTypes, NormIs
  <2> HIDE DEF v
  <2>4. Value(v) \in Results /\ Norm(Value(v)) = Value(v)
    BY <2>3, ResultTypes, NormIs
  <2> QED
    BY <1>1, <1>5, <2>2, <2>4, GetReturn DEF v
<1> QED
  BY <1>3, <1>4, <1>5 DEF GetUminus

LEMMA GetOrStep == GetInv /\ GetOr => GetInv'
<1> SUFFICES ASSUME GetInv, GetOr PROVE GetInv'
  OBVIOUS
<1> DEFINE soFar == IF ret.null THEN NullAnswer ELSE Top.acc
<1>1. stack # <<>> /\ Callee.kind = "or"
  BY DEF GetOr, Begin, Returned
<1>2. /\ MachineInv /\ 1 \in 1 .. Last /\ Top.acc \in Results
      /\ Last \in Nat /\ Top.i \in Nat
  BY <1>1, AtWork DEF GetInv
<1>3. CASE Begin("or") /\ CallArg(1, Value(0))
  <2>1. 1 .. 1 - 1 = {} /\ ~Value(0).null
    BY NormIs
  <2> QED
    BY <1>1, <1>2, <1>3, <2>1, ResultTypes, GetCall
<1>4. CASE Returned("or") /\ IsTrue(ret) /\ Return(Value(One))
  <2>1. Top.i \in 1 .. Last /\ IsTrue(ArgSem(Top, Top.i))
    BY <1>1, <1>4, GetHanded DEF Returned, IsTrue
  <2>2. Owed = Value(One)
    BY <1>1, <1>2, <2>1, OwesOr
  <2> QED
    BY <1>1, <1>4, <2>2, ResultTypes, NormIs, GetReturn
<1>5. ASSUME Returned("or"), ~IsTrue(ret)
      PROVE  /\ Top.i \in 1 .. Last
             /\ soFar \in Results
             /\ \A m \in 1 .. Top.i : ~IsTrue(ArgSem(Top, m))
             /\ soFar.null => \E m \in 1 .. Top.i : ArgSem(Top, m).null
             /\ ~soFar.null =>
                  soFar = Value(0) /\ \A m \in 1 .. Top.i : ~ArgSem(Top, m).null
  <2>1. /\ Top.i \in 1 .. Last
        /\ ret.null <=> ArgSem(Top, Top.i).null
        /\ ~IsTrue(ArgSem(Top, Top.i))
    BY <1>1, <1>5, GetHanded, NormIs DEF Returned, IsTrue
  <2>2. KnowsOr(Top) /\ items[Top.n].kind = "or"
    BY <1>1, GetKnows DEF Callee
  <2>3. /\ \A j \in 1 .. Top.i - 1 : ~IsTrue(ArgSem(Top, j))
        /\ Top.acc.null => \E j \in 1 .. Top.i - 1 : ArgSem(Top, j).null
        /\ ~Top.acc.null =>
             Top.acc = Value(0) /\ \A j \in 1 .. Top.i - 1 : ~ArgSem(Top, j).null
    BY <2>1, <2>2 DEF KnowsOr
  <2>4. \A m \in 1 .. Top.i : m = Top.i \/ m \in 1 .. Top.i - 1
    BY <2>1
  <2>5. Top.i \in 1 .. Top.i /\ 1 .. Top.i - 1 \subseteq 1 .. Top.i
    BY <2>1
  <2>6. NullAnswer.null /\ NullAnswer \in Results
    BY ResultTypes DEF NullAnswer
  <2>7. CASE ret.null
    <3>1. soFar = NullAnswer /\ ArgSem(Top, Top.i).null
      BY <2>1, <2>7
    <3> HIDE DEF soFar
    <3> QED
      BY <2>1, <2>3, <2>4, <2>5, <2>6, <3>1
  <2>8. CASE ~ret.null
    <3>1. soFar = Top.acc /\ ~ArgSem(Top, Top.i).null
      BY <2>1, <2>8
    <3> HIDE DEF soFar
    <3> QED
      BY <1>2, <2>1, <2>3, <2>4, <2>5, <3>1
  <2> QED
    BY <2>7, <2>8
<1> HIDE DEF soFar
<1>6. ASSUME Returned("or"), ~IsTrue(ret), Top.i < Last, CallArg(Top.i + 1, soFar)
      PROVE  GetInv'
  <2>1. PICK i \in 1 .. Last : i = Top.i + 1 /\ i - 1 = Top.i
    BY <1>2, <1>6
  <2> QED
    BY <1>1, <1>5, <1>6, <2>1, GetCall
<1>7. ASSUME Returned("or"), ~IsTrue(ret), Top.i = Last, Return(soFar)
      PROVE  GetInv'
  <2>1. CASE soFar.null
    <3>1. Owed = SqlNull
      BY <1>1, <1>2, <1>5, <1>7, <2>1, OwesOr
    <3> QED
      BY <1>1, <1>5, <1>7, <2>1, <3>1, NormIs, GetReturn
  <2>2. CASE ~soFar.null
    <3>1. Owed = Value(0)
      BY <1>1, <1>2, <1>5, <1>7, <2>2, OwesOr
    <3> QED
      BY <1>1, <1>5, <1>7, <2>2, <3>1, NormIs, GetReturn
  <2> QED
    BY <2>1, <2>2
<1> QED
  BY <1>3, <1>4, <1>6, <1>7 DEF GetOr, soFar

LEMMA GetIsnullStep == GetInv /\ GetIsnull => GetInv'
<1> SUFFICES ASSUME GetInv, GetIsnull PROVE GetInv'
  OBVIOUS
<1>1. stack # <<>> /\ Callee.kind = "isnull"
  BY DEF GetIsnull, Begin, After, Returned
<1>2. MachineInv /\ 1 \in 1 .. Last /\ Top.n \in DOMAIN items /\ TreeInv
  BY <1>1, AtWork DEF GetInv
<1>3. Owed = Value(BoolValue(ArgSem(Top, 1).null))
  BY <1>1, <1>2, Owes
<1>4. CASE Begin("isnull") /\ Callee.cmp = MYSQL_TYPE_NULL /\ Return(Value(One))
  <2>1. ArgSem(Top, 1).null
    BY <1>1, <1>2, <1>4, NullArgument
  <2>2. Owed = Value(One)
    BY <1>3, <2>1 DEF BoolValue
  <2> QED
    BY <1>1, <1>4, <2>2, ResultTypes, NormIs, GetReturn
<1>5. CASE Begin("isnull") /\ CallArg(1, SqlNull)
  BY <1>1, <1>2, <1>5, ResultTypes, GetCall
<1>6. CASE After("isnull", 1) /\ Return(Value(BoolValue(ret.null)))
  <2>1. ret \in Results /\ (ret.null <=> ArgSem(Top, 1).null)
    BY <1>1, <1>6, GetHanded DEF After, Returned
  <2>2. BoolValue(ret.null) = BoolValue(ArgSem(Top, 1).null)
    BY <2>1 DEF BoolValue
  <2>3. Value(BoolValue(ret.null)) \in Results
    BY <2>1, ResultTypes, NormIs
  <2> QED
    BY <1>1, <1>3, <1>6, <2>2, <2>3, NormIs, GetReturn
<1> QED
  BY <1>4, <1>5, <1>6 DEF GetIsnull

LEMMA GetCoalesceStep == GetInv /\ GetCoalesce => GetInv'
<1> SUFFICES ASSUME GetInv, GetCoalesce PROVE GetInv'
  OBVIOUS
<1>1. stack # <<>> /\ Callee.kind = "coalesce"
  BY DEF GetCoalesce, Begin, Returned
<1>2. MachineInv /\ 1 \in 1 .. Last /\ Last \in Nat /\ Top.i \in Nat
  BY <1>1, AtWork DEF GetInv
<1>3. CASE Begin("coalesce") /\ CallArg(1, SqlNull)
  <2>1. 1 .. 1 - 1 = {}
    OBVIOUS
  <2> QED
    BY <1>1, <1>2, <1>3, <2>1, ResultTypes, GetCall
<1>4. ASSUME Returned("coalesce")
      PROVE  /\ Top.i \in 1 .. Last
             /\ ret \in Results
             /\ ret.null <=> ArgSem(Top, Top.i).null
             /\ ~ret.null => ArgSem(Top, Top.i) = ret
             /\ \A j \in 1 .. Top.i - 1 : ArgSem(Top, j).null
             /\ \A j \in 1 .. Top.i : j = Top.i \/ j \in 1 .. Top.i - 1
  BY <1>1, <1>2, <1>4, GetHanded, GetKnows DEF Returned
<1>5. CASE Returned("coalesce") /\ ret.null /\ Top.i < Last /\ CallArg(Top.i + 1, SqlNull)
  <2>1. PICK i \in 1 .. Last : i = Top.i + 1 /\ i - 1 = Top.i
    BY <1>2, <1>5
  <2>2. \A m \in 1 .. i - 1 : ArgSem(Top, m).null
    BY <1>4, <1>5, <2>1
  <2> QED
    BY <1>1, <1>5, <2>1, <2>2, ResultTypes, GetCall
<1>6. CASE Returned("coalesce") /\ ~ret.null /\ Return(ret)
  <2>1. Owed = ret
    BY <1>1, <1>2, <1>4, <1>6, OwesCoalesce
  <2> QED
    BY <1>1, <1>4, <1>6, <2>1, NormIs, GetReturn
<1>7. CASE Returned("coalesce") /\ ret.null /\ Top.i = Last /\ Return(ret)
  <2>1. Owed = SqlNull
    BY <1>1, <1>2, <1>4, <1>7, OwesCoalesce
  <2> QED
    BY <1>1, <1>4, <1>7, <2>1, NormIs, GetReturn
<1> QED
  BY <1>3, <1>5, <1>6, <1>7 DEF GetCoalesce

LEMMA GetLastValueStep == GetInv /\ GetLastValue => GetInv'
<1> SUFFICES ASSUME GetInv, GetLastValue PROVE GetInv'
  OBVIOUS
<1>1. stack # <<>> /\ Callee.kind = "last_value"
  BY DEF GetLastValue, Begin, Returned
<1>2. MachineInv /\ 1 \in 1 .. Last /\ Last \in Nat /\ Top.i \in Nat
  BY <1>1, AtWork DEF GetInv
<1>3. CASE Begin("last_value") /\ CallArg(1, SqlNull)
  BY <1>1, <1>2, <1>3, ResultTypes, GetCall
<1>4. CASE Returned("last_value") /\ Top.i < Last /\ CallArg(Top.i + 1, SqlNull)
  <2>1. PICK i \in 1 .. Last : i = Top.i + 1
    BY <1>2, <1>4
  <2> QED
    BY <1>1, <1>4, <2>1, ResultTypes, GetCall
<1>5. CASE Returned("last_value") /\ Top.i = Last /\ Return(ret)
  <2>1. ret \in Results /\ Norm(ret) = ArgSem(Top, Last)
    BY <1>1, <1>5, GetHanded, NormIs DEF Returned
  <2>2. Owed = ArgSem(Top, Last)
    BY <1>1, <1>2, Owes
  <2> QED
    BY <1>1, <1>5, <2>1, <2>2, GetReturn
<1> QED
  BY <1>3, <1>4, <1>5 DEF GetLastValue

LEMMA GetEqStep == GetInv /\ GetEq => GetInv'
<1> SUFFICES ASSUME GetInv, GetEq PROVE GetInv'
  OBVIOUS
<1>1. stack # <<>> /\ Callee.kind = "eq"
  BY DEF GetEq, Begin, After, Returned
<1>2. MachineInv /\ 1 \in 1 .. Last /\ 2 \in 1 .. Last /\ Top.acc \in Results
  BY <1>1, AtWork DEF GetInv
<1>3. CASE Begin("eq") /\ CallArg(1, SqlNull)
  BY <1>1, <1>2, <1>3, ResultTypes, GetCall
<1>4. CASE (After("eq", 1) \/ After("eq", 2)) /\ ret.null /\ Return(NullAnswer)
  <2>1. Owed = SqlNull
    BY <1>1, <1>2, <1>4, GetHanded, OwesNumber DEF After, Returned
  <2>2. NullAnswer \in Results /\ Norm(NullAnswer) = SqlNull
    BY ResultTypes DEF NullAnswer, Norm
  <2> QED
    BY <1>1, <1>4, <2>1, <2>2, GetReturn
<1>5. CASE After("eq", 1) /\ ~ret.null /\ CallArg(2, ret)
  <2>1. ret \in Results /\ ~ArgSem(Top, 1).null /\ ArgSem(Top, 1) = ret
    BY <1>1, <1>5, GetHanded DEF After, Returned
  <2> QED
    BY <1>1, <1>2, <1>5, <2>1, GetCall
<1>6. CASE /\ After("eq", 2)
           /\ ~ret.null
           /\ Return(Value(BoolValue(Top.acc.v = ret.v)))
  <2>1. /\ ~ArgSem(Top, 1).null /\ ArgSem(Top, 1) = Top.acc
        /\ ~ArgSem(Top, 2).null /\ ArgSem(Top, 2) = ret
    BY <1>1, <1>6, GetHanded, GetKnows DEF After, Returned
  <2>2. Owed = Value(BoolValue(Top.acc.v = ret.v))
    BY <1>1, <1>2, <2>1, OwesNumber
  <2>3. Value(BoolValue(Top.acc.v = ret.v)) \in Results
    BY ResultTypes
  <2> QED
    BY <1>1, <1>6, <2>2, <2>3, NormIs, GetReturn
<1> QED
  BY <1>3, <1>4, <1>5, <1>6 DEF GetEq

(* The driver, and the step that changes nothing. *)
LEMMA GetDriver ==
    ASSUME GetInv, Build \/ Invoke \/ Leave \/ UNCHANGED getVars
    PROVE  GetInv'
<1>1. MachineInv
  BY DEF GetInv
<1>2. ASSUME (stack = <<>>)' PROVE OrCalls'
  <2>1. DOMAIN stack' = {}
    BY <1>2, EmptySeq
  <2> QED
    BY <2>1 DEF OrCalls
<1>3. CASE Build
  <2>1. MachineInv' /\ Quiet' /\ mode' = "idle"
    BY <1>1, <1>3, BuildMove DEF machineVars
  <2> QED
    BY <1>2, <2>1 DEF GetInv, Quiet
<1>4. CASE Invoke
  <2>1. PICK n \in DOMAIN items, T \in ValueTypes : Enter(n, T)
    BY <1>4 DEF Invoke
  <2>2. Ask(n, T) /\ (T = "decimal" => items[n].type \in DecimalTypes)
    BY <1>1, <2>1, EnterSafe DEF Enter, MachineInv, TypeInv
  <2>3. /\ MachineInv' /\ mode' = "call" /\ Linked' /\ SafeCalls' /\ FirstCalls'
        /\ CoalesceCalls' /\ DOMAIN stack' = 1 .. 1 /\ stack'[1].i = 0
    BY <1>1, <2>2, AskMove
  <2>4. \A k \in DOMAIN stack' : stack'[k].i = 0
    BY <2>3
  <2>5. OrCalls'
    BY <2>4 DEF OrCalls, KnowsOr
  <2> QED
    BY <2>3, <2>5 DEF GetInv
<1>5. CASE Leave
  <2>1. MachineInv' /\ Quiet' /\ mode' = "idle"
    BY <1>1, <1>5, LeaveMove
  <2> QED
    BY <1>2, <2>1 DEF GetInv, Quiet
<1>6. CASE UNCHANGED getVars
  <2>1. UNCHANGED treeVars /\ UNCHANGED machineVars
    BY <1>6 DEF getVars, treeVars, machineVars
  <2>2. /\ MachineInv' /\ Linked' /\ SafeCalls' /\ FirstCalls' /\ CoalesceCalls'
        /\ UNCHANGED <<items, sem, stack, mode, ret, req>>
        /\ Wanted' = Wanted
    BY <1>1, <2>1, StutterMove DEF GetInv
  <2>3. OrCalls'
    BY <2>2, Zenon DEF GetInv, OrCalls, KnowsOr, ArgSem
  <2>4. Norm(ret)' = Norm(ret)
    BY <2>2 DEF Norm, SqlNull
  <2> QED
    BY <2>2, <2>3, <2>4 DEF GetInv
<1> QED
  BY <1>3, <1>4, <1>5, <1>6

LEMMA GetStart == GetInit => GetInv
<1> SUFFICES ASSUME GetInit PROVE GetInv
  OBVIOUS
<1>1. MachineInv /\ Quiet /\ mode = "idle"
  BY InitMove DEF GetInit
<1>2. DOMAIN stack = {}
  BY <1>1, EmptySeq DEF Quiet
<1> QED
  BY <1>1, <1>2 DEF GetInv, Quiet, OrCalls

LEMMA GetSteps == GetInv /\ GetStep => GetInv'
BY GetLeafStep, GetAddStep, GetUminusStep, GetOrStep, GetIsnullStep,
   GetCoalesceStep, GetLastValueStep, GetEqStep DEF GetStep

LEMMA GetKept == GetInv /\ [GetNext]_getVars => GetInv'
BY GetSteps, GetDriver DEF GetNext

(* Every reachable state satisfies GetInv. *)
THEOREM GetInvariance == GetSpec => []GetInv
BY GetStart, GetKept, PTL DEF GetSpec

(* Type correctness: every item is well formed, every frame is a call of a *)
(* value method, every answer a flag and a number.                         *)
THEOREM TypeCorrect == GetSpec => []TypeOK
<1>1. GetInv => TypeOK
  BY DEF GetInv, MachineInv, TypeInv, TreeInv, TypeOK
<1> QED
  BY <1>1, GetInvariance, PTL

(* An item of static type NULL is NULL in every context, so that           *)
(* Item_func_isnull may answer for it without evaluating it.               *)
THEOREM NullTypes == GetSpec => []NullTypeIsNull
<1>1. GetInv => NullTypeIsNull
  BY DEF GetInv, MachineInv, TypeInv, TreeInv
<1> QED
  BY <1>1, GetInvariance, PTL

(* Every call in progress, at any depth of any expression, remembers what  *)
(* it needs and is handed the answer it asked for.                         *)
THEOREM CallsAreCorrect == GetSpec => []CallsCorrect
<1>1. GetInv => CallsCorrect
  <2> SUFFICES ASSUME GetInv PROVE CallsCorrect
    OBVIOUS
  <2>1. TypeInv /\ InOrder
    BY DEF GetInv, MachineInv
  <2>2. ASSUME NEW k \in DOMAIN stack PROVE FrameOK(stack[k])
    <3>1. stack # <<>>
      BY <2>2, EmptySeq
    <3>2. /\ Len(stack) \in Nat /\ DOMAIN stack = 1 .. Len(stack)
          /\ stack[Len(stack)] = Top /\ Last \in Nat /\ Last = Len(items[Top.n].args)
          /\ mode = "ret" => Top.i \in 1 .. Last
      BY <3>1, AtWork DEF GetInv
    <3>3. stack[k].i \in 0 .. Len(items[stack[k].n].args)
      <4>1. CASE k < Len(stack)
        <5>1. stack[k].i \in 1 .. Len(items[stack[k].n].args)
          BY <2>1, <4>1 DEF TypeInv, Waits
        <5> QED
          BY <5>1
      <4>2. CASE k = Len(stack)
        <5>1. mode \in {"call", "ret"}
          BY <2>1, <3>1 DEF InOrder, CallsMatchMode, TypeInv, MachineTypeOK, Modes
        <5>2. mode = "call" => Top.i = 0
          BY <2>1 DEF InOrder, CallsMatchMode
        <5> QED
          BY <3>2, <4>2, <5>1, <5>2
      <4> QED
        BY <3>2, <4>1, <4>2
    <3> QED
      BY <3>3, Zenon DEF FrameOK, GetInv, SafeCalls, FirstCalls, CoalesceCalls, OrCalls
  <2>3. Awaited
    <3>1. CASE stack = <<>>
      BY <3>1 DEF Awaited, GetInv, Wanted
    <3>2. CASE stack # <<>>
      <4>1. mode = "ret" => Top.i \in 1 .. Last /\ Last \in Nat
        BY <3>2, AtWork DEF GetInv
      <4> QED
        BY <3>2, <4>1 DEF Awaited, GetInv, Wanted
    <3> QED
      BY <3>1, <3>2
  <2> QED
    BY <2>1, <2>2, <2>3 DEF CallsCorrect, GetInv, InOrder, CallsMatchMode
<1> QED
  BY <1>1, GetInvariance, PTL

LEMMA GetRight == GetInv => GetAnswerCorrect
BY DEF GetInv, Wanted, GetAnswerCorrect

(* get_xxx() answers what SQL says of any expression over any literals. *)
THEOREM AnswersAreCorrect == GetSpec => []GetAnswerCorrect
BY GetRight, GetInvariance, PTL

(* No item is asked for a decimal it has no exact one of. *)
THEOREM DecimalsAreSafe == GetSpec => []DecimalSafe
<1>1. GetInv => DecimalSafe
  BY DEF GetInv, SafeCalls, Safe, DecimalSafe, DecimalTypes
<1> QED
  BY <1>1, GetInvariance, PTL

-----------------------------------------------------------------------------
(* ItemGet implements ItemSpec. *)

(* The constructors of ItemSpec make the items of ItemGet ... *)
LEMMA SameItems ==
    /\ \A l : Abstract!Leaf(l) = Leaf(l)
    /\ \A k, as : Abstract!FuncItem(k, as) = FuncItem(k, as)
<1> USE DEF MYSQL_TYPE_NULL, MYSQL_TYPE_BOOL, MYSQL_TYPE_LONGLONG, MYSQL_TYPE_DOUBLE,
            MYSQL_TYPE_NEWDECIMAL, Abstract!MYSQL_TYPE_NULL, Abstract!MYSQL_TYPE_BOOL,
            Abstract!MYSQL_TYPE_LONGLONG, Abstract!MYSQL_TYPE_DOUBLE,
            Abstract!MYSQL_TYPE_NEWDECIMAL
<1>1. \A l : Abstract!Leaf(l) = Leaf(l)
  BY DEF Leaf, Abstract!Leaf, LeafType, Abstract!LeafType
<1>2. \A ta, tb : Abstract!Hybrid2(ta, tb) = Hybrid2(ta, tb)
  BY DEF Hybrid2, Abstract!Hybrid2
<1>3. \A ts : Abstract!Hybrid_field_type(ts) = Hybrid_field_type(ts)
  BY <1>2 DEF Hybrid_field_type, Abstract!Hybrid_field_type
<1>4. \A k, as : Abstract!FuncItem(k, as) = FuncItem(k, as)
  BY <1>3 DEF FuncItem, Abstract!FuncItem, FuncType, Abstract!FuncType
<1> QED
  BY <1>1, <1>4

(* ... and give them the same values. *)
LEMMA SameValues == \A it, sm : Abstract!ItemSem(it, sm) = ItemSem(it, sm)
<1>1. \A v : /\ Abstract!ToBool(v) = ToBool(v)
             /\ Abstract!Trunc(v) = Trunc(v)
             /\ Abstract!ToInt32(v) = ToInt32(v)
             /\ Abstract!Value(v) = Value(v)
             /\ Abstract!BoolValue(v) = BoolValue(v)
  BY DEF ToBool, Abstract!ToBool, Trunc, Abstract!Trunc, ToInt32, Abstract!ToInt32,
         Value, Abstract!Value, BoolValue, Abstract!BoolValue
<1>2. Abstract!SqlNull = SqlNull
  BY DEF SqlNull, Abstract!SqlNull
<1>3. \A it, T : Abstract!LeafSem(it, T) = LeafSem(it, T)
  BY <1>1, <1>2 DEF LeafSem, Abstract!LeafSem
<1>4. \A a, T : /\ Abstract!ArithType(T) = ArithType(T)
                /\ Abstract!FromArith(a, T) = FromArith(a, T)
                /\ Abstract!Fit(a, T) = Fit(a, T)
                /\ Abstract!Num(a) = Num(a)
  BY <1>1 DEF ArithType, Abstract!ArithType, FromArith, Abstract!FromArith, Fit,
              Abstract!Fit, Num, Abstract!Num
<1>5. \A a, b, T : Abstract!AddSem(a, b, T) = AddSem(a, b, T)
  BY <1>1, <1>2, <1>4 DEF AddSem, Abstract!AddSem, Plus, Abstract!Plus
<1>6. \A a, T : Abstract!UminusSem(a, T) = UminusSem(a, T)
  BY <1>1, <1>2, <1>4 DEF UminusSem, Abstract!UminusSem, Neg, Abstract!Neg
<1>7. \A rs : Abstract!OrSem(rs) = OrSem(rs)
  BY <1>1, <1>2 DEF OrSem, Abstract!OrSem, IsTrue, Abstract!IsTrue
<1>8. \A rs : Abstract!CoalesceSem(rs) = CoalesceSem(rs)
  BY <1>2 DEF CoalesceSem, Abstract!CoalesceSem
<1>9. \A a, b : Abstract!EqSem(a, b) = EqSem(a, b)
  BY <1>1, <1>2 DEF EqSem, Abstract!EqSem
<1>10. \A it, T, i : Abstract!ArgType(it, T, i) = ArgType(it, T, i)
  BY <1>4 DEF ArgType, Abstract!ArgType, NativeType, Abstract!NativeType,
              MYSQL_TYPE_NULL, MYSQL_TYPE_BOOL, MYSQL_TYPE_LONGLONG, MYSQL_TYPE_DOUBLE,
              Abstract!MYSQL_TYPE_NULL, Abstract!MYSQL_TYPE_BOOL,
              Abstract!MYSQL_TYPE_LONGLONG, Abstract!MYSQL_TYPE_DOUBLE
<1>11. \A it, T, sm : Abstract!SemOf(it, T, sm) = SemOf(it, T, sm)
  <2> SUFFICES ASSUME NEW it, NEW T, NEW sm
               PROVE  Abstract!SemOf(it, T, sm) = SemOf(it, T, sm)
    OBVIOUS
  <2> DEFINE rs == [i \in DOMAIN it.args |-> sm[it.args[i]][ArgType(it, T, i)]]
  <2>1. [i \in DOMAIN it.args |-> sm[it.args[i]][Abstract!ArgType(it, T, i)]] = rs
    BY <1>10
  <2>2. Abstract!LeafKinds = LeafKinds
    BY DEF LeafKinds, Abstract!LeafKinds
  <2> HIDE DEF rs
  <2>3. Abstract!SemOf(it, T, sm) =
            CASE it.kind \in LeafKinds   -> LeafSem(it, T)
              [] it.kind = "add"         -> AddSem(rs[1], rs[2], T)
              [] it.kind = "uminus"      -> UminusSem(rs[1], T)
              [] it.kind = "or"          -> OrSem(rs)
              [] it.kind = "isnull"      -> Value(BoolValue(rs[1].null))
              [] it.kind = "coalesce"    -> CoalesceSem(rs)
              [] it.kind = "last_value"  -> rs[Len(rs)]
              [] it.kind = "eq"          -> EqSem(rs[1], rs[2])
    BY <1>1, <1>3, <1>5, <1>6, <1>7, <1>8, <1>9, <2>1, <2>2, Zenon DEF Abstract!SemOf
  <2> QED
    BY <2>3, Zenon DEF SemOf, rs
<1> QED
  BY <1>11 DEF ItemSem, Abstract!ItemSem, ValueTypes, Abstract!ValueTypes

(* So a constructor of ItemGet is one of ItemSpec. *)
LEMMA SameTree ==
    /\ TreeInit => Abstract!TreeInit
    /\ Construct => Abstract!Construct
<1>1. TreeInit => Abstract!TreeInit
  BY SameItems, SameValues DEF TreeInit, Abstract!TreeInit
<1>2. ASSUME NEW k, NEW as, NewItem(k, as)
      PROVE  Abstract!NewItem(k, as)
  BY <1>2, SameItems, SameValues DEF NewItem, Abstract!NewItem, Arities, Abstract!Arities
<1>3. Abstract!ArgLists = ArgLists
  BY DEF ArgLists, Abstract!ArgLists
<1> QED
  BY <1>1, <1>2, <1>3 DEF Construct, Abstract!Construct

(* The driver waits for an answer exactly while a call is in progress. *)
RequestInv == mode = "idle" <=> req = NoReq

(* A step of a method begins in a call, and leaves the driver waiting. *)
LEMMA StepShape ==
    ASSUME GetInv, GetStep
    PROVE  /\ mode \in {"call", "ret"}
           /\ stack # <<>>
           /\ mode' = "ret" \/ (mode' = "call" /\ stack' # <<>>)
           /\ UNCHANGED <<items, sem, req>>
<1>1. mode \in {"call", "ret"} /\ stack # <<>>
  BY DEF GetStep, GetLeaf, GetAdd, GetUminus, GetOr, GetIsnull, GetCoalesce,
         GetLastValue, GetEq, Begin, After, Returned
<1>2. \/ \E i, a : CallArg(i, a)
      \/ \E r : Return(r)
  BY Zenon DEF GetStep, GetLeaf, GetAdd, GetUminus, GetOr, GetIsnull, GetCoalesce,
               GetLastValue, GetEq
<1>3. ASSUME NEW i, NEW a, CallArg(i, a)
      PROVE  mode' = "call" /\ stack' # <<>> /\ UNCHANGED <<items, sem, req>>
  <2> DEFINE s == [stack EXCEPT ![Len(stack)] = [Top EXCEPT !.i = i, !.acc = a]]
             g == Frame(Arg(i), ArgType(Callee, Top.t, i))
  <2>1. stack' = Append(s, g) /\ mode' = "call" /\ UNCHANGED <<items, sem, req>>
    BY <1>3 DEF CallArg, CallAgain
  <2> HIDE DEF s, g
  <2>2. Append(s, g) # <<>>
    OBVIOUS
  <2> QED
    BY <2>1, <2>2
<1>4. ASSUME NEW r, Return(r)
      PROVE  mode' = "ret" /\ UNCHANGED <<items, sem, req>>
  BY <1>4 DEF Return
<1>5. (mode' = "ret" \/ (mode' = "call" /\ stack' # <<>>)) /\ UNCHANGED <<items, sem, req>>
  <2>1. CASE \E i, a : CallArg(i, a)
    BY <1>3, <2>1
  <2>2. CASE \E r : Return(r)
    BY <1>4, <2>2
  <2> QED
    BY <1>2, <2>1, <2>2
<1> QED
  BY <1>1, <1>5

(* RequestInv is preserved. *)
LEMMA RequestStep ==
    ASSUME GetInv, RequestInv, [GetNext]_getVars
    PROVE  RequestInv'
<1>1. CASE GetStep
  BY <1>1, StepShape DEF RequestInv, NoReq
<1>2. CASE Build
  BY <1>2 DEF Build, machineVars, RequestInv, NoReq
<1>3. ASSUME NEW n \in DOMAIN items, NEW T \in ValueTypes, Ask(n, T)
      PROVE  RequestInv'
  <2>1. n # 0
    BY DEF GetInv, MachineInv, TypeInv, TreeInv, TreeTypeOK
  <2>2. mode' = "call" /\ req' = [n |-> n, t |-> T]
    BY <1>3 DEF Ask
  <2> QED
    BY <2>1, <2>2 DEF RequestInv, NoReq
<1>4. CASE Leave
  BY <1>4 DEF Leave, RequestInv, NoReq
<1>5. CASE UNCHANGED getVars
  BY <1>5 DEF getVars, RequestInv, NoReq
<1> QED
  BY <1>1, <1>2, <1>3, <1>4, <1>5 DEF GetNext, Invoke, Enter

(* The answer of ItemSpec. *)
Given == IF mode = "ret" /\ stack = <<>> THEN <<Norm(ret)>> ELSE <<>>

(* A step of a method is the answer of ItemSpec if it is the last one, and *)
(* nothing to it otherwise.                                                *)
LEMMA StepImplements ==
    ASSUME GetInv, RequestInv, GetStep, GetInv'
    PROVE  Abstract!Answer \/ UNCHANGED Abstract!specVars
<1>1. /\ mode \in {"call", "ret"}
      /\ stack # <<>>
      /\ mode' = "ret" \/ (mode' = "call" /\ stack' # <<>>)
      /\ items' = items /\ sem' = sem /\ req' = req
  BY StepShape
<1>2. Given = <<>>
  BY <1>1 DEF Given
<1>3. CASE stack' = <<>>
  <2>1. Norm(ret)' = Wanted' /\ mode' = "ret"
    BY <1>1, <1>3 DEF GetInv
  <2>2. Wanted' = sem[req.n][req.t]
    BY <1>1, <1>3 DEF Wanted
  <2>3. Given' = <<sem[req.n][req.t]>>
    BY <1>3, <2>1, <2>2 DEF Given
  <2>4. req # Abstract!NoAsk
    BY <1>1 DEF RequestInv, NoReq, Abstract!NoAsk
  <2> QED
    BY <1>1, <1>2, <2>3, <2>4 DEF Abstract!Answer, Given
<1>4. CASE stack' # <<>>
  <2>1. Given' = <<>>
    BY <1>4 DEF Given
  <2> QED
    BY <1>1, <1>2, <2>1 DEF Abstract!specVars, Given
<1> QED
  BY <1>3, <1>4

(* Every step of ItemGet is one of ItemSpec, or none. *)
LEMMA NextImplements ==
    ASSUME GetInv, RequestInv, [GetNext]_getVars, GetInv'
    PROVE  [Abstract!Next]_(Abstract!specVars)
<1>1. CASE GetStep
  BY <1>1, StepImplements DEF Abstract!Next
<1>2. CASE Build
  <2>1. req = Abstract!NoAsk /\ Abstract!Construct
    BY <1>2, SameTree DEF Build, RequestInv, NoReq, Abstract!NoAsk
  <2>2. UNCHANGED <<stack, mode, ret, req>>
    BY <1>2 DEF Build, machineVars
  <2>3. Given' = Given
    BY <2>2 DEF Given, Norm, SqlNull
  <2> QED
    BY <2>1, <2>2, <2>3 DEF Abstract!Next, Abstract!Build, Given
<1>3. ASSUME NEW n \in DOMAIN items, NEW T \in ValueTypes, Enter(n, T)
      PROVE  Abstract!Next
  <2>1. req = Abstract!NoAsk /\ mode = "idle" /\ T \in EntryTypes(items[n])
    BY <1>3 DEF Enter, Ask, RequestInv, NoReq, Abstract!NoAsk
  <2>2. /\ mode' = "call"
        /\ req' = [n |-> n, t |-> T]
        /\ items' = items /\ sem' = sem
    BY <1>3 DEF Enter, Ask
  <2>3. Given = <<>> /\ Given' = <<>>
    BY <2>1, <2>2 DEF Given
  <2>4. Abstract!Ask(n, T)
    BY <2>1, <2>2, <2>3 DEF Abstract!Ask, Given
  <2>5. T \in Abstract!ValueTypes
    BY DEF ValueTypes, Abstract!ValueTypes
  <2> QED
    BY <2>4, <2>5 DEF Abstract!Next
<1>4. CASE Leave
  <2>1. /\ mode = "ret" /\ stack = <<>>
        /\ mode' = "idle" /\ req' = Abstract!NoAsk
        /\ items' = items /\ sem' = sem
    BY <1>4 DEF Leave, NoReq, Abstract!NoAsk
  <2>2. Given # <<>> /\ Given' = <<>>
    BY <2>1 DEF Given
  <2> QED
    BY <2>1, <2>2 DEF Abstract!Next, Abstract!Take, Given
<1>5. CASE UNCHANGED getVars
  <2>1. Given' = Given
    BY <1>5 DEF Given, getVars, Norm, SqlNull
  <2> QED
    BY <1>5, <2>1 DEF Abstract!specVars, getVars, Given
<1> QED
  BY <1>1, <1>2, <1>3, <1>4, <1>5 DEF GetNext, Invoke

(* The get_xxx() methods implement ItemSpec, whatever is built and asked:  *)
(* the recursion of one call is one atomic answer, to the call that was    *)
(* made.                                                                   *)
THEOREM GetImplements == GetSpec => RefinesItemSpec
<1>1. GetInit => Abstract!Init
  <2> SUFFICES ASSUME GetInit PROVE Abstract!Init
    OBVIOUS
  <2>1. Abstract!TreeInit
    BY SameTree DEF GetInit
  <2> QED
    BY <2>1 DEF GetInit, MachineInit, Abstract!Init, NoReq, Abstract!NoAsk
<1>2. GetInit => RequestInv
  BY DEF GetInit, MachineInit, RequestInv, NoReq
<1>3. GetInv /\ RequestInv /\ [GetNext]_getVars => RequestInv'
  BY RequestStep
<1>4. GetInv /\ RequestInv /\ [GetNext]_getVars /\ GetInv' =>
          [Abstract!Next]_(Abstract!specVars)
  BY NextImplements
<1>5. GetSpec => []GetInv
  BY GetInvariance
<1> QED
  BY <1>1, <1>2, <1>3, <1>4, <1>5, PTL DEF GetSpec, RefinesItemSpec, Abstract!Spec

-----------------------------------------------------------------------------
(* val_xxx() *)

(* The number of a NULL answer is a value, and so is a literal's. *)
LEMMA NumberTypes ==
    /\ \A T : NullNumber(T) \in Values
    /\ \A it \in ItemRecord, T \in ValueTypes :
         it.kind \in LeafKinds => OldLeafNumber(it, T) \in Values
<1>1. \A T : NullNumber(T) \in Values
  BY DEF NullNumber, Values
<1>2. ASSUME NEW it \in ItemRecord, NEW T \in ValueTypes, it.kind \in LeafKinds
      PROVE  OldLeafNumber(it, T) \in Int
  <2>1. it.val \in Int
    BY DEF ItemRecord
  <2>2. /\ Trunc(it.val) \in Int
        /\ ToInt32(it.val) \in Int
        /\ ToInt32(Trunc(it.val)) \in Int
        /\ UlonglongToDecimal(it.val) \in Int
        /\ Double2decimal(it.val) \in Int
    BY <2>1, ConversionTypes, WidthAssumption DEF UlonglongToDecimal
  <2>3. ToBool(it.val) \in Int /\ ToBool(Trunc(it.val)) \in Int
    BY <2>1, <2>2, ConversionTypes, WidthAssumption
  <2>4. /\ OldLeafInt(it.val, T) \in Int
        /\ OldLeafReal(it.val, T) \in Int
        /\ OldLeafDecimal(it.val, T) \in Int
    BY <2>1, <2>2, <2>3 DEF OldLeafInt, OldLeafReal, OldLeafDecimal
  <2> QED
    BY <1>2, <2>1, <2>4 DEF OldLeafNumber, LeafKinds
<1> QED
  BY <1>1, <1>2 DEF Values

(* A literal's number and its flag are its value, unless it is asked for a *)
(* decimal it has no exact one of.                                         *)
LEMMA OldLeafExact ==
    ASSUME NEW i \in DOMAIN LeafPool, NEW T \in ValueTypes,
           T = "decimal" => Leaf(LeafPool[i]).type \in DecimalTypes
    PROVE  LET it == Leaf(LeafPool[i])
           IN  Norm([null |-> it.kind = "null", v |-> OldLeafNumber(it, T)]) = LeafSem(it, T)
<1> DEFINE l  == LeafPool[i]
           it == Leaf(l)
<1>1. l \in [kind : LeafKinds, val : Int]
  <2>1. LeafPool \in Seq([kind : LeafKinds, val : Int])
    BY TreeAssumption
  <2> QED
    BY <2>1, LenProperties
<1>2. it.kind = l.kind /\ it.val = l.val /\ it.type = LeafType(l.kind)
  BY DEF Leaf
<1>3. l.kind = "bool" => l.val \in {0, One}
  BY TreeAssumption
<1>4. l.kind = "int" => l.val % One = 0
  BY TreeAssumption
<1>5. T \in {"bool", "int32", "longlong", "double", "decimal"}
  BY DEF ValueTypes
<1>6. T = "decimal" => l.kind \notin {"int", "real"}
  BY <1>2 DEF LeafType, DecimalTypes, MYSQL_TYPE_NULL, MYSQL_TYPE_BOOL,
              MYSQL_TYPE_LONGLONG, MYSQL_TYPE_DOUBLE, MYSQL_TYPE_NEWDECIMAL
<1> HIDE DEF l, it
<1>7. l.kind # "null" => LeafSem(it, T) = Value(OldLeafNumber(it, T))
  <2>1. CASE l.kind = "bool"
    <3>1. LeafSem(it, T) = Value(l.val)
      BY <1>2, <1>3, <2>1, BoolExact DEF LeafSem
    <3> QED
      BY <1>2, <2>1, <3>1 DEF OldLeafNumber
  <2>2. CASE l.kind = "int"
    <3>1. Trunc(l.val) = l.val
      BY <1>1, <1>4, <2>2, TruncWhole
    <3> QED
      BY <1>2, <1>5, <1>6, <2>2, <3>1 DEF OldLeafNumber, OldLeafInt, LeafSem
  <2>3. CASE l.kind = "real"
    BY <1>2, <1>5, <1>6, <2>3 DEF OldLeafNumber, OldLeafReal, LeafSem
  <2>4. CASE l.kind = "decimal"
    BY <1>2, <1>5, <2>4 DEF OldLeafNumber, OldLeafDecimal, LeafSem
  <2> QED
    BY <1>1, <2>1, <2>2, <2>3, <2>4 DEF LeafKinds
<1>8. l.kind = "null" => LeafSem(it, T) = SqlNull
  BY <1>2 DEF LeafSem
<1>9. Norm([null |-> it.kind = "null", v |-> OldLeafNumber(it, T)]) = LeafSem(it, T)
  BY <1>2, <1>7, <1>8 DEF Norm, Value
<1> QED
  BY <1>9 DEF it, l

-----------------------------------------------------------------------------
(* The invariant. *)

OldScope == Free(DecimalComparisons)

(* IS NULL and COALESCE clear their flag before they call anybody. *)
Cleared(f) ==
    items[f.n].kind \in {"isnull", "coalesce"} /\ f.i # 0 => ~null_value[f.n]

(* OR has seen no true argument, and its flag says whether it has seen a   *)
(* NULL.                                                                   *)
FlagSaysNull(f) ==
    items[f.n].kind = "or" /\ f.i # 0 =>
      /\ \A j \in 1 .. f.i - 1 : ~IsTrue(ArgSem(f, j))
      /\ null_value[f.n] <=> \E j \in 1 .. f.i - 1 : ArgSem(f, j).null

(* Every item has a flag, a literal its own for ever. *)
FlagsInv ==
    /\ null_value \in Seq(BOOLEAN)
    /\ Len(null_value) = Len(items)
    /\ \A n \in DOMAIN items :
         items[n].kind \in LeafKinds => null_value[n] = (items[n].kind = "null")

OldInv ==
    /\ MachineInv
    /\ SafeCalls
    /\ FlagsInv
    /\ \A k \in DOMAIN stack : Cleared(stack[k])
    /\ mode = "ret" => ~ret.null
    /\ mode = "ret" /\ AnswerType = "bool" /\ null_value[Answering] => ret.v = 0
    /\ req.n \in OldScope =>
         /\ Linked /\ FirstCalls /\ CoalesceCalls
         /\ mode = "ret" => Flagged(null_value[Answering], ret.v) = Wanted
         /\ \A k \in DOMAIN stack : FlagSaysNull(stack[k])

(* The flags are those of the items. *)
LEMMA FlagTypes ==
    ASSUME OldInv
    PROVE  /\ DOMAIN null_value = DOMAIN items
           /\ \A n \in DOMAIN items : null_value[n] \in BOOLEAN
           /\ \A n \in DOMAIN items, b \in BOOLEAN :
                LET fs == [null_value EXCEPT ![n] = b]
                IN  /\ fs \in Seq(BOOLEAN)
                    /\ Len(fs) = Len(items)
                    /\ fs[n] = b
                    /\ \A m \in DOMAIN items : m # n => fs[m] = null_value[m]
           /\ \A n \in DOMAIN items :
                null_value = [null_value EXCEPT ![n] = null_value[n]]
<1>1. null_value \in Seq(BOOLEAN) /\ Len(null_value) = Len(items)
  BY DEF OldInv, FlagsInv
<1>2. DOMAIN null_value = DOMAIN items
  BY <1>1, LenProperties DEF OldInv, MachineInv, TypeInv, TreeInv, TreeTypeOK
<1>3. \A n \in DOMAIN items : null_value[n] \in BOOLEAN
  BY <1>1, <1>2, LenProperties
<1>4. \A n \in DOMAIN items, b \in BOOLEAN :
        /\ [null_value EXCEPT ![n] = b] \in Seq(BOOLEAN)
        /\ Len([null_value EXCEPT ![n] = b]) = Len(items)
  BY <1>1, <1>2, LenProperties, ExceptSeq
<1>5. \A n \in DOMAIN items, b \in BOOLEAN :
        /\ [null_value EXCEPT ![n] = b][n] = b
        /\ \A m \in DOMAIN items : m # n => [null_value EXCEPT ![n] = b][m] = null_value[m]
  BY <1>2
<1>6. null_value = [m \in DOMAIN null_value |-> null_value[m]]
  BY <1>1
<1>7. \A n \in DOMAIN items : null_value = [null_value EXCEPT ![n] = null_value[n]]
  BY <1>6
<1> QED
  BY <1>2, <1>3, <1>4, <1>5, <1>7

(* What the frame at work has been handed. *)
LEMMA OldHanded ==
    ASSUME OldInv, stack # <<>>
    PROVE  /\ null_value[Top.n] \in BOOLEAN
           /\ null_value = [null_value EXCEPT ![Top.n] = null_value[Top.n]]
           /\ Callee.kind \in {"isnull", "coalesce"} /\ Top.i # 0 => ~null_value[Top.n]
           /\ mode = "ret" =>
                /\ ArgNull \in BOOLEAN
                /\ ret = Value(ret.v) /\ ret.v \in Values
                /\ AnswerType = "bool" /\ ArgNull => ret.v = 0
           /\ req.n \in OldScope =>
                /\ ~ComparesDecimals(Callee)
                /\ mode = "ret" =>
                     /\ ArgNull <=> ArgSem(Top, Top.i).null
                     /\ ArgNull => ArgSem(Top, Top.i) = SqlNull
                     /\ ~ArgNull => ArgSem(Top, Top.i) = ret
                     /\ Flagged(ArgNull, ret.v) = ArgSem(Top, Top.i)
<1>1. /\ Top = stack[Len(stack)] /\ Len(stack) \in DOMAIN stack
      /\ Top.n \in DOMAIN items /\ ret \in Results
      /\ mode = "ret" => Arg(Top.i) \in DOMAIN items
      /\ Callee = items[Top.n]
  BY AtWork DEF OldInv, Callee
<1>2. null_value[Top.n] \in BOOLEAN
      /\ null_value = [null_value EXCEPT ![Top.n] = null_value[Top.n]]
  BY <1>1, FlagTypes
<1>3. Callee.kind \in {"isnull", "coalesce"} /\ Top.i # 0 => ~null_value[Top.n]
  BY <1>1 DEF OldInv, Cleared
<1>4. mode = "ret" =>
        /\ ArgNull \in BOOLEAN
        /\ ret = Value(ret.v) /\ ret.v \in Values
        /\ AnswerType = "bool" /\ ArgNull => ret.v = 0
  <2>1. mode = "ret" => ArgNull \in BOOLEAN /\ Answering = Arg(Top.i)
    BY <1>1, FlagTypes DEF ArgNull, Answering
  <2>2. mode = "ret" => ret = Value(ret.v) /\ ret.v \in Values
    BY <1>1, NormIs DEF OldInv
  <2> QED
    BY <2>1, <2>2 DEF OldInv, ArgNull
<1>5. ASSUME req.n \in OldScope PROVE ~ComparesDecimals(Callee)
  <2>1. DecimalComparisons \in SUBSET DOMAIN items
    BY DEF DecimalComparisons, OfKind
  <2>2. Top.n \in Free(DecimalComparisons)
    BY <1>1, <1>5, <2>1 DEF OldInv, MachineInv, InOrder, OldScope
  <2> QED
    BY <1>1, <2>2, FreeParts DEF DecimalComparisons, OfKind, ComparesDecimals
<1>6. ASSUME req.n \in OldScope, mode = "ret"
      PROVE  /\ ArgNull <=> ArgSem(Top, Top.i).null
             /\ ArgNull => ArgSem(Top, Top.i) = SqlNull
             /\ ~ArgNull => ArgSem(Top, Top.i) = ret
             /\ Flagged(ArgNull, ret.v) = ArgSem(Top, Top.i)
  <2>1. Flagged(ArgNull, ret.v) = ArgSem(Top, Top.i)
    BY <1>6 DEF OldInv, Wanted, Answering, ArgNull
  <2>2. ret = Value(ret.v) /\ ArgNull \in BOOLEAN
    BY <1>4, <1>6
  <2>3. CASE ArgNull
    BY <2>1, <2>3, NormIs DEF Flagged, Norm
  <2>4. CASE ~ArgNull
    <3>1. Flagged(ArgNull, ret.v) = ret
      BY <2>2, <2>4 DEF Flagged, Norm, Value
    <3>2. ~ret.null
      BY <2>2, NormIs
    <3> QED
      BY <2>1, <2>4, <3>1, <3>2
  <2> QED
    BY <2>1, <2>3, <2>4, Zenon
<1> QED
  BY <1>2, <1>3, <1>4, <1>5, <1>6

(* What it knows of the arguments before. *)
LEMMA OldKnows ==
    ASSUME OldInv, stack # <<>>, req.n \in OldScope
    PROVE  /\ Callee.kind \in {"add", "eq"} /\ Top.i = 2 =>
                ~ArgSem(Top, 1).null /\ Top.acc = ArgSem(Top, 1)
           /\ Callee.kind = "coalesce" =>
                \A j \in 1 .. Top.i - 1 : ArgSem(Top, j).null
           /\ FlagSaysNull(Top)
<1>1. Top = stack[Len(stack)] /\ Len(stack) \in DOMAIN stack
  BY AtWork DEF OldInv
<1>2. KnowsFirst(Top) /\ KnowsCoalesce(Top) /\ FlagSaysNull(Top)
  BY <1>1, Zenon DEF OldInv, FirstCalls, CoalesceCalls
<1> QED
  BY <1>2 DEF KnowsFirst, KnowsCoalesce, Callee

LEMMA OldScopeKept == ASSUME items' = items PROVE OldScope' = OldScope
BY DEF OldScope, DecimalComparisons, Free, Closed, OfKind

(* Writing the flag of the top frame's item leaves those of the frames     *)
(* below, which are calls of other items, and the literals' flags.         *)
LEMMA FlagWritten ==
    ASSUME OldInv, stack # <<>>, UNCHANGED items, NEW b \in BOOLEAN,
           null_value' = [null_value EXCEPT ![Top.n] = b],
           Callee.kind \in LeafKinds => b = (Callee.kind = "null")
    PROVE  /\ FlagsInv'
           /\ null_value'[Top.n] = b
           /\ \A k \in 1 .. Len(stack) - 1 : null_value'[stack[k].n] = null_value[stack[k].n]
<1>1. Top.n \in DOMAIN items /\ stack[Len(stack)] = Top /\ DOMAIN stack = 1 .. Len(stack)
      /\ Len(stack) \in Nat \ {0} /\ Callee = items[Top.n]
      /\ \A k \in DOMAIN stack : stack[k].n \in DOMAIN items
  BY AtWork DEF OldInv, Callee, MachineInv, TypeInv
<1>2. DOMAIN items \subseteq Nat
  BY LenProperties DEF OldInv, MachineInv, TypeInv, TreeInv, TreeTypeOK
<1>3. /\ null_value' \in Seq(BOOLEAN)
      /\ Len(null_value') = Len(items)
      /\ null_value'[Top.n] = b
      /\ \A m \in DOMAIN items : m # Top.n => null_value'[m] = null_value[m]
  BY <1>1, FlagTypes
<1>4. \A k \in 1 .. Len(stack) - 1 : stack[k].n \in DOMAIN items /\ stack[k].n # Top.n
  <2> SUFFICES ASSUME NEW k \in 1 .. Len(stack) - 1
               PROVE  stack[k].n \in DOMAIN items /\ stack[k].n # Top.n
    OBVIOUS
  <2>1. k \in DOMAIN stack /\ Len(stack) \in DOMAIN stack /\ k < Len(stack)
    BY <1>1
  <2>2. Top.n < stack[k].n
    BY <1>1, <2>1 DEF OldInv, MachineInv, InOrder
  <2> QED
    BY <1>1, <1>2, <2>1, <2>2
<1>5. FlagsInv'
  BY <1>1, <1>3 DEF OldInv, FlagsInv
<1> QED
  BY <1>3, <1>4, <1>5
(* An answer that is owed. *)
LEMMA OldReturn ==
    ASSUME OldInv, stack # <<>>, NEW v \in Values, NEW b \in BOOLEAN,
           Return(Value(v)), null_value' = [null_value EXCEPT ![Top.n] = b],
           Callee.kind \in LeafKinds => b = (Callee.kind = "null"),
           Top.t = "bool" /\ b => v = 0,
           req.n \in OldScope => Flagged(b, v) = Owed
    PROVE  OldInv'
<1>1. Value(v) \in Results
  BY AnswerTypes
<1>2. /\ MachineInv'
      /\ mode' = "ret" /\ ret' = Value(v) /\ UNCHANGED <<items, sem, req>>
      /\ DOMAIN stack' = 1 .. Len(stack) - 1
      /\ \A k \in 1 .. Len(stack) - 1 : stack'[k] = stack[k]
      /\ AnswerType' = Top.t
      /\ Linked \/ stack' = <<>> \/ ~ComparesDecimals(Callee') =>
           Answering' = Top.n /\ Wanted' = Owed
      /\ Linked => Linked'
      /\ SafeCalls'
      /\ FirstCalls => FirstCalls'
      /\ CoalesceCalls => CoalesceCalls'
  BY <1>1, ReturnMove DEF OldInv
<1>3. /\ FlagsInv'
      /\ null_value'[Top.n] = b
      /\ \A k \in 1 .. Len(stack) - 1 : null_value'[stack[k].n] = null_value[stack[k].n]
  BY <1>2, FlagWritten
<1>4. \A k \in DOMAIN stack' :
        k \in DOMAIN stack /\ stack'[k] = stack[k]
          /\ null_value'[stack[k].n] = null_value[stack[k].n]
  BY <1>2, <1>3, AtWork DEF OldInv
<1>5. OldScope' = OldScope
  BY <1>2, OldScopeKept
<1>6. ASSUME NEW k \in DOMAIN stack' PROVE Cleared(stack[k])'
  <2>1. Cleared(stack[k])
    BY <1>4, <1>6 DEF OldInv
  <2> QED
    BY <1>2, <1>4, <1>6, <2>1, Zenon DEF Cleared
<1>7. ~ret'.null /\ ret'.v = v
  BY <1>2, NormIs
<1>8. ASSUME AnswerType' = "bool", null_value'[Answering'] PROVE ret'.v = 0
  <2>1. stack' = <<>> \/ ~ComparesDecimals(Callee')
    <3>1. AnswerType' = IF stack' = <<>> THEN req'.t
                        ELSE ArgType(Callee', Top'.t, Top'.i)
      BY DEF AnswerType
    <3>2. ComparesDecimals(Callee') => ArgType(Callee', Top'.t, Top'.i) = "decimal"
      BY DEF ComparesDecimals, ArgType, NativeType, MYSQL_TYPE_NULL,
             MYSQL_TYPE_BOOL, MYSQL_TYPE_LONGLONG, MYSQL_TYPE_DOUBLE,
             MYSQL_TYPE_NEWDECIMAL
    <3> QED
      BY <1>8, <3>1, <3>2
  <2>2. Answering' = Top.n
    BY <1>2, <2>1
  <2> QED
    BY <1>2, <1>3, <1>7, <1>8, <2>2
<1>9. ASSUME (req.n \in OldScope)'
      PROVE  /\ Linked' /\ FirstCalls' /\ CoalesceCalls'
             /\ Flagged(null_value'[Answering'], ret'.v) = Wanted'
             /\ \A k \in DOMAIN stack' : FlagSaysNull(stack[k])'
  <2>1. req.n \in OldScope
    BY <1>2, <1>5, <1>9
  <2>2. Linked /\ FirstCalls /\ CoalesceCalls
        /\ \A k \in DOMAIN stack : FlagSaysNull(stack[k])
    BY <2>1 DEF OldInv
  <2>3. Linked' /\ FirstCalls' /\ CoalesceCalls' /\ Answering' = Top.n /\ Wanted' = Owed
    BY <1>2, <2>2
  <2>4. Flagged(null_value'[Answering'], ret'.v) = Wanted'
    BY <1>3, <1>7, <2>1, <2>3
  <2>5. ASSUME NEW k \in DOMAIN stack' PROVE FlagSaysNull(stack[k])'
    <3>1. FlagSaysNull(stack[k])
      BY <1>4, <2>2, <2>5
    <3> QED
      BY <1>2, <1>4, <2>5, <3>1, Zenon DEF FlagSaysNull, ArgSem, IsTrue
  <2> QED
    BY <2>3, <2>4, <2>5
<1>10. (Flagged(null_value[Answering], ret.v))' = Flagged(null_value'[Answering'], ret'.v)
  BY DEF Flagged, Norm, SqlNull
<1> QED
  BY <1>2, <1>3, <1>6, <1>7, <1>8, <1>9, <1>10 DEF OldInv

(* A call of an argument. *)
LEMMA OldCall ==
    ASSUME OldInv, stack # <<>>,
           NEW j \in 1 .. Last, NEW i \in 1 .. Last, NEW a \in Results,
           j = i \/ ComparesDecimals(Callee),
           CallAgain(j, i, a),
           NEW b \in BOOLEAN, null_value' = [null_value EXCEPT ![Top.n] = b],
           Callee.kind \in {"isnull", "coalesce"} => ~b,
           req.n \in OldScope /\ Callee.kind \in {"add", "eq"} /\ i = 2 =>
             ~ArgSem(Top, 1).null /\ a = ArgSem(Top, 1),
           req.n \in OldScope /\ Callee.kind = "coalesce" =>
             \A m \in 1 .. i - 1 : ArgSem(Top, m).null,
           req.n \in OldScope /\ Callee.kind = "or" =>
             /\ \A m \in 1 .. i - 1 : ~IsTrue(ArgSem(Top, m))
             /\ b <=> \E m \in 1 .. i - 1 : ArgSem(Top, m).null
    PROVE  OldInv'
<1> DEFINE L == Len(stack)
           f == Waiting(i, a)
           g == Begun(j)
<1>1. /\ MachineInv'
      /\ mode' = "call" /\ UNCHANGED <<items, sem, req>>
      /\ DOMAIN stack' = 1 .. L + 1
      /\ \A k \in 1 .. L - 1 : stack'[k] = stack[k]
      /\ stack'[L] = f
      /\ stack'[L + 1] = g
      /\ f.n = Top.n /\ f.t = Top.t /\ f.i = i /\ g.i = 0
      /\ Linked /\ j = i => Linked'
      /\ SafeCalls'
  BY CallMove DEF OldInv
<1>2. L \in Nat \ {0} /\ DOMAIN stack = 1 .. L /\ Last = Len(items[Top.n].args)
  BY AtWork DEF OldInv
<1>3. Callee.kind \notin LeafKinds
  BY NoLiteral DEF OldInv
<1>4. /\ FlagsInv'
      /\ null_value'[Top.n] = b
      /\ \A k \in 1 .. L - 1 : null_value'[stack[k].n] = null_value[stack[k].n]
  BY <1>1, <1>3, FlagWritten
<1>5. OldScope' = OldScope
  BY <1>1, OldScopeKept
<1>6. items[f.n] = Callee /\ \A m : ArgSem(f, m) = ArgSem(Top, m)
  BY <1>1 DEF ArgSem, Callee
<1>7. req.n \in OldScope => FirstCalls' /\ CoalesceCalls'
  BY CallKnows DEF OldInv
<1>8. req.n \in OldScope => Linked'
  <2> SUFFICES ASSUME req.n \in OldScope PROVE Linked'
    OBVIOUS
  <2>1. Linked /\ ~ComparesDecimals(Callee)
    BY OldHanded DEF OldInv
  <2> QED
    BY <1>1, <2>1
<1> HIDE DEF f, g, L
<1>9. \A k \in DOMAIN stack' :
        \/ /\ k \in DOMAIN stack /\ stack'[k] = stack[k]
           /\ null_value'[stack[k].n] = null_value[stack[k].n]
        \/ stack'[k] = f
        \/ stack'[k] = g
  BY <1>1, <1>2, <1>4
<1>10. ASSUME NEW k \in DOMAIN stack' PROVE Cleared(stack[k])'
  <2>1. CASE stack'[k] = f
    BY <1>1, <1>4, <1>6, <2>1 DEF Cleared
  <2>2. CASE stack'[k] = g
    BY <1>1, <2>2 DEF Cleared
  <2>3. CASE /\ k \in DOMAIN stack /\ stack'[k] = stack[k]
             /\ null_value'[stack[k].n] = null_value[stack[k].n]
    <3>1. Cleared(stack[k])
      BY <2>3 DEF OldInv
    <3> QED
      BY <1>1, <2>3, <3>1, Zenon DEF Cleared
  <2> QED
    BY <1>9, <1>10, <2>1, <2>2, <2>3
<1>11. ASSUME req.n \in OldScope, NEW k \in DOMAIN stack' PROVE FlagSaysNull(stack[k])'
  <2>1. CASE stack'[k] = f
    <3>1. items'[stack'[k].n] = Callee /\ stack'[k].i = i /\ null_value'[stack'[k].n] = b
      BY <1>1, <1>4, <1>6, <2>1
    <3>2. \A m : ArgSem(stack[k], m)' = ArgSem(Top, m)
      BY <1>1, <1>6, <2>1 DEF ArgSem
    <3> QED
      BY <1>11, <3>1, <3>2, Zenon DEF FlagSaysNull, IsTrue
  <2>2. CASE stack'[k] = g
    BY <1>1, <2>2 DEF FlagSaysNull
  <2>3. CASE /\ k \in DOMAIN stack /\ stack'[k] = stack[k]
             /\ null_value'[stack[k].n] = null_value[stack[k].n]
    <3>1. FlagSaysNull(stack[k])
      BY <1>11, <2>3 DEF OldInv
    <3> QED
      BY <1>1, <2>3, <3>1, Zenon DEF FlagSaysNull, ArgSem, IsTrue
  <2> QED
    BY <1>9, <1>11, <2>1, <2>2, <2>3
<1> QED
  BY <1>1, <1>4, <1>5, <1>7, <1>8, <1>10, <1>11 DEF OldInv
-----------------------------------------------------------------------------
(* The steps of val_xxx(). *)

(* The numbers that are answered. *)
LEMMA OldNumbers ==
    ASSUME MachineInv, stack # <<>>
    PROVE  /\ FromArith(Plus(Top.acc.v, ret.v, ArithType(Top.t)), Top.t) \in Values
           /\ FromArith(Neg(ret.v, ArithType(Top.t)), Top.t) \in Values
           /\ NullNumber(Top.t) \in Values
           /\ Top.t = "bool" => NullNumber(Top.t) = 0
           /\ \A b : BoolValue(b) \in Values
           /\ 0 \in Values /\ One \in Values /\ SqlNull \in Results
<1>1. Top.t = "bool" => NullNumber(Top.t) = 0
  BY DEF NullNumber
<1> QED
  BY <1>1, Numbers, NumberTypes

LEMMA OldLeafStep == OldInv /\ OldLeaf => OldInv'
<1> SUFFICES ASSUME OldInv, OldLeaf PROVE OldInv'
  OBVIOUS
<1> DEFINE v == OldLeafNumber(Callee, Top.t)
           b == null_value[Top.n]
<1>1. stack # <<>> /\ Callee.kind \in LeafKinds /\ Return(Value(v)) /\ null_value' = null_value
  BY DEF OldLeaf, Begin, KeepNull
<1>2. /\ MachineInv /\ Callee \in ItemRecord /\ Top.t \in ValueTypes
      /\ Callee = items[Top.n] /\ Top.n \in DOMAIN items
  BY <1>1, AtWork DEF OldInv, Callee
<1>3. b = (Callee.kind = "null") /\ b \in BOOLEAN
  BY <1>1, <1>2 DEF OldInv, FlagsInv
<1>4. null_value' = [null_value EXCEPT ![Top.n] = b]
  BY <1>1, OldHanded
<1>5. v \in Values
  BY <1>1, <1>2, NumberTypes
<1>6. b => v = 0
  BY <1>3 DEF OldLeafNumber
<1>7. Flagged(b, v) = Owed
  <2>1. PICK l \in DOMAIN LeafPool : Callee = Leaf(LeafPool[l])
    BY <1>1, <1>2, Owes
  <2>2. Safe(Top)
    BY <1>1, AtWork DEF OldInv, SafeCalls
  <2>3. Norm([null |-> Callee.kind = "null", v |-> v]) = LeafSem(Callee, Top.t)
    BY <1>2, <2>1, <2>2, OldLeafExact DEF Safe
  <2>4. Owed = LeafSem(Callee, Top.t)
    BY <1>1, <1>2, Owes
  <2> HIDE DEF v, b
  <2> QED
    BY <1>3, <2>3, <2>4 DEF Flagged
<1> HIDE DEF v, b
<1> QED
  BY <1>1, <1>3, <1>4, <1>5, <1>6, <1>7, OldReturn

(* Calling an argument, or returning, without a word to the flag. *)
LEMMA OldKeeps ==
    ASSUME OldInv, stack # <<>>, KeepNull
    PROVE  /\ null_value[Top.n] \in BOOLEAN
           /\ null_value' = [null_value EXCEPT ![Top.n] = null_value[Top.n]]
           /\ Callee.kind \in {"isnull", "coalesce"} /\ Top.i # 0 => ~null_value[Top.n]
BY OldHanded DEF KeepNull

LEMMA OldAddStep == OldInv /\ OldAdd => OldInv'
<1> SUFFICES ASSUME OldInv, OldAdd PROVE OldInv'
  OBVIOUS
<1>1. stack # <<>> /\ Callee.kind = "add"
  BY DEF OldAdd, Begin, After, Returned
<1>2. /\ MachineInv /\ 1 \in 1 .. Last /\ 2 \in 1 .. Last
      /\ Top.acc \in Results /\ ret \in Results /\ Callee.kind \notin LeafKinds
  BY <1>1, AtWork, NoLiteral DEF OldInv
<1>3. CASE Begin("add") /\ CallArg(1, SqlNull) /\ KeepNull
  BY <1>1, <1>2, <1>3, OldKeeps, OldNumbers, OldCall DEF CallArg
<1>4. CASE After("add", 1) /\ ~ArgNull /\ CallArg(2, ret) /\ KeepNull
  <2>1. req.n \in OldScope => ~ArgSem(Top, 1).null /\ ret = ArgSem(Top, 1)
    BY <1>1, <1>4, OldHanded DEF After, Returned
  <2> QED
    BY <1>1, <1>2, <1>4, <2>1, OldKeeps, OldCall DEF CallArg
<1>5. ASSUME After("add", 1) \/ After("add", 2), ArgNull,
             ReturnFlag(NullNumber(Top.t), TRUE)
      PROVE  OldInv'
  <2>1. req.n \in OldScope => Owed = SqlNull
    BY <1>1, <1>2, <1>5, OldHanded, OwesNumber DEF After, Returned
  <2> QED
    BY <1>1, <1>2, <1>5, <2>1, FlaggedIs, OldNumbers, OldReturn DEF ReturnFlag
<1>6. CASE /\ After("add", 2)
           /\ ~ArgNull
           /\ ReturnFlag(FromArith(Plus(Top.acc.v, ret.v, ArithType(Top.t)), Top.t), FALSE)
  <2> DEFINE v == FromArith(Plus(Top.acc.v, ret.v, ArithType(Top.t)), Top.t)
  <2>1. v \in Values
    BY <1>1, <1>2, OldNumbers
  <2>2. ASSUME req.n \in OldScope PROVE Owed = Value(v)
    <3>1. /\ ~ArgSem(Top, 1).null /\ Top.acc = ArgSem(Top, 1)
          /\ ~ArgSem(Top, 2).null /\ ret = ArgSem(Top, 2)
      BY <1>1, <1>6, <2>2, OldHanded, OldKnows DEF After, Returned
    <3> QED
      BY <1>1, <1>2, <3>1, OwesNumber
  <2>3. Return(Value(v)) /\ null_value' = [null_value EXCEPT ![Top.n] = FALSE]
    BY <1>6 DEF ReturnFlag
  <2> HIDE DEF v
  <2> QED
    BY <1>1, <1>2, <2>1, <2>2, <2>3, FlaggedIs, OldReturn
<1> QED
  BY <1>3, <1>4, <1>5, <1>6 DEF OldAdd

LEMMA OldUminusStep == OldInv /\ OldUminus => OldInv'
<1> SUFFICES ASSUME OldInv, OldUminus PROVE OldInv'
  OBVIOUS
<1>1. stack # <<>> /\ Callee.kind = "uminus"
  BY DEF OldUminus, Begin, After, Returned
<1>2. MachineInv /\ 1 \in 1 .. Last /\ ret \in Results /\ Callee.kind \notin LeafKinds
  BY <1>1, AtWork, NoLiteral DEF OldInv
<1>3. CASE Begin("uminus") /\ CallArg(1, SqlNull) /\ KeepNull
  BY <1>1, <1>2, <1>3, OldKeeps, OldNumbers, OldCall DEF CallArg
<1>4. CASE After("uminus", 1) /\ ArgNull /\ ReturnFlag(NullNumber(Top.t), TRUE)
  <2>1. req.n \in OldScope => Owed = SqlNull
    BY <1>1, <1>2, <1>4, OldHanded, OwesNumber DEF After, Returned
  <2> QED
    BY <1>1, <1>2, <1>4, <2>1, FlaggedIs, OldNumbers, OldReturn DEF ReturnFlag
<1>5. CASE /\ After("uminus", 1)
           /\ ~ArgNull
           /\ ReturnFlag(FromArith(Neg(ret.v, ArithType(Top.t)), Top.t), FALSE)
  <2> DEFINE v == FromArith(Neg(ret.v, ArithType(Top.t)), Top.t)
  <2>1. v \in Values
    BY <1>1, <1>2, OldNumbers
  <2>2. ASSUME req.n \in OldScope PROVE Owed = Value(v)
    <3>1. ~ArgSem(Top, 1).null /\ ret = ArgSem(Top, 1)
      BY <1>1, <1>5, <2>2, OldHanded DEF After, Returned
    <3> QED
      BY <1>1, <1>2, <3>1, OwesNumber
  <2>3. Return(Value(v)) /\ null_value' = [null_value EXCEPT ![Top.n] = FALSE]
    BY <1>5 DEF ReturnFlag
  <2> HIDE DEF v
  <2> QED
    BY <1>1, <1>2, <2>1, <2>2, <2>3, FlaggedIs, OldReturn
<1> QED
  BY <1>3, <1>4, <1>5 DEF OldUminus

(* OR looks at the number first: that of a NULL is 0, as every method of   *)
(* type bool sees to.                                                      *)
LEMMA OldOrStep == OldInv /\ OldOr => OldInv'
<1> SUFFICES ASSUME OldInv, OldOr PROVE OldInv'
  OBVIOUS
<1>1. stack # <<>> /\ Callee.kind = "or"
  BY DEF OldOr, Begin, Returned
<1>2. /\ MachineInv /\ 1 \in 1 .. Last /\ Last \in Nat /\ Top.i \in Nat
      /\ ret \in Results /\ Callee.kind \notin LeafKinds
  BY <1>1, AtWork, NoLiteral DEF OldInv
<1>3. CASE /\ Begin("or")
           /\ CallArg(1, SqlNull)
           /\ null_value' = [null_value EXCEPT ![Top.n] = FALSE]
  <2>1. 1 .. 1 - 1 = {}
    OBVIOUS
  <2> QED
    BY <1>1, <1>2, <1>3, <2>1, OldNumbers, OldCall DEF CallArg
<1>4. mode = "ret" => /\ Top.i \in 1 .. Last
                      /\ ArgNull \in BOOLEAN
                      /\ ArgNull => ret.v = 0
  <2>1. AnswerType = "bool"
    BY <1>1 DEF AnswerType, ArgType
  <2> QED
    BY <1>1, <1>2, <2>1, AtWork, OldHanded
<1>5. CASE Returned("or") /\ ret.v # 0 /\ ReturnFlag(One, FALSE)
  <2>1. ASSUME req.n \in OldScope PROVE Owed = Value(One)
    <3>1. ~ArgNull /\ Top.i \in 1 .. Last
      BY <1>4, <1>5 DEF Returned
    <3>2. ArgSem(Top, Top.i) = ret /\ ~ArgSem(Top, Top.i).null
      BY <1>1, <1>5, <2>1, <3>1, OldHanded DEF Returned
    <3> QED
      BY <1>1, <1>2, <1>5, <3>1, <3>2, OwesOr DEF IsTrue
  <2> QED
    BY <1>1, <1>2, <1>5, <2>1, FlaggedIs, OldNumbers, OldReturn DEF ReturnFlag
<1> DEFINE b == null_value[Top.n] \/ ArgNull
<1>6. ASSUME Returned("or"), ret.v = 0
      PROVE  /\ b \in BOOLEAN
             /\ req.n \in OldScope =>
                  /\ \A m \in 1 .. Top.i : ~IsTrue(ArgSem(Top, m))
                  /\ b <=> \E m \in 1 .. Top.i : ArgSem(Top, m).null
  <2>1. b \in BOOLEAN
    OBVIOUS
  <2>2. ASSUME req.n \in OldScope
        PROVE  /\ \A m \in 1 .. Top.i : ~IsTrue(ArgSem(Top, m))
               /\ b <=> \E m \in 1 .. Top.i : ArgSem(Top, m).null
    <3>1. Top.i \in 1 .. Last /\ Top.i # 0
      BY <1>4, <1>6 DEF Returned
    <3>2. /\ ArgNull <=> ArgSem(Top, Top.i).null
          /\ ~ArgNull => ArgSem(Top, Top.i) = ret
      BY <1>1, <1>6, <2>2, OldHanded DEF Returned
    <3>3. ~IsTrue(ArgSem(Top, Top.i))
      BY <1>6, <3>2 DEF IsTrue
    <3>4. /\ \A m \in 1 .. Top.i - 1 : ~IsTrue(ArgSem(Top, m))
          /\ null_value[Top.n] <=> \E m \in 1 .. Top.i - 1 : ArgSem(Top, m).null
      BY <1>1, <2>2, <3>1, OldKnows DEF FlagSaysNull, Callee
    <3>5. \A m \in 1 .. Top.i : m = Top.i \/ m \in 1 .. Top.i - 1
      BY <3>1
    <3>6. Top.i \in 1 .. Top.i /\ \A m \in 1 .. Top.i - 1 : m \in 1 .. Top.i
      BY <3>1
    <3> QED
      BY <3>2, <3>3, <3>4, <3>5, <3>6
  <2> QED
    BY <2>1, <2>2
<1>7. [null_value EXCEPT ![Top.n] = @ \/ ArgNull] = [null_value EXCEPT ![Top.n] = b]
  OBVIOUS
<1> HIDE DEF b
<1>8. ASSUME Returned("or"), ret.v = 0, Top.i < Last, CallArg(Top.i + 1, SqlNull),
             null_value' = [null_value EXCEPT ![Top.n] = b]
      PROVE  OldInv'
  <2>1. PICK i \in 1 .. Last : i = Top.i + 1 /\ i - 1 = Top.i
    BY <1>2, <1>8
  <2>2. CallAgain(i, i, SqlNull) /\ b \in BOOLEAN /\ SqlNull \in Results
    BY <1>1, <1>2, <1>6, <1>8, <2>1, OldNumbers DEF CallArg
  <2>3. req.n \in OldScope =>
          /\ \A m \in 1 .. i - 1 : ~IsTrue(ArgSem(Top, m))
          /\ b <=> \E m \in 1 .. i - 1 : ArgSem(Top, m).null
    BY <1>6, <1>8, <2>1
  <2> QED
    BY <1>1, <1>8, <2>1, <2>2, <2>3, OldCall
<1>9. ASSUME Returned("or"), ret.v = 0, Top.i = Last, Return(Value(0)),
             null_value' = [null_value EXCEPT ![Top.n] = b]
      PROVE  OldInv'
  <2>1. ASSUME req.n \in OldScope PROVE Flagged(b, 0) = Owed
    <3>1. /\ \A m \in 1 .. Last : ~IsTrue(ArgSem(Top, m))
          /\ b <=> \E m \in 1 .. Last : ArgSem(Top, m).null
          /\ b \in BOOLEAN
      BY <1>6, <1>9, <2>1
    <3>2. b => Owed = SqlNull
      BY <1>1, <1>2, <3>1, OwesOr
    <3>3. ~b => Owed = Value(0)
      BY <1>1, <1>2, <3>1, OwesOr
    <3> QED
      BY <3>1, <3>2, <3>3, FlaggedIs
  <2> QED
    BY <1>1, <1>2, <1>6, <1>9, <2>1, OldNumbers, OldReturn
<1> QED
  BY <1>3, <1>5, <1>7, <1>8, <1>9 DEF OldOr

LEMMA OldIsnullStep == OldInv /\ OldIsnull => OldInv'
<1> SUFFICES ASSUME OldInv, OldIsnull PROVE OldInv'
  OBVIOUS
<1>1. stack # <<>> /\ Callee.kind = "isnull"
  BY DEF OldIsnull, Begin, After, Returned
<1>2. MachineInv /\ 1 \in 1 .. Last /\ Callee.kind \notin LeafKinds
  BY <1>1, AtWork, NoLiteral DEF OldInv
<1>3. Owed = Value(BoolValue(ArgSem(Top, 1).null))
  BY <1>1, <1>2, Owes
<1>4. CASE Begin("isnull") /\ Callee.cmp = MYSQL_TYPE_NULL /\ ReturnFlag(One, FALSE)
  <2>1. ArgSem(Top, 1).null
    BY <1>1, <1>2, <1>4, NullArgument
  <2>2. Owed = Value(One)
    BY <1>3, <2>1 DEF BoolValue
  <2> QED
    BY <1>1, <1>2, <1>4, <2>2, FlaggedIs, OldNumbers, OldReturn DEF ReturnFlag
<1>5. CASE /\ Begin("isnull")
           /\ CallArg(1, SqlNull)
           /\ null_value' = [null_value EXCEPT ![Top.n] = FALSE]
  BY <1>1, <1>2, <1>5, OldNumbers, OldCall DEF CallArg
<1>6. CASE After("isnull", 1) /\ Return(Value(BoolValue(ArgNull))) /\ KeepNull
  <2> DEFINE b == null_value[Top.n]
             v == BoolValue(ArgNull)
  <2>1. b \in BOOLEAN /\ ~b /\ null_value' = [null_value EXCEPT ![Top.n] = b]
    BY <1>1, <1>6, OldKeeps DEF After
  <2>2. req.n \in OldScope => Owed = Value(v)
    <3>1. req.n \in OldScope => (ArgNull <=> ArgSem(Top, 1).null)
      BY <1>1, <1>6, OldHanded DEF After, Returned
    <3>2. req.n \in OldScope => BoolValue(ArgNull) = BoolValue(ArgSem(Top, 1).null)
      BY <3>1 DEF BoolValue
    <3> QED
      BY <1>3, <3>2
  <2>3. v \in Values /\ Return(Value(v))
    BY <1>1, <1>2, <1>6, OldNumbers
  <2> HIDE DEF b, v
  <2> QED
    BY <1>1, <1>2, <2>1, <2>2, <2>3, FlaggedIs, OldReturn
<1> QED
  BY <1>4, <1>5, <1>6 DEF OldIsnull

LEMMA OldCoalesceStep == OldInv /\ OldCoalesce => OldInv'
<1> SUFFICES ASSUME OldInv, OldCoalesce PROVE OldInv'
  OBVIOUS
<1>1. stack # <<>> /\ Callee.kind = "coalesce"
  BY DEF OldCoalesce, Begin, Returned
<1>2. /\ MachineInv /\ 1 \in 1 .. Last /\ Last \in Nat /\ Top.i \in Nat
      /\ ret \in Results /\ Callee.kind \notin LeafKinds
  BY <1>1, AtWork, NoLiteral DEF OldInv
<1>3. CASE /\ Begin("coalesce")
           /\ CallArg(1, SqlNull)
           /\ null_value' = [null_value EXCEPT ![Top.n] = FALSE]
  <2>1. 1 .. 1 - 1 = {}
    OBVIOUS
  <2> QED
    BY <1>1, <1>2, <1>3, <2>1, OldNumbers, OldCall DEF CallArg
<1>4. ASSUME Returned("coalesce"), req.n \in OldScope
      PROVE  /\ Top.i \in 1 .. Last
             /\ ArgNull <=> ArgSem(Top, Top.i).null
             /\ ~ArgNull => ArgSem(Top, Top.i) = ret
             /\ \A j \in 1 .. Top.i - 1 : ArgSem(Top, j).null
             /\ \A j \in 1 .. Top.i : j = Top.i \/ j \in 1 .. Top.i - 1
  <2>1. Top.i \in 1 .. Last
    BY <1>1, <1>2, <1>4, AtWork DEF Returned
  <2> QED
    BY <1>1, <1>2, <1>4, <2>1, OldHanded, OldKnows DEF Returned
<1>5. Returned("coalesce") => Top.i # 0
  BY <1>1, <1>2, AtWork DEF Returned
<1>6. CASE Returned("coalesce") /\ ~ArgNull /\ Return(ret) /\ KeepNull
  <2> DEFINE b == null_value[Top.n]
  <2>1. b \in BOOLEAN /\ ~b /\ null_value' = [null_value EXCEPT ![Top.n] = b]
    BY <1>1, <1>5, <1>6, OldKeeps
  <2>2. ret = Value(ret.v) /\ ret.v \in Values
    BY <1>1, <1>6, OldHanded DEF Returned
  <2>3. req.n \in OldScope => Owed = ret
    BY <1>1, <1>2, <1>4, <1>6, OwesCoalesce
  <2>4. Return(Value(ret.v))
    BY <1>6, <2>2
  <2> HIDE DEF b
  <2>5. Flagged(b, ret.v) = Value(ret.v)
    BY <2>1, FlaggedIs
  <2>6. req.n \in OldScope => Flagged(b, ret.v) = Owed
    BY <2>2, <2>3, <2>5
  <2> QED
    BY <1>1, <1>2, <2>1, <2>2, <2>4, <2>6, OldReturn
<1>7. CASE /\ Returned("coalesce") /\ ArgNull /\ Top.i < Last
           /\ CallArg(Top.i + 1, SqlNull) /\ KeepNull
  <2>1. PICK i \in 1 .. Last : i = Top.i + 1 /\ i - 1 = Top.i
    BY <1>2, <1>7
  <2>2. req.n \in OldScope => \A m \in 1 .. i - 1 : ArgSem(Top, m).null
    BY <1>4, <1>7, <2>1
  <2>3. CallAgain(i, i, SqlNull) /\ SqlNull \in Results
    BY <1>1, <1>2, <1>7, <2>1, OldNumbers DEF CallArg
  <2> DEFINE b == null_value[Top.n]
  <2>4. b \in BOOLEAN /\ ~b /\ null_value' = [null_value EXCEPT ![Top.n] = b]
    BY <1>1, <1>5, <1>7, OldKeeps
  <2> HIDE DEF b
  <2> QED
    BY <1>1, <2>1, <2>2, <2>3, <2>4, OldCall
<1>8. CASE /\ Returned("coalesce") /\ ArgNull /\ Top.i = Last
           /\ ReturnFlag(NullNumber(Top.t), TRUE)
  <2>1. ASSUME req.n \in OldScope PROVE Owed = SqlNull
    <3>1. \A i \in 1 .. Last : ArgSem(Top, i).null
      BY <1>4, <1>8, <2>1
    <3> QED
      BY <1>1, <1>2, <3>1, OwesCoalesce
  <2> QED
    BY <1>1, <1>2, <1>8, <2>1, FlaggedIs, OldNumbers, OldReturn DEF ReturnFlag
<1> QED
  BY <1>3, <1>6, <1>7, <1>8 DEF OldCoalesce

LEMMA OldLastValueStep == OldInv /\ OldLastValue => OldInv'
<1> SUFFICES ASSUME OldInv, OldLastValue PROVE OldInv'
  OBVIOUS
<1>1. stack # <<>> /\ Callee.kind = "last_value"
  BY DEF OldLastValue, Begin, Returned
<1>2. /\ MachineInv /\ 1 \in 1 .. Last /\ Last \in Nat /\ Top.i \in Nat
      /\ Callee.kind \notin LeafKinds /\ SqlNull \in Results
  BY <1>1, AtWork, NoLiteral, OldNumbers DEF OldInv
<1>3. CASE Begin("last_value") /\ CallArg(1, SqlNull) /\ KeepNull
  BY <1>1, <1>2, <1>3, OldKeeps, OldCall DEF CallArg
<1>4. CASE /\ Returned("last_value") /\ Top.i < Last
           /\ CallArg(Top.i + 1, SqlNull) /\ KeepNull
  <2>1. PICK i \in 1 .. Last : i = Top.i + 1
    BY <1>2, <1>4
  <2>2. CallAgain(i, i, SqlNull)
    BY <1>4, <2>1 DEF CallArg
  <2> QED
    BY <1>1, <1>2, <1>4, <2>1, <2>2, OldKeeps, OldCall
<1>5. CASE Returned("last_value") /\ Top.i = Last /\ ReturnFlag(ret.v, ArgNull)
  <2> DEFINE b == ArgNull
  <2>1. AnswerType = Top.t
    BY <1>1, <1>2, <1>5 DEF AnswerType, ArgType, Last
  <2>2. b \in BOOLEAN /\ ret.v \in Values /\ (Top.t = "bool" /\ b => ret.v = 0)
    BY <1>1, <1>5, <2>1, OldHanded DEF Returned
  <2>3. req.n \in OldScope => Flagged(b, ret.v) = Owed
    <3>1. req.n \in OldScope => Flagged(b, ret.v) = ArgSem(Top, Last)
      BY <1>1, <1>5, OldHanded DEF Returned
    <3> QED
      BY <1>1, <1>2, <3>1, Owes
  <2>4. Return(Value(ret.v)) /\ null_value' = [null_value EXCEPT ![Top.n] = b]
    BY <1>5 DEF ReturnFlag
  <2> HIDE DEF b
  <2> QED
    BY <1>1, <1>2, <2>2, <2>3, <2>4, OldReturn
<1> QED
  BY <1>3, <1>4, <1>5 DEF OldLastValue

LEMMA OldEqStep == OldInv /\ OldEq => OldInv'
<1> SUFFICES ASSUME OldInv, OldEq PROVE OldInv'
  OBVIOUS
<1>1. stack # <<>> /\ Callee.kind = "eq"
  BY DEF OldEq, Begin, After, Returned
<1>2. /\ MachineInv /\ 1 \in 1 .. Last /\ 2 \in 1 .. Last
      /\ Top.acc \in Results /\ ret \in Results /\ Callee.kind \notin LeafKinds
  BY <1>1, AtWork, NoLiteral DEF OldInv
<1>3. CASE Begin("eq") /\ CallArg(1, SqlNull) /\ KeepNull
  BY <1>1, <1>2, <1>3, OldKeeps, OldNumbers, OldCall DEF CallArg
<1>4. CASE After("eq", 1) /\ ~ArgNull /\ SecondOperand /\ KeepNull
  <2>1. req.n \in OldScope => ~ArgSem(Top, 1).null /\ ret = ArgSem(Top, 1)
    BY <1>1, <1>4, OldHanded DEF After, Returned
  <2>2. \E j \in 1 .. Last : (j = 2 \/ ComparesDecimals(Callee)) /\ CallAgain(j, 2, ret)
    BY <1>1, <1>2, <1>4 DEF SecondOperand, ComparesDecimals, CallArg
  <2> QED
    BY <1>1, <1>2, <1>4, <2>1, <2>2, OldKeeps, OldCall
<1>5. ASSUME After("eq", 1) \/ After("eq", 2), ArgNull, ReturnFlag(0, TRUE)
      PROVE  OldInv'
  <2>1. req.n \in OldScope => Owed = SqlNull
    BY <1>1, <1>2, <1>5, OldHanded, OwesNumber DEF After, Returned
  <2> QED
    BY <1>1, <1>2, <1>5, <2>1, FlaggedIs, OldNumbers, OldReturn DEF ReturnFlag
<1>6. CASE After("eq", 2) /\ ~ArgNull /\ ReturnFlag(BoolValue(Top.acc.v = ret.v), FALSE)
  <2> DEFINE v == BoolValue(Top.acc.v = ret.v)
  <2>1. v \in Values
    BY <1>1, <1>2, OldNumbers
  <2>2. ASSUME req.n \in OldScope PROVE Owed = Value(v)
    <3>1. /\ ~ArgSem(Top, 1).null /\ Top.acc = ArgSem(Top, 1)
          /\ ~ArgSem(Top, 2).null /\ ret = ArgSem(Top, 2)
      BY <1>1, <1>6, <2>2, OldHanded, OldKnows DEF After, Returned
    <3> QED
      BY <1>1, <1>2, <3>1, OwesNumber
  <2>3. Return(Value(v)) /\ null_value' = [null_value EXCEPT ![Top.n] = FALSE]
    BY <1>6 DEF ReturnFlag
  <2> HIDE DEF v
  <2> QED
    BY <1>1, <1>2, <2>1, <2>2, <2>3, FlaggedIs, OldReturn
<1> QED
  BY <1>3, <1>4, <1>5, <1>6 DEF OldEq
-----------------------------------------------------------------------------
(* The driver, and the step that changes nothing. *)

LEMMA OldStart == OldInit => OldInv
<1> SUFFICES ASSUME OldInit PROVE OldInv
  OBVIOUS
<1>1. MachineInv /\ Quiet /\ mode = "idle"
  BY InitMove DEF OldInit
<1>2. DOMAIN stack = {}
  BY <1>1, EmptySeq DEF Quiet
<1>3. Len(LeafPool) \in Nat /\ DOMAIN LeafPool = 1 .. Len(LeafPool)
  BY TreeAssumption, LenProperties
<1>4. null_value \in [1 .. Len(LeafPool) -> BOOLEAN]
  BY <1>3 DEF OldInit
<1>5. null_value \in Seq(BOOLEAN) /\ Len(null_value) = Len(LeafPool)
  BY <1>3, <1>4, FunctionIsSeq
<1>6. Len(items) = Len(LeafPool)
  BY <1>1, <1>3, LenProperties DEF OldInit, TreeInit, MachineInv, TypeInv, TreeInv, TreeTypeOK
<1>7. \A n \in DOMAIN items : null_value[n] = (items[n].kind = "null")
  BY <1>3 DEF OldInit, TreeInit, Leaf
<1> QED
  BY <1>1, <1>2, <1>5, <1>6, <1>7 DEF OldInv, FlagsInv, Quiet

LEMMA FunctionKinds == \A k \in FuncKinds : k \notin LeafKinds
BY DEF FuncKinds, LeafKinds

(* A new item is a function, and has a flag of its own. *)
LEMMA NewIsFunction ==
    ASSUME MachineInv, Build
    PROVE  items'[Len(items) + 1].kind \notin LeafKinds
<1>1. PICK k \in Kinds, as \in ArgLists : NewItem(k, as)
  BY DEF Build, Construct
<1>2. k \in FuncKinds
  BY TreeAssumption
<1>3. PICK it : it = FuncItem(k, as)
  OBVIOUS
<1>4. it.kind = k
  BY <1>3 DEF FuncItem
<1>5. items'[Len(items) + 1] = it
  <2>1. items' = Append(items, it)
    BY <1>1, <1>3 DEF NewItem
  <2>2. items \in Seq(ItemRecord)
    BY DEF MachineInv, TypeInv, TreeInv, TreeTypeOK
  <2> HIDE <1>1, <1>3
  <2> QED
    BY <2>1, <2>2
<1> QED
  BY <1>2, <1>4, <1>5, FunctionKinds

LEMMA OldBuildStep == OldInv /\ OldBuild => OldInv'
<1> SUFFICES ASSUME OldInv, OldBuild PROVE OldInv'
  OBVIOUS
<1>1. /\ MachineInv' /\ Quiet' /\ mode' = "idle"
      /\ Len(items) \in Nat
      /\ DOMAIN items' = 1 .. Len(items) + 1
      /\ \A n \in DOMAIN items : items'[n] = items[n]
  BY BuildMove DEF OldInv, OldBuild, machineVars
<1>2. DOMAIN stack' = {}
  BY <1>1, EmptySeq DEF Quiet
<1>3. PICK b \in BOOLEAN : null_value' = Append(null_value, b)
  BY DEF OldBuild
<1>4. null_value \in Seq(BOOLEAN) /\ Len(null_value) = Len(items)
      /\ \A n \in DOMAIN items :
           items[n].kind \in LeafKinds => null_value[n] = (items[n].kind = "null")
  BY DEF OldInv, FlagsInv
<1>5. Len(items') = Len(items) + 1
  <2>1. items' \in Seq(ItemRecord)
    BY <1>1 DEF MachineInv, TypeInv, TreeInv, TreeTypeOK
  <2> QED
    BY <1>1, <2>1, LenProperties
<1>6. null_value' \in Seq(BOOLEAN) /\ Len(null_value') = Len(items')
  BY <1>1, <1>3, <1>4, <1>5
<1>7. items'[Len(items) + 1].kind \notin LeafKinds
  BY NewIsFunction DEF OldInv, OldBuild
<1>8. \A n \in DOMAIN items' :
        items'[n].kind \in LeafKinds => null_value'[n] = (items'[n].kind = "null")
  <2> SUFFICES ASSUME NEW n \in DOMAIN items', items'[n].kind \in LeafKinds
               PROVE  null_value'[n] = (items'[n].kind = "null")
    OBVIOUS
  <2>1. n # Len(items) + 1
    BY <1>7
  <2>2. n \in 1 .. Len(items)
    BY <1>1, <2>1
  <2>3. n \in DOMAIN items /\ null_value'[n] = null_value[n]
    BY <1>3, <1>4, <2>2, LenProperties DEF OldInv, MachineInv, TypeInv, TreeInv, TreeTypeOK
  <2> QED
    BY <1>1, <1>4, <2>3
<1> QED
  BY <1>1, <1>2, <1>6, <1>8 DEF OldInv, FlagsInv, Quiet

LEMMA OldDriver ==
    ASSUME OldInv, ((Invoke \/ Leave) /\ KeepNull) \/ UNCHANGED oldVars
    PROVE  OldInv'
<1>1. MachineInv /\ FlagsInv
  BY DEF OldInv
<1>2. ASSUME (stack = <<>>)' PROVE DOMAIN stack' = {}
  BY <1>2, EmptySeq
<1>3. ASSUME UNCHANGED <<items, null_value>> PROVE FlagsInv'
  BY <1>1, <1>3 DEF FlagsInv
<1>4. CASE Invoke /\ KeepNull
  <2>1. PICK n \in DOMAIN items, T \in ValueTypes : Enter(n, T)
    BY <1>4 DEF Invoke
  <2>2. Ask(n, T) /\ (T = "decimal" => items[n].type \in DecimalTypes)
    BY <1>1, <2>1, EnterSafe DEF Enter, MachineInv, TypeInv
  <2>3. /\ MachineInv' /\ mode' = "call" /\ Linked' /\ SafeCalls' /\ FirstCalls'
        /\ CoalesceCalls' /\ DOMAIN stack' = 1 .. 1 /\ stack'[1].i = 0
        /\ UNCHANGED items
    BY <1>1, <2>2, AskMove
  <2>4. \A k \in DOMAIN stack' : stack'[k].i = 0
    BY <2>3
  <2>5. \A k \in DOMAIN stack' : Cleared(stack[k])' /\ FlagSaysNull(stack[k])'
    BY <2>4 DEF Cleared, FlagSaysNull
  <2>6. FlagsInv'
    BY <1>3, <1>4, <2>3 DEF KeepNull
  <2> QED
    BY <2>3, <2>5, <2>6 DEF OldInv
<1>5. CASE Leave /\ KeepNull
  <2>1. MachineInv' /\ Quiet' /\ mode' = "idle" /\ UNCHANGED items
    BY <1>1, <1>5, LeaveMove
  <2>2. FlagsInv'
    BY <1>3, <1>5, <2>1 DEF KeepNull
  <2> QED
    BY <1>2, <2>1, <2>2 DEF OldInv, Quiet
<1>6. CASE UNCHANGED oldVars
  <2>1. UNCHANGED treeVars /\ UNCHANGED machineVars /\ UNCHANGED null_value
    BY <1>6 DEF oldVars, treeVars, machineVars
  <2>2. /\ MachineInv' /\ (Linked => Linked') /\ (SafeCalls => SafeCalls')
        /\ (FirstCalls => FirstCalls') /\ (CoalesceCalls => CoalesceCalls')
        /\ UNCHANGED <<items, sem, stack, mode, ret, req>>
        /\ Wanted' = Wanted /\ Answering' = Answering
    BY <1>1, <2>1, StutterMove
  <2>3. OldScope' = OldScope
    BY <2>2, OldScopeKept
  <2>4. \A k \in DOMAIN stack : /\ Cleared(stack[k]) => Cleared(stack[k])'
                                /\ FlagSaysNull(stack[k]) => FlagSaysNull(stack[k])'
    BY <2>1, <2>2, Zenon DEF Cleared, FlagSaysNull, ArgSem, IsTrue
  <2>5. Flagged(null_value[Answering], ret.v)' = Flagged(null_value[Answering], ret.v)
    BY <2>1, <2>2 DEF Flagged, Norm, SqlNull
  <2>6. AnswerType' = AnswerType
    BY <2>2, Zenon DEF AnswerType, Callee, Top
  <2>7. FlagsInv'
    BY <1>3, <2>1, <2>2
  <2>8. mode' = "ret" => ~ret'.null
    BY <2>2 DEF OldInv
  <2>9. mode' = "ret" /\ AnswerType' = "bool" /\ null_value'[Answering'] => ret'.v = 0
    BY <2>1, <2>2, <2>6 DEF OldInv
  <2>10. \A k \in DOMAIN stack' : Cleared(stack[k])'
    BY <2>2, <2>4 DEF OldInv
  <2>11. (req.n \in OldScope)' =>
           /\ Linked' /\ FirstCalls' /\ CoalesceCalls'
           /\ mode' = "ret" => (Flagged(null_value[Answering], ret.v) = Wanted)'
           /\ \A k \in DOMAIN stack' : FlagSaysNull(stack[k])'
    BY <2>2, <2>3, <2>4, <2>5 DEF OldInv
  <2> QED
    BY <2>2, <2>7, <2>8, <2>9, <2>10, <2>11 DEF OldInv
<1> QED
  BY <1>4, <1>5, <1>6

(* A step of a method keeps the invariant, and so does every other. *)
LEMMA OldSteps == OldInv /\ OldStep => OldInv'
BY OldLeafStep, OldAddStep, OldUminusStep, OldOrStep, OldIsnullStep,
   OldCoalesceStep, OldLastValueStep, OldEqStep DEF OldStep

LEMMA OldKept == OldInv /\ [OldNext]_oldVars => OldInv'
BY OldSteps, OldBuildStep, OldDriver DEF OldNext

(* Every reachable state satisfies OldInv. *)
THEOREM OldInvariance == OldSpec => []OldInv
BY OldStart, OldKept, PTL DEF OldSpec

LEMMA OldRight == OldInv => OldAnswerCorrect
BY DEF OldInv, OldScope, Wanted, Answering, Flagged, OldAnswer, OldAnswerCorrect

(* val_xxx() answers what SQL says of any expression that compares no      *)
(* decimals: the flag the driver reads is the one that this call left, in  *)
(* any order of calls, whatever the new items' flags are built with.       *)
THEOREM OldIsCorrect == OldSpec => []OldAnswerCorrect
BY OldRight, OldInvariance, PTL

(* Whoever answers NULL to Item_cond_or answers FALSE. *)
THEOREM NullAnswersAreFalse == OldSpec => []NullIsFalse
<1>1. OldInv => NullIsFalse
  <2> SUFFICES ASSUME OldInv, mode = "ret", stack # <<>>, Callee.kind = "or", ArgNull
               PROVE  ret.v = 0
    BY DEF NullIsFalse
  <2>1. AnswerType = "bool"
    BY DEF AnswerType, ArgType
  <2>2. Answering = Arg(Top.i)
    BY DEF Answering
  <2> QED
    BY <2>1, <2>2 DEF OldInv, ArgNull
<1> QED
  BY <1>1, OldInvariance, PTL

(* Type correctness: every item has its flag, whatever it held at first,   *)
(* and every answer that travels between the methods is a number.          *)
THEOREM OldTypes == OldSpec => []OldTypeOK
<1>1. OldInv => OldTypeOK
  BY DEF OldInv, FlagsInv, MachineInv, TypeInv, TreeInv, TypeOK, OldTypeOK
<1> QED
  BY <1>1, OldInvariance, PTL

-----------------------------------------------------------------------------
(* val_xxx_null(), to_xxx_null() and namespace variant. *)
(* The frame f is a call that has handed its argument the pointer of a     *)
(* local flag.                                                             *)
Owner(f) ==
    /\ f.i > 0
    /\ \/ items[f.n].kind = "or"
       \/ items[f.n].kind = "last_value" /\ f.i < Len(items[f.n].args)

(* The place in `flags' of the flag that the k-th of the frames s writes.  *)
Before(s, k) == 1 + Cardinality({j \in 1 .. k - 1 : Owner(s[j])})
Place(k) == Before(stack, k)

LEMMA Places ==
    ASSUME NEW s, NEW k \in Nat \ {0}
    PROVE  /\ Before(s, k) \in Nat \ {0}
           /\ Before(s, 1) = 1
           /\ Owner(s[k]) => Before(s, k + 1) = Before(s, k) + 1
           /\ ~Owner(s[k]) => Before(s, k + 1) = Before(s, k)
           /\ \A m \in 1 .. k - 1 : Owner(s[m]) => Before(s, m) < Before(s, k)
<1> DEFINE O(m) == {j \in 1 .. m - 1 : Owner(s[j])}
<1>1. ASSUME NEW m \in Nat PROVE IsFiniteSet(O(m)) /\ Cardinality(O(m)) \in Nat
  <2>1. IsFiniteSet(1 .. m - 1)
    BY FS_Interval
  <2>2. O(m) \subseteq 1 .. m - 1
    OBVIOUS
  <2>3. IsFiniteSet(O(m))
    BY <2>1, <2>2, FS_Subset
  <2> QED
    BY <2>3, FS_CardinalityType
<1>2. \A m : Before(s, m) = 1 + Cardinality(O(m))
  BY DEF Before
<1>3. Before(s, 1) = 1
  <2>1. O(1) = {}
    OBVIOUS
  <2> QED
    BY <1>2, <2>1, FS_EmptySet
<1>4. k \notin O(k)
  OBVIOUS
<1>5. Owner(s[k]) => O(k + 1) = O(k) \cup {k}
  OBVIOUS
<1>6. ~Owner(s[k]) => O(k + 1) = O(k)
  OBVIOUS
<1>7. ASSUME NEW m \in 1 .. k - 1, Owner(s[m]) PROVE Cardinality(O(m)) < Cardinality(O(k))
  <2>1. m \in Nat /\ k \in Nat /\ m \notin O(m) /\ O(m) \cup {m} \subseteq O(k)
    BY <1>7
  <2>2. IsFiniteSet(O(m)) /\ IsFiniteSet(O(k))
        /\ Cardinality(O(m)) \in Nat /\ Cardinality(O(k)) \in Nat
    BY <1>1, <2>1
  <2> HIDE DEF O
  <2>3. Cardinality(O(m) \cup {m}) = Cardinality(O(m)) + 1
    BY <2>1, <2>2, FS_AddElement
  <2>4. Cardinality(O(m) \cup {m}) <= Cardinality(O(k))
    BY <2>1, <2>2, FS_Subset
  <2> QED
    BY <2>2, <2>3, <2>4
<1> HIDE DEF O
<1>8. IsFiniteSet(O(k)) /\ Cardinality(O(k)) \in Nat
      /\ \A m \in 1 .. k - 1 : Cardinality(O(m)) \in Nat
  <2>1. \A m \in 1 .. k - 1 : m \in Nat
    OBVIOUS
  <2> QED
    BY <1>1, <2>1
<1>9. Owner(s[k]) => Cardinality(O(k + 1)) = Cardinality(O(k)) + 1
  BY <1>4, <1>5, <1>8, FS_AddElement
<1>10. Owner(s[k]) => Before(s, k + 1) = Before(s, k) + 1
  BY <1>2, <1>8, <1>9
<1>11. ~Owner(s[k]) => Before(s, k + 1) = Before(s, k)
  BY <1>2, <1>6
<1>12. \A m \in 1 .. k - 1 : Owner(s[m]) => Before(s, m) < Before(s, k)
  BY <1>2, <1>7, <1>8
<1> QED
  BY <1>2, <1>3, <1>8, <1>10, <1>11, <1>12

(* It depends on the frames below only. *)
LEMMA SamePlace ==
    ASSUME NEW s, NEW t, NEW k, \A j \in 1 .. k - 1 : s[j] = t[j]
    PROVE  Before(s, k) = Before(t, k)
<1>1. {j \in 1 .. k - 1 : Owner(s[j])} = {j \in 1 .. k - 1 : Owner(t[j])}
  OBVIOUS
<1> QED
  BY <1>1 DEF Before

-----------------------------------------------------------------------------
(* The invariant. *)

PrmFree  == Free(OfKind({"or", "isnull"}) \cup IntegerComparisons)
PrmSound == Free(OfKind({"isnull", "coalesce"}) \cup IntegerComparisons)

(* While its caller's flag is clear, OR has seen no argument but FALSE.    *)
SeenZeros(k) ==
    LET f == stack[k]
    IN  items[f.n].kind = "or" /\ f.i # 0 /\ ~flags[Place(k)] =>
          \A j \in 1 .. f.i - 1 : ArgSem(f, j) = Value(0)

PrmInv ==
    /\ MachineInv
    /\ Linked
    /\ SafeCalls
    /\ flags \in Seq(BOOLEAN)
    /\ mode = "idle" <=> flags = <<>>
    /\ mode # "idle" => Len(flags) = Place(Len(stack) + 1)
    /\ mode = "ret" => ~ret.null
    /\ req.n \in PrmFree =>
         /\ FirstCalls /\ CoalesceCalls
         /\ mode = "ret" => Flagged(Flag, ret.v) = Wanted
    /\ req.n \in PrmSound =>
         /\ FirstCalls
         /\ mode = "ret" /\ ~Flag => Wanted = Value(ret.v)
         /\ \A k \in DOMAIN stack : SeenZeros(k)

(* The flags fs are those the top frame was called with, its own being b.  *)
Handed(fs, b) ==
    /\ fs \in Seq(BOOLEAN)
    /\ Len(fs) = Place(Len(stack))
    /\ fs[Place(Len(stack))] = b
    /\ \A p \in 1 .. Place(Len(stack)) - 1 : fs[p] = flags[p]

(* Where the flag of the frame at work is. *)
LEMMA FlagMoves ==
    ASSUME PrmInv, stack # <<>>
    PROVE  /\ Flag \in BOOLEAN
           /\ ~Owner(Top) =>
                /\ Handed(flags, Flag)
                /\ \A b \in BOOLEAN : Handed(SetFlag(flags, b), b)
           /\ Owner(Top) =>
                /\ flags[Len(flags) - 1] \in BOOLEAN
                /\ flags[Len(flags) - 1] = flags[Place(Len(stack))]
                /\ Handed(OuterFlags, flags[Len(flags) - 1])
                /\ \A b \in BOOLEAN : Handed(SetFlag(OuterFlags, b), b)
                /\ flags = Append(OuterFlags, Flag)
<1> DEFINE P == Place(Len(stack))
           n == Len(flags)
<1>1. /\ Len(stack) \in Nat \ {0} /\ stack[Len(stack)] = Top
      /\ flags \in Seq(BOOLEAN)
  BY AtWork DEF PrmInv
<1>2. n = Place(Len(stack) + 1)
  <2>1. mode # "idle"
    BY DEF PrmInv, MachineInv, InOrder, CallsMatchMode
  <2> QED
    BY <2>1 DEF PrmInv
<1>3. P \in Nat \ {0}
      /\ (Owner(Top) => n = P + 1)
      /\ (~Owner(Top) => n = P)
  BY <1>1, <1>2, Places DEF Place
<1>4. n \in Nat \ {0} /\ DOMAIN flags = 1 .. n /\ \A p \in 1 .. n : flags[p] \in BOOLEAN
  BY <1>1, <1>3, LenProperties
<1>5. Flag = flags[n]
  BY DEF Flag
<1>6. \A fs, b : Handed(fs, b) <=>
        /\ fs \in Seq(BOOLEAN) /\ Len(fs) = P /\ fs[P] = b
        /\ \A p \in 1 .. P - 1 : fs[p] = flags[p]
  BY DEF Handed
<1> HIDE DEF P, n
<1>7. ASSUME NEW fs \in Seq(BOOLEAN), Len(fs) = P, NEW b \in BOOLEAN,
             \A p \in 1 .. P - 1 : fs[p] = flags[p]
      PROVE  Handed(SetFlag(fs, b), b)
  <2>1. SetFlag(fs, b) = [fs EXCEPT ![P] = b]
    BY <1>7 DEF SetFlag
  <2>2. P \in 1 .. Len(fs) /\ DOMAIN fs = 1 .. P
    BY <1>3, <1>7, LenProperties
  <2>3. SetFlag(fs, b) \in Seq(BOOLEAN) /\ Len(SetFlag(fs, b)) = P
    BY <1>7, <2>1, <2>2, ExceptSeq
  <2>4. SetFlag(fs, b)[P] = b /\ \A p \in 1 .. P - 1 : SetFlag(fs, b)[p] = fs[p]
    BY <1>3, <2>1, <2>2
  <2> QED
    BY <1>6, <1>7, <2>3, <2>4
<1>8. ASSUME ~Owner(Top)
      PROVE  /\ Handed(flags, Flag)
             /\ \A b \in BOOLEAN : Handed(SetFlag(flags, b), b)
  <2>1. n = P
    BY <1>3, <1>8
  <2> QED
    BY <1>1, <1>5, <1>6, <1>7, <2>1 DEF n
<1>9. ASSUME Owner(Top)
      PROVE  /\ flags[n - 1] \in BOOLEAN
             /\ flags[n - 1] = flags[P]
             /\ Handed(OuterFlags, flags[n - 1])
             /\ \A b \in BOOLEAN : Handed(SetFlag(OuterFlags, b), b)
             /\ flags = Append(OuterFlags, Flag)
  <2>1. n = P + 1 /\ n - 1 = P /\ n - 1 \in 1 .. n
    BY <1>3, <1>9
  <2>2. /\ OuterFlags \in Seq(BOOLEAN)
        /\ Len(OuterFlags) = P
        /\ \A p \in 1 .. P : OuterFlags[p] = flags[p]
    BY <1>1, <1>3, <2>1, SubSeqProperties DEF OuterFlags, n
  <2>3. \A p \in 1 .. P - 1 : OuterFlags[p] = flags[p]
    BY <1>3, <2>2
  <2>4. Handed(OuterFlags, flags[n - 1])
    BY <1>3, <1>6, <2>1, <2>2, <2>3
  <2>5. flags = Append(OuterFlags, Flag)
    <3>1. Append(OuterFlags, Flag) \in Seq(BOOLEAN) /\ Len(Append(OuterFlags, Flag)) = P + 1
      BY <1>3, <1>4, <1>5, <2>2
    <3>2. \A p \in 1 .. P + 1 : Append(OuterFlags, Flag)[p] = flags[p]
      BY <1>3, <1>5, <2>1, <2>2
    <3> QED
      BY <1>1, <2>1, <3>1, <3>2, SeqEqual DEF n
  <2> QED
    BY <1>4, <1>7, <2>1, <2>2, <2>3, <2>4, <2>5
<1>10. Flag \in BOOLEAN
  BY <1>4, <1>5
<1> QED
  BY <1>8, <1>9, <1>10, Zenon DEF P, n
(* What the frame at work has been handed. *)
LEMMA PrmHanded ==
    ASSUME PrmInv, stack # <<>>, mode = "ret"
    PROVE  /\ Top.i \in 1 .. Last
           /\ Flag \in BOOLEAN
           /\ ret = Value(ret.v) /\ ret.v \in Values
           /\ req.n \in PrmFree => /\ Flag <=> ArgSem(Top, Top.i).null
                                   /\ ~Flag => ArgSem(Top, Top.i) = ret
                                   /\ Flagged(Flag, ret.v) = ArgSem(Top, Top.i)
           /\ req.n \in PrmSound /\ ~Flag =>
                ~ArgSem(Top, Top.i).null /\ ArgSem(Top, Top.i) = ret
<1>1. Top.i \in 1 .. Last /\ ret \in Results /\ Flag \in BOOLEAN
  BY AtWork, FlagMoves DEF PrmInv
<1>2. ret = Value(ret.v) /\ ret.v \in Values
  BY <1>1, NormIs DEF PrmInv
<1>3. /\ req.n \in PrmFree => Flagged(Flag, ret.v) = ArgSem(Top, Top.i)
      /\ req.n \in PrmSound /\ ~Flag => ArgSem(Top, Top.i) = Value(ret.v)
  BY DEF PrmInv, Wanted
<1>4. CASE Flag
  BY <1>1, <1>2, <1>3, <1>4, FlaggedIs, NormIs
<1>5. CASE ~Flag
  <2>1. Flagged(Flag, ret.v) = ret
    BY <1>1, <1>2, <1>5, FlaggedIs
  <2>2. ~ret.null
    BY <1>2, NormIs
  <2> QED
    BY <1>1, <1>2, <1>3, <1>5, <2>1, <2>2
<1> QED
  BY <1>4, <1>5

(* What it knows of the arguments before. *)
LEMMA PrmKnows ==
    ASSUME PrmInv, stack # <<>>
    PROVE  /\ req.n \in PrmFree \cup PrmSound /\ Callee.kind \in {"add", "eq"} /\ Top.i = 2 =>
                ~ArgSem(Top, 1).null /\ Top.acc = ArgSem(Top, 1)
           /\ req.n \in PrmFree /\ Callee.kind = "coalesce" =>
                \A j \in 1 .. Top.i - 1 : ArgSem(Top, j).null
           /\ req.n \in PrmSound /\ Callee.kind = "or" /\ Top.i # 0
                /\ ~flags[Place(Len(stack))] =>
                \A j \in 1 .. Top.i - 1 : ArgSem(Top, j) = Value(0)
<1>1. Top = stack[Len(stack)] /\ Len(stack) \in DOMAIN stack
  BY AtWork DEF PrmInv
<1>2. /\ req.n \in PrmFree \cup PrmSound => KnowsFirst(Top)
      /\ req.n \in PrmFree => KnowsCoalesce(Top)
      /\ req.n \in PrmSound => SeenZeros(Len(stack))
  BY <1>1, Zenon DEF PrmInv, FirstCalls, CoalesceCalls
<1> QED
  BY <1>1, <1>2 DEF KnowsFirst, KnowsCoalesce, SeenZeros, Callee

(* Which classes occur in the two scopes. *)
LEMMA PrmScoped ==
    ASSUME MachineInv, stack # <<>>
    PROVE  /\ req.n \in PrmFree => Callee.kind \notin {"or", "isnull"}
           /\ req.n \in PrmSound => Callee.kind \notin {"isnull", "coalesce"}
           /\ req.n \in PrmFree \cup PrmSound =>
                ~(Callee.kind = "eq" /\ Callee.cmp = MYSQL_TYPE_LONGLONG)
<1>1. Len(stack) \in DOMAIN stack /\ stack[Len(stack)] = Top /\ Top.n \in DOMAIN items
  BY AtWork
<1>2. \A ks : OfKind(ks) \cup IntegerComparisons \in SUBSET DOMAIN items
  BY DEF OfKind, IntegerComparisons
<1>3. \A ks : req.n \in Free(OfKind(ks) \cup IntegerComparisons) =>
                Top.n \in Free(OfKind(ks) \cup IntegerComparisons)
  BY <1>1, <1>2 DEF MachineInv, InOrder
<1>4. \A ks : Top.n \in Free(OfKind(ks) \cup IntegerComparisons) =>
                Top.n \notin OfKind(ks) /\ Top.n \notin IntegerComparisons
  BY FreeParts
<1> QED
  BY <1>1, <1>3, <1>4 DEF PrmFree, PrmSound, OfKind, IntegerComparisons, Callee

LEMMA PrmScopeKept ==
    ASSUME items' = items
    PROVE  PrmFree' = PrmFree /\ PrmSound' = PrmSound
BY DEF PrmFree, PrmSound, IntegerComparisons, Free, Closed, OfKind

(* An answer that is owed, if there is one. *)
LEMMA PrmReturn ==
    ASSUME PrmInv, stack # <<>>, NEW v \in Values, NEW b \in BOOLEAN,
           Return(Value(v)), Handed(flags', b),
           req.n \in PrmFree => Flagged(b, v) = Owed,
           req.n \in PrmSound /\ ~b => Owed = Value(v)
    PROVE  PrmInv'
<1>0. PICK L, P : L = Len(stack) /\ P = Place(L)
  OBVIOUS
<1>1. Value(v) \in Results
  BY AnswerTypes
<1>2. /\ MachineInv'
      /\ mode' = "ret" /\ ret' = Value(v) /\ UNCHANGED <<items, sem, req>>
      /\ Len(stack') = Len(stack) - 1
      /\ DOMAIN stack' = 1 .. Len(stack) - 1
      /\ \A k \in 1 .. Len(stack) - 1 : stack'[k] = stack[k]
      /\ Wanted' = Owed
      /\ Linked' /\ SafeCalls'
      /\ FirstCalls => FirstCalls'
      /\ CoalesceCalls => CoalesceCalls'
  BY <1>1, ReturnMove DEF PrmInv
<1>3. L \in Nat \ {0} /\ DOMAIN stack = 1 .. L
  BY <1>0, AtWork DEF PrmInv
<1>4. /\ flags' \in Seq(BOOLEAN) /\ Len(flags') = P /\ flags'[P] = b
      /\ \A p \in 1 .. P - 1 : flags'[p] = flags[p]
  BY <1>0 DEF Handed
<1>5. P \in Nat \ {0} /\ \A m \in 1 .. L - 1 : Owner(stack[m]) => Place(m) < P
  BY <1>0, <1>3, Places DEF Place
<1>6. \A m \in 1 .. L - 1 : Place(m) \in Nat \ {0}
  BY <1>0, <1>3, Places DEF Place
<1>7. ASSUME NEW k \in 1 .. L PROVE Place(k)' = Place(k)
  <2>1. \A j \in 1 .. k - 1 : stack'[j] = stack[j]
    BY <1>0, <1>2, <1>3
  <2>2. Before(stack', k) = Before(stack, k)
    BY <2>1, SamePlace
  <2> QED
    BY <1>2, <2>2 DEF Place, Before, Owner
<1>8. (Len(flags) = Place(Len(stack) + 1))'
  <2>1. Len(stack') + 1 = L /\ L \in 1 .. L
    BY <1>0, <1>2, <1>3
  <2>2. Place(L)' = P
    BY <1>0, <1>7, <2>1
  <2>3. Place(Len(stack) + 1)' = Place(L)'
    BY <2>1 DEF Place, Before
  <2> QED
    BY <1>4, <2>2, <2>3
<1>9. flags' # <<>> /\ Flag' = b
  BY <1>4, <1>5 DEF Flag
<1>10. ASSUME req.n \in PrmSound, NEW k \in DOMAIN stack' PROVE SeenZeros(k)'
  <2>1. k \in 1 .. L - 1 /\ k \in DOMAIN stack /\ k \in 1 .. L /\ stack'[k] = stack[k]
    BY <1>0, <1>2, <1>3, <1>10
  <2>2. SeenZeros(k)
    BY <1>10, <2>1 DEF PrmInv
  <2>3. items[stack[k].n].kind = "or" /\ stack[k].i # 0 => flags'[Place(k)'] = flags[Place(k)]
    <3> SUFFICES ASSUME items[stack[k].n].kind = "or", stack[k].i # 0
                 PROVE  flags'[Place(k)'] = flags[Place(k)]
      OBVIOUS
    <3>1. stack[k].i \in Nat
      <4>1. stack[k] \in Frames
        BY <2>1, AtWork DEF PrmInv
      <4> QED
        BY <4>1 DEF Frames
    <3>2. Owner(stack[k])
      BY <3>1 DEF Owner
    <3>3. Place(k) \in 1 .. P - 1
      BY <1>5, <1>6, <2>1, <3>2
    <3> QED
      BY <1>4, <1>7, <2>1, <3>3
  <2>4. \A j : ArgSem(stack[k], j)' = ArgSem(stack[k], j)
    BY <1>2, <2>1 DEF ArgSem
  <2> QED
    BY <1>2, <2>1, <2>2, <2>3, <2>4, Zenon DEF SeenZeros
<1>11. PrmFree' = PrmFree /\ PrmSound' = PrmSound
  BY <1>2, PrmScopeKept
<1>12. ~ret'.null /\ ret'.v = v
  BY <1>2, NormIs
<1>13. Flagged(Flag, ret.v)' = Flagged(b, v)
  BY <1>9, <1>12 DEF Flagged, Norm, SqlNull
<1>14. (req.n \in PrmFree)' => FirstCalls' /\ CoalesceCalls' /\ (Flagged(Flag, ret.v) = Wanted)'
  BY <1>2, <1>11, <1>13 DEF PrmInv
<1>15. (req.n \in PrmSound)' =>
         /\ FirstCalls'
         /\ ~Flag' => Wanted' = Value(ret'.v)
         /\ \A k \in DOMAIN stack' : SeenZeros(k)'
  BY <1>2, <1>9, <1>10, <1>11, <1>12 DEF PrmInv
<1> QED
  BY <1>2, <1>4, <1>8, <1>9, <1>12, <1>14, <1>15 DEF PrmInv, Value

(* A call of the next argument, with the flag the frame was called with or *)
(* a local one. *)
LEMMA PrmCall ==
    ASSUME PrmInv, stack # <<>>, NEW i \in 1 .. Last, NEW a \in Results, CallArg(i, a),
           NEW fs, NEW b \in BOOLEAN, Handed(fs, b),
           Owner(Waiting(i, a)) => NewLocal(fs),
           ~Owner(Waiting(i, a)) => flags' = fs,
           req.n \in PrmFree \cup PrmSound /\ Callee.kind \in {"add", "eq"} /\ i = 2 =>
             ~ArgSem(Top, 1).null /\ a = ArgSem(Top, 1),
           req.n \in PrmFree /\ Callee.kind = "coalesce" =>
             \A m \in 1 .. i - 1 : ArgSem(Top, m).null,
           req.n \in PrmSound /\ Callee.kind = "or" /\ ~b =>
             \A m \in 1 .. i - 1 : ArgSem(Top, m) = Value(0)
    PROVE  PrmInv'
<1>0. PICK L, P : L = Len(stack) /\ P = Place(L)
  OBVIOUS
<1> DEFINE f == Waiting(i, a)
           g == Begun(i)
<1>1. CallAgain(i, i, a)
  BY DEF CallArg
<1>2. /\ MachineInv'
      /\ mode' = "call" /\ UNCHANGED <<items, sem, req>>
      /\ stack' # <<>>
      /\ Len(stack') = L + 1
      /\ DOMAIN stack' = 1 .. L + 1
      /\ \A k \in 1 .. L - 1 : stack'[k] = stack[k]
      /\ stack'[L] = f
      /\ stack'[L + 1] = g
      /\ f.n = Top.n /\ f.t = Top.t /\ f.i = i /\ f.acc = a /\ g.i = 0
      /\ Linked' /\ SafeCalls'
  BY <1>0, <1>1, CallMove DEF PrmInv
<1>3. L \in Nat \ {0} /\ DOMAIN stack = 1 .. L
  BY <1>0, AtWork DEF PrmInv
<1>4. /\ fs \in Seq(BOOLEAN) /\ Len(fs) = P /\ fs[P] = b
      /\ \A p \in 1 .. P - 1 : fs[p] = flags[p]
  BY <1>0 DEF Handed
<1>5. P \in Nat \ {0} /\ \A m \in 1 .. L - 1 : Owner(stack[m]) => Place(m) < P
  BY <1>0, <1>3, Places DEF Place
<1>6. \A m \in 1 .. L - 1 : Place(m) \in Nat \ {0}
  BY <1>0, <1>3, Places DEF Place
<1>7. \A k : Place(k)' = Before(stack', k)
  BY <1>2 DEF Place, Before, Owner
<1>8. ASSUME NEW k \in 1 .. L PROVE Place(k)' = Place(k)
  <2>1. \A j \in 1 .. k - 1 : stack'[j] = stack[j]
    BY <1>0, <1>2, <1>3
  <2>2. Before(stack', k) = Before(stack, k)
    BY <2>1, SamePlace
  <2> QED
    BY <1>7, <2>2 DEF Place
<1>9. Place(L)' = P
  BY <1>0, <1>3, <1>8
<1>10. Place(L + 2)' = IF Owner(f) THEN P + 1 ELSE P
  <2>1. ~Owner(g)
    BY <1>2 DEF Owner
  <2>2. Before(stack', L) = P
    BY <1>7, <1>9
  <2>3. Before(stack', L + 1) = IF Owner(f) THEN P + 1 ELSE P
    BY <1>2, <1>3, <2>2, Places
  <2>4. L + 1 \in Nat \ {0} /\ (L + 1) + 1 = L + 2
    BY <1>3
  <2>5. ~Owner(stack'[L + 1])
    BY <1>2, <2>1
  <2>6. Before(stack', L + 2) = Before(stack', L + 1)
    BY <2>4, <2>5, Places
  <2> QED
    BY <1>7, <2>3, <2>6
<1> HIDE DEF f, g
<1>11. /\ flags' \in Seq(BOOLEAN)
       /\ Len(flags') = IF Owner(f) THEN P + 1 ELSE P
       /\ \A p \in 1 .. P : flags'[p] = fs[p]
  <2>1. CASE Owner(f)
    <3>1. PICK x \in BOOLEAN : flags' = Append(fs, x)
      BY <2>1 DEF NewLocal, f
    <3> QED
      BY <1>4, <1>5, <2>1, <3>1
  <2>2. CASE ~Owner(f)
    BY <1>4, <2>2 DEF f
  <2> QED
    BY <2>1, <2>2
<1>12. flags'[P] = b /\ \A p \in 1 .. P - 1 : flags'[p] = flags[p]
  BY <1>4, <1>5, <1>11
<1>13. (Len(flags) = Place(Len(stack) + 1))'
  <2>1. Len(stack') + 1 = L + 2
    BY <1>0, <1>2, <1>3
  <2>2. Place(Len(stack) + 1)' = Place(L + 2)'
    BY <1>7, <2>1 DEF Place, Before
  <2> QED
    BY <1>10, <1>11, <2>2
<1>14. flags' # <<>>
  BY <1>5, <1>11
<1>15. items[f.n] = Callee /\ \A m : ArgSem(f, m) = ArgSem(Top, m)
  BY <1>2 DEF ArgSem, Callee
<1>16. ASSUME req.n \in PrmSound, NEW k \in DOMAIN stack' PROVE SeenZeros(k)'
  <2>1. CASE k \in 1 .. L - 1
    <3>1. k \in DOMAIN stack /\ k \in 1 .. L /\ stack'[k] = stack[k]
      BY <1>2, <1>3, <2>1
    <3>2. SeenZeros(k)
      BY <1>16, <3>1 DEF PrmInv
    <3>3. items[stack[k].n].kind = "or" /\ stack[k].i # 0 => flags'[Place(k)'] = flags[Place(k)]
      <4> SUFFICES ASSUME items[stack[k].n].kind = "or", stack[k].i # 0
                   PROVE  flags'[Place(k)'] = flags[Place(k)]
        OBVIOUS
      <4>1. stack[k].i \in Nat
        <5>1. stack[k] \in Frames
          BY <3>1, AtWork DEF PrmInv
        <5> QED
          BY <5>1 DEF Frames
      <4>2. Owner(stack[k])
        BY <4>1 DEF Owner
      <4>3. Place(k) \in 1 .. P - 1
        BY <1>5, <1>6, <2>1, <4>2
      <4> QED
        BY <1>8, <1>12, <3>1, <4>3
    <3>4. \A j : ArgSem(stack[k], j)' = ArgSem(stack[k], j)
      BY <1>2, <3>1 DEF ArgSem
    <3> QED
      BY <1>2, <3>1, <3>2, <3>3, <3>4, Zenon DEF SeenZeros
  <2>2. CASE k = L
    <3>1. stack'[k] = f /\ items'[f.n] = Callee /\ f.i = i /\ flags'[Place(k)'] = b
      BY <1>2, <1>9, <1>12, <1>15, <2>2
    <3>2. \A m : ArgSem(stack[k], m)' = ArgSem(Top, m)
      BY <1>2, <1>15, <3>1 DEF ArgSem
    <3> QED
      BY <1>16, <3>1, <3>2, Zenon DEF SeenZeros
  <2>3. CASE k = L + 1
    BY <1>2, <2>3 DEF SeenZeros
  <2> QED
    BY <1>2, <1>3, <1>16, <2>1, <2>2, <2>3
<1>17. PrmFree' = PrmFree /\ PrmSound' = PrmSound
  BY <1>2, PrmScopeKept
<1>18. req.n \in PrmFree \cup PrmSound => FirstCalls'
  BY <1>1, CallKnows DEF PrmInv
<1>19. req.n \in PrmFree => CoalesceCalls'
  BY <1>1, CallKnows DEF PrmInv
<1> QED
  BY <1>2, <1>11, <1>13, <1>14, <1>16, <1>17, <1>18, <1>19 DEF PrmInv
-----------------------------------------------------------------------------
(* The steps of val_xxx_null(). *)

(* A literal's number is a value; it is the literal's unless it is asked   *)
(* for a decimal it has no exact one of.                                   *)
LEMMA PrmLeafTypes ==
    ASSUME NEW it \in ItemRecord, NEW T \in ValueTypes, it.kind \in LeafKinds
    PROVE  PrmLeafNumber(it, T) \in Values
<1>1. it.val \in Int
  BY DEF ItemRecord
<1>2. /\ Trunc(it.val) \in Int
      /\ ToInt32(it.val) \in Int
      /\ ToInt32(Trunc(it.val)) \in Int
      /\ Double2decimal(it.val) \in Int
  BY <1>1, ConversionTypes
<1>3. ToBool(it.val) \in Int /\ ToBool(Trunc(it.val)) \in Int
  BY <1>1, <1>2, ConversionTypes, WidthAssumption
<1>4. /\ PrmLeafInt(it.val, T) \in Int
      /\ PrmLeafReal(it.val, T) \in Int
      /\ PrmLeafDecimal(it.val, T) \in Int
  BY <1>1, <1>2, <1>3 DEF PrmLeafInt, PrmLeafReal, PrmLeafDecimal
<1>5. PrmLeafNumber(it, T) \in Int
  BY <1>1, <1>4 DEF PrmLeafNumber, LeafKinds
<1> QED
  BY <1>5 DEF Values

LEMMA PrmLeafExact ==
    ASSUME NEW i \in DOMAIN LeafPool, NEW T \in ValueTypes,
           T = "decimal" => Leaf(LeafPool[i]).type \in DecimalTypes
    PROVE  LET it == Leaf(LeafPool[i])
           IN  LeafSem(it, T) = IF it.kind = "null" THEN SqlNull
                                ELSE Value(PrmLeafNumber(it, T))
<1> DEFINE l  == LeafPool[i]
           it == Leaf(l)
<1>1. l \in [kind : LeafKinds, val : Int]
  <2>1. LeafPool \in Seq([kind : LeafKinds, val : Int])
    BY TreeAssumption
  <2> QED
    BY <2>1, LenProperties
<1>2. it.kind = l.kind /\ it.val = l.val /\ it.type = LeafType(l.kind)
  BY DEF Leaf
<1>3. l.kind = "bool" => l.val \in {0, One}
  BY TreeAssumption
<1>4. l.kind = "int" => l.val % One = 0
  BY TreeAssumption
<1>5. T \in {"bool", "int32", "longlong", "double", "decimal"}
  BY DEF ValueTypes
<1>6. T = "decimal" => l.kind # "real"
  BY <1>2 DEF LeafType, DecimalTypes, MYSQL_TYPE_NULL, MYSQL_TYPE_BOOL,
              MYSQL_TYPE_LONGLONG, MYSQL_TYPE_DOUBLE, MYSQL_TYPE_NEWDECIMAL
<1> HIDE DEF l, it
<1>7. CASE l.kind = "null"
  BY <1>2, <1>7 DEF LeafSem, it, l
<1>8. CASE l.kind = "bool"
  <2>1. LeafSem(it, T) = Value(l.val)
    BY <1>2, <1>3, <1>8, BoolExact DEF LeafSem
  <2>2. PrmLeafNumber(it, T) = l.val
    BY <1>2, <1>8 DEF PrmLeafNumber
  <2> QED
    BY <1>2, <1>8, <2>1, <2>2 DEF it, l
<1>9. CASE l.kind = "int"
  <2>1. Trunc(l.val) = l.val
    BY <1>1, <1>4, <1>9, TruncWhole
  <2>2. LeafSem(it, T) = Value(PrmLeafNumber(it, T))
    BY <1>2, <1>5, <1>9, <2>1 DEF PrmLeafNumber, PrmLeafInt, LeafSem
  <2> QED
    BY <1>2, <1>9, <2>2 DEF it, l
<1>10. CASE l.kind = "real"
  <2>1. LeafSem(it, T) = Value(PrmLeafNumber(it, T))
    BY <1>2, <1>5, <1>6, <1>10 DEF PrmLeafNumber, PrmLeafReal, LeafSem
  <2> QED
    BY <1>2, <1>10, <2>1 DEF it, l
<1>11. CASE l.kind = "decimal"
  <2>1. LeafSem(it, T) = Value(PrmLeafNumber(it, T))
    BY <1>2, <1>5, <1>11 DEF PrmLeafNumber, PrmLeafDecimal, LeafSem
  <2> QED
    BY <1>2, <1>11, <2>1 DEF it, l
<1> QED
  BY <1>1, <1>7, <1>8, <1>9, <1>10, <1>11 DEF LeafKinds

LEMMA PrmLeafStep == PrmInv /\ PrmLeaf => PrmInv'
<1> SUFFICES ASSUME PrmInv, PrmLeaf PROVE PrmInv'
  OBVIOUS
<1>1. PICK v : v = PrmLeafNumber(Callee, Top.t)
  OBVIOUS
<1>2. PICK b \in BOOLEAN : b = (Callee.kind = "null")
  OBVIOUS
<1>3. stack # <<>> /\ mode = "call" /\ Callee.kind \in LeafKinds
      /\ Return(Value(v)) /\ flags' = SetFlag(flags, b)
  BY <1>1, <1>2 DEF PrmLeaf, Begin
<1>4. MachineInv /\ Callee \in ItemRecord /\ Top.t \in ValueTypes /\ Callee = items[Top.n]
  BY <1>3, AtWork DEF PrmInv, Callee
<1>5. v \in Values
  BY <1>1, <1>3, <1>4, PrmLeafTypes
<1>6. Handed(flags', b)
  <2>1. ~Owner(Top)
    BY <1>3, <1>4 DEF MachineInv, InOrder, CallsMatchMode, Owner
  <2> QED
    BY <1>3, <2>1, FlagMoves
<1>7. Owed = IF b THEN SqlNull ELSE Value(v)
  <2>1. PICK l \in DOMAIN LeafPool : Callee = Leaf(LeafPool[l])
    BY <1>3, <1>4, Owes
  <2>2. Safe(Top)
    BY <1>3, AtWork DEF PrmInv, SafeCalls
  <2>3. Owed = LeafSem(Callee, Top.t)
    BY <1>3, <1>4, Owes
  <2> QED
    BY <1>1, <1>2, <1>4, <2>1, <2>2, <2>3, PrmLeafExact DEF Safe
<1>8. Flagged(b, v) = Owed
  BY <1>7, FlaggedIs
<1> QED
  BY <1>3, <1>5, <1>6, <1>7, <1>8, PrmReturn

(* Most calls and returns do not touch the flags.                          *)
LEMMA PrmKeeps ==
    ASSUME PrmInv, stack # <<>>, KeepFlags
    PROVE  /\ Flag \in BOOLEAN
           /\ Callee.kind \notin {"or", "last_value"} => Handed(flags', Flag)
           /\ mode = "call" => Handed(flags', Flag)
           /\ mode = "ret" /\ Top.i = Last => Callee.kind = "or" \/ Handed(flags', Flag)
<1>1. Flag \in BOOLEAN /\ (~Owner(Top) => Handed(flags, Flag))
  BY FlagMoves
<1>2. Callee.kind \notin {"or", "last_value"} => ~Owner(Top)
  BY DEF Owner, Callee
<1>3. mode = "call" => ~Owner(Top)
  BY DEF PrmInv, MachineInv, InOrder, CallsMatchMode, Owner
<1>4. Callee.kind # "or" /\ Top.i = Last => ~Owner(Top)
  <2>1. Last \in Nat
    BY AtWork DEF PrmInv
  <2> QED
    BY <2>1 DEF Owner, Callee, Last
<1>5. flags' = flags
  BY DEF KeepFlags
<1> QED
  BY <1>1, <1>2, <1>3, <1>4, <1>5

(* A call by a class that has no local flags. *)
LEMMA PrmPlainCall ==
    ASSUME PrmInv, stack # <<>>, NEW i \in 1 .. Last, NEW a \in Results, CallArg(i, a),
           KeepFlags, Callee.kind \notin {"or", "last_value"},
           req.n \in PrmFree \cup PrmSound /\ Callee.kind \in {"add", "eq"} /\ i = 2 =>
             ~ArgSem(Top, 1).null /\ a = ArgSem(Top, 1),
           req.n \in PrmFree /\ Callee.kind = "coalesce" =>
             \A m \in 1 .. i - 1 : ArgSem(Top, m).null
    PROVE  PrmInv'
<1>1. Flag \in BOOLEAN /\ Handed(flags, Flag) /\ flags' = flags
  BY PrmKeeps DEF KeepFlags
<1>2. ~Owner(Waiting(i, a))
  <2>1. CallAgain(i, i, a)
    BY DEF CallArg
  <2>2. Waiting(i, a).n = Top.n
    BY <2>1, CallMove DEF PrmInv
  <2> QED
    BY <2>2 DEF Owner, Callee
<1> QED
  BY <1>1, <1>2, PrmCall

LEMMA PrmAddStep == PrmInv /\ PrmAdd => PrmInv'
<1> SUFFICES ASSUME PrmInv, PrmAdd PROVE PrmInv'
  OBVIOUS
<1>1. stack # <<>> /\ Callee.kind = "add"
  BY DEF PrmAdd, Begin, After, Returned
<1>2. /\ MachineInv /\ 1 \in 1 .. Last /\ 2 \in 1 .. Last
      /\ Top.acc \in Results /\ ret \in Results /\ SqlNull \in Results
  BY <1>1, AtWork, Numbers DEF PrmInv
<1>3. CASE Begin("add") /\ CallArg(1, SqlNull) /\ KeepFlags
  BY <1>1, <1>2, <1>3, PrmPlainCall
<1>4. CASE /\ After("add", 1)
           /\ Flag
           /\ Return(IF Top.t = "decimal" THEN ret ELSE Value(0))
           /\ KeepFlags
  <2>1. ret = Value(ret.v) /\ ret.v \in Values /\ 0 \in Values /\ Handed(flags', Flag)
    BY <1>1, <1>2, <1>4, PrmHanded, PrmKeeps, Numbers DEF After, Returned
  <2>2. PICK v \in Values : Return(Value(v))
    BY <1>4, <2>1
  <2>3. req.n \in PrmFree => Owed = SqlNull
    BY <1>1, <1>2, <1>4, PrmHanded, OwesNumber DEF After, Returned
  <2>4. Flagged(Flag, v) = SqlNull /\ Flag \in BOOLEAN
    BY <1>1, <1>4, FlaggedIs, FlagMoves
  <2> QED
    BY <1>1, <1>4, <2>1, <2>2, <2>3, <2>4, PrmReturn
<1>5. CASE After("add", 1) /\ ~Flag /\ CallArg(2, ret) /\ KeepFlags
  <2>1. req.n \in PrmFree \cup PrmSound => ~ArgSem(Top, 1).null /\ ret = ArgSem(Top, 1)
    BY <1>1, <1>5, PrmHanded DEF After, Returned
  <2> QED
    BY <1>1, <1>2, <1>5, <2>1, PrmPlainCall
<1>6. CASE /\ After("add", 2)
           /\ Return(IF Top.t = "decimal" /\ Flag THEN ret
                     ELSE Value(FromArith(Plus(Top.acc.v, ret.v, ArithType(Top.t)), Top.t)))
           /\ KeepFlags
  <2>1. PICK x \in Values : x = FromArith(Plus(Top.acc.v, ret.v, ArithType(Top.t)), Top.t)
    BY <1>1, <1>2, Numbers
  <2>2. ret = Value(ret.v) /\ ret.v \in Values /\ Handed(flags', Flag) /\ Flag \in BOOLEAN
    BY <1>1, <1>6, PrmHanded, PrmKeeps DEF After, Returned
  <2>3. PICK v \in Values : Return(Value(v)) /\ (~Flag => v = x)
    BY <1>6, <2>1, <2>2
  <2>4. ASSUME req.n \in PrmFree \cup PrmSound, ~Flag PROVE Owed = Value(v)
    <3>1. /\ ~ArgSem(Top, 1).null /\ Top.acc = ArgSem(Top, 1)
          /\ ~ArgSem(Top, 2).null /\ ret = ArgSem(Top, 2)
      BY <1>1, <1>6, <2>4, PrmHanded, PrmKnows DEF After, Returned
    <3> QED
      BY <1>1, <1>2, <2>1, <2>3, <2>4, <3>1, OwesNumber
  <2>5. ASSUME req.n \in PrmFree, Flag PROVE Owed = SqlNull
    BY <1>1, <1>2, <1>6, <2>5, PrmHanded, OwesNumber DEF After, Returned
  <2>6. req.n \in PrmFree => Flagged(Flag, v) = Owed
    BY <2>2, <2>4, <2>5, FlaggedIs
  <2> QED
    BY <1>1, <2>2, <2>3, <2>4, <2>6, PrmReturn
<1> QED
  BY <1>3, <1>4, <1>5, <1>6 DEF PrmAdd

LEMMA PrmUminusStep == PrmInv /\ PrmUminus => PrmInv'
<1> SUFFICES ASSUME PrmInv, PrmUminus PROVE PrmInv'
  OBVIOUS
<1>1. stack # <<>> /\ Callee.kind = "uminus"
  BY DEF PrmUminus, Begin, After, Returned
<1>2. MachineInv /\ 1 \in 1 .. Last /\ ret \in Results /\ SqlNull \in Results
  BY <1>1, AtWork, Numbers DEF PrmInv
<1>3. CASE Begin("uminus") /\ CallArg(1, SqlNull) /\ KeepFlags
  BY <1>1, <1>2, <1>3, PrmPlainCall
<1>4. CASE /\ After("uminus", 1)
           /\ Return(Value(FromArith(Neg(ret.v, ArithType(Top.t)), Top.t)))
           /\ KeepFlags
  <2>1. PICK v \in Values : v = FromArith(Neg(ret.v, ArithType(Top.t)), Top.t)
    BY <1>1, <1>2, Numbers
  <2>2. Handed(flags', Flag) /\ Flag \in BOOLEAN /\ Return(Value(v))
    BY <1>1, <1>4, <2>1, PrmKeeps
  <2>3. ASSUME req.n \in PrmFree \cup PrmSound, ~Flag PROVE Owed = Value(v)
    <3>1. ~ArgSem(Top, 1).null /\ ret = ArgSem(Top, 1)
      BY <1>1, <1>4, <2>3, PrmHanded DEF After, Returned
    <3> QED
      BY <1>1, <1>2, <2>1, <3>1, OwesNumber
  <2>4. ASSUME req.n \in PrmFree, Flag PROVE Owed = SqlNull
    BY <1>1, <1>2, <1>4, <2>4, PrmHanded, OwesNumber DEF After, Returned
  <2>5. req.n \in PrmFree => Flagged(Flag, v) = Owed
    BY <2>2, <2>3, <2>4, FlaggedIs
  <2> QED
    BY <1>1, <2>2, <2>3, <2>5, PrmReturn
<1> QED
  BY <1>3, <1>4 DEF PrmUminus

(* OR: the flag of its caller stays clear only while the arguments answer  *)
(* FALSE.                                                                  *)
LEMMA PrmOrStep == PrmInv /\ PrmOr => PrmInv'
<1> SUFFICES ASSUME PrmInv, PrmOr PROVE PrmInv'
  OBVIOUS
<1>1. stack # <<>> /\ Callee.kind = "or"
  BY DEF PrmOr, Begin, Returned
<1>2. /\ MachineInv /\ 1 \in 1 .. Last /\ Last \in Nat /\ Top.i \in Nat
      /\ ret \in Results /\ SqlNull \in Results /\ 0 \in Values /\ One \in Values
  BY <1>1, AtWork, Numbers DEF PrmInv
<1>3. req.n \notin PrmFree
  BY <1>1, <1>2, PrmScoped
<1>4. ASSUME NEW i \in 1 .. Last, CallArg(i, SqlNull) PROVE Owner(Waiting(i, SqlNull))
  <2>1. CallAgain(i, i, SqlNull)
    BY <1>4 DEF CallArg
  <2>2. Waiting(i, SqlNull).n = Top.n /\ Waiting(i, SqlNull).i = i
    BY <1>1, <1>2, <2>1, CallMove
  <2> QED
    BY <1>1, <1>2, <2>2 DEF Owner, Callee
<1>5. CASE Begin("or") /\ CallArg(1, SqlNull) /\ NewLocal(flags)
  <2>1. Flag \in BOOLEAN /\ Handed(flags, Flag)
    <3>1. ~Owner(Top)
      BY <1>2, <1>5 DEF Begin, MachineInv, InOrder, CallsMatchMode, Owner
    <3> QED
      BY <1>1, <3>1, FlagMoves
  <2>2. 1 .. 1 - 1 = {}
    OBVIOUS
  <2> QED
    BY <1>1, <1>2, <1>3, <1>4, <1>5, <2>1, <2>2, PrmCall
<1>6. ASSUME Returned("or")
      PROVE  /\ Top.i \in 1 .. Last
             /\ flags[Len(flags) - 1] \in BOOLEAN
             /\ flags[Len(flags) - 1] = flags[Place(Len(stack))]
             /\ Flag \in BOOLEAN
             /\ \A b \in BOOLEAN : Handed(SetFlag(OuterFlags, b), b)
             /\ req.n \in PrmSound /\ ~Flag =>
                  ~ArgSem(Top, Top.i).null /\ ArgSem(Top, Top.i) = ret
             /\ ret = Value(ret.v)
  <2>1. Top.i \in 1 .. Last
    BY <1>1, <1>2, <1>6, AtWork DEF Returned
  <2>2. Owner(Top)
    BY <1>1, <1>2, <2>1 DEF Owner, Callee
  <2> QED
    BY <1>1, <1>6, <2>1, <2>2, FlagMoves, PrmHanded DEF Returned
<1>7. CASE /\ Returned("or")
           /\ ret.v # 0 /\ ~Flag
           /\ Return(Value(One))
           /\ flags' = SetFlag(OuterFlags, FALSE)
  <2>1. req.n \in PrmSound => Owed = Value(One)
    BY <1>1, <1>2, <1>6, <1>7, OwesOr DEF IsTrue
  <2>2. Handed(flags', FALSE)
    BY <1>6, <1>7
  <2> QED
    BY <1>1, <1>2, <1>3, <1>7, <2>1, <2>2, PrmReturn
<1>8. ASSUME Returned("or"), ret.v = 0 \/ Flag
      PROVE  \E b \in BOOLEAN :
               /\ SetFlag(OuterFlags, flags[Len(flags) - 1] \/ Flag) = SetFlag(OuterFlags, b)
               /\ Handed(SetFlag(OuterFlags, b), b)
               /\ req.n \in PrmSound /\ ~b => \A m \in 1 .. Top.i : ArgSem(Top, m) = Value(0)
  <2>1. PICK b \in BOOLEAN : b = (flags[Len(flags) - 1] \/ Flag)
    BY <1>6, <1>8
  <2>2. ASSUME req.n \in PrmSound, ~b, NEW m \in 1 .. Top.i
        PROVE  ArgSem(Top, m) = Value(0)
    <3>1. ~Flag /\ ~flags[Place(Len(stack))] /\ Top.i \in 1 .. Last
      BY <1>6, <1>8, <2>1, <2>2
    <3>2. CASE m = Top.i
      BY <1>6, <1>8, <2>2, <3>1, <3>2
    <3>3. CASE m \in 1 .. Top.i - 1
      BY <1>1, <2>2, <3>1, <3>3, PrmKnows
    <3> QED
      BY <3>1, <3>2, <3>3
  <2>3. Handed(SetFlag(OuterFlags, b), b)
    BY <1>6, <1>8
  <2> QED
    BY <2>1, <2>2, <2>3
<1>9. ASSUME NEW fs, NEW b \in BOOLEAN, Handed(fs, b), Returned("or"),
             req.n \in PrmSound /\ ~b => \A m \in 1 .. Top.i : ArgSem(Top, m) = Value(0),
             Top.i < Last, CallArg(Top.i + 1, SqlNull), NewLocal(fs)
      PROVE  PrmInv'
  <2>1. PICK i \in 1 .. Last : i = Top.i + 1 /\ i - 1 = Top.i
    BY <1>2, <1>9
  <2>2. CallArg(i, SqlNull)
    BY <1>9, <2>1
  <2>3. Owner(Waiting(i, SqlNull))
    BY <1>4, <2>2
  <2> QED
    BY <1>1, <1>2, <1>3, <1>9, <2>1, <2>2, <2>3, PrmCall
<1>10. ASSUME NEW b \in BOOLEAN, Handed(flags', b), Returned("or"),
              req.n \in PrmSound /\ ~b => \A m \in 1 .. Top.i : ArgSem(Top, m) = Value(0),
              Top.i = Last, Return(Value(0))
       PROVE  PrmInv'
  <2>1. ASSUME req.n \in PrmSound, ~b PROVE Owed = Value(0)
    <3>1. \A m \in 1 .. Last : ~IsTrue(ArgSem(Top, m)) /\ ~ArgSem(Top, m).null
      BY <1>10, <2>1, NormIs DEF IsTrue
    <3> QED
      BY <1>1, <1>2, <3>1, OwesOr
  <2> QED
    BY <1>1, <1>2, <1>3, <1>10, <2>1, PrmReturn
<1>11. CASE /\ Returned("or")
            /\ ret.v = 0 \/ Flag
            /\ LET outer == SetFlag(OuterFlags, flags[Len(flags) - 1] \/ Flag)
               IN  \/ Top.i < Last /\ CallArg(Top.i + 1, SqlNull) /\ NewLocal(outer)
                   \/ Top.i = Last /\ Return(Value(0)) /\ flags' = outer
  <2>1. PICK b \in BOOLEAN :
          /\ SetFlag(OuterFlags, flags[Len(flags) - 1] \/ Flag) = SetFlag(OuterFlags, b)
          /\ Handed(SetFlag(OuterFlags, b), b)
          /\ req.n \in PrmSound /\ ~b => \A m \in 1 .. Top.i : ArgSem(Top, m) = Value(0)
    BY <1>8, <1>11
  <2>2. PICK fs : fs = SetFlag(OuterFlags, b)
    OBVIOUS
  <2>3. Handed(fs, b)
    BY <2>1, <2>2
  <2>4. \/ Top.i < Last /\ CallArg(Top.i + 1, SqlNull) /\ NewLocal(fs)
        \/ Top.i = Last /\ Return(Value(0)) /\ flags' = fs
    BY <1>11, <2>1, <2>2
  <2> QED
    BY <1>9, <1>10, <1>11, <2>1, <2>3, <2>4
<1> QED
  BY <1>5, <1>7, <1>11 DEF PrmOr

(* IS NULL is in neither scope. *)
LEMMA PrmIsnullStep == PrmInv /\ PrmIsnull => PrmInv'
<1> SUFFICES ASSUME PrmInv, PrmIsnull PROVE PrmInv'
  OBVIOUS
<1>1. stack # <<>> /\ Callee.kind = "isnull"
  BY DEF PrmIsnull, Begin, After, Returned
<1>2. /\ MachineInv /\ 1 \in 1 .. Last /\ SqlNull \in Results /\ One \in Values
      /\ \A b : BoolValue(b) \in Values
  BY <1>1, AtWork, Numbers DEF PrmInv
<1>3. req.n \notin PrmFree /\ req.n \notin PrmSound
  BY <1>1, <1>2, PrmScoped
<1>4. \A b \in BOOLEAN : Handed(SetFlag(flags, b), b)
  <2>1. ~Owner(Top)
    BY <1>1 DEF Owner, Callee
  <2> QED
    BY <1>1, <2>1, FlagMoves
<1>5. CASE /\ Begin("isnull")
           /\ Callee.cmp = MYSQL_TYPE_NULL
           /\ Return(Value(One))
           /\ flags' = SetFlag(flags, FALSE)
  <2>1. Handed(flags', FALSE)
    BY <1>4, <1>5
  <2> QED
    BY <1>1, <1>2, <1>3, <1>5, <2>1, PrmReturn
<1>6. CASE /\ Begin("isnull")
           /\ Callee.cmp # MYSQL_TYPE_NULL
           /\ CallArg(1, SqlNull)
           /\ flags' = SetFlag(flags, FALSE)
  <2>1. ~Owner(Waiting(1, SqlNull))
    <3>1. CallAgain(1, 1, SqlNull)
      BY <1>6 DEF CallArg
    <3>2. Waiting(1, SqlNull).n = Top.n
      BY <1>1, <1>2, <3>1, CallMove
    <3> QED
      BY <1>1, <3>2 DEF Owner, Callee
  <2>2. PICK fs : fs = SetFlag(flags, FALSE)
    OBVIOUS
  <2>3. Handed(fs, FALSE) /\ flags' = fs
    BY <1>4, <1>6, <2>2
  <2> QED
    BY <1>1, <1>2, <1>3, <1>6, <2>1, <2>3, PrmCall
<1>7. CASE After("isnull", 1) /\ Return(Value(BoolValue(Flag))) /\ KeepFlags
  <2>1. Handed(flags', Flag) /\ Flag \in BOOLEAN
    BY <1>1, <1>7, PrmKeeps
  <2>2. PICK v \in Values : v = BoolValue(Flag)
    BY <1>2
  <2> QED
    BY <1>1, <1>3, <1>7, <2>1, <2>2, PrmReturn
<1> QED
  BY <1>5, <1>6, <1>7 DEF PrmIsnull

LEMMA PrmCoalesceStep == PrmInv /\ PrmCoalesce => PrmInv'
<1> SUFFICES ASSUME PrmInv, PrmCoalesce PROVE PrmInv'
  OBVIOUS
<1>1. stack # <<>> /\ Callee.kind = "coalesce"
  BY DEF PrmCoalesce, Begin, Returned
<1>2. /\ MachineInv /\ 1 \in 1 .. Last /\ Last \in Nat /\ Top.i \in Nat
      /\ ret \in Results /\ SqlNull \in Results
  BY <1>1, AtWork, Numbers DEF PrmInv
<1>3. req.n \notin PrmSound
  BY <1>1, <1>2, PrmScoped
<1>4. CASE Begin("coalesce") /\ CallArg(1, SqlNull) /\ KeepFlags
  <2>1. 1 .. 1 - 1 = {}
    OBVIOUS
  <2> QED
    BY <1>1, <1>2, <1>4, <2>1, PrmPlainCall
<1>5. ASSUME Returned("coalesce"), req.n \in PrmFree
      PROVE  /\ Top.i \in 1 .. Last
             /\ Flag <=> ArgSem(Top, Top.i).null
             /\ ~Flag => ArgSem(Top, Top.i) = ret
             /\ \A j \in 1 .. Top.i - 1 : ArgSem(Top, j).null
             /\ \A j \in 1 .. Top.i : j = Top.i \/ j \in 1 .. Top.i - 1
  <2>1. Top.i \in 1 .. Last
    BY <1>1, <1>2, <1>5, AtWork DEF Returned
  <2> QED
    BY <1>1, <1>2, <1>5, <2>1, PrmHanded, PrmKnows DEF Returned
<1>6. CASE /\ Returned("coalesce") /\ Flag /\ Top.i < Last
           /\ CallArg(Top.i + 1, SqlNull) /\ KeepFlags
  <2>1. PICK i \in 1 .. Last : i = Top.i + 1 /\ i - 1 = Top.i
    BY <1>2, <1>6
  <2>2. req.n \in PrmFree => \A m \in 1 .. i - 1 : ArgSem(Top, m).null
    BY <1>5, <1>6, <2>1
  <2>3. CallArg(i, SqlNull)
    BY <1>6, <2>1
  <2> QED
    BY <1>1, <1>2, <1>6, <2>2, <2>3, PrmPlainCall
<1>7. CASE Returned("coalesce") /\ (~Flag \/ Top.i = Last) /\ Return(ret) /\ KeepFlags
  <2>1. ret = Value(ret.v) /\ ret.v \in Values /\ Handed(flags', Flag) /\ Flag \in BOOLEAN
    BY <1>1, <1>7, PrmHanded, PrmKeeps DEF Returned
  <2>2. PICK v \in Values : v = ret.v /\ Return(Value(v))
    BY <1>7, <2>1
  <2>3. ASSUME req.n \in PrmFree, ~Flag PROVE Owed = Value(v)
    BY <1>1, <1>2, <1>5, <1>7, <2>1, <2>2, <2>3, OwesCoalesce
  <2>4. ASSUME req.n \in PrmFree, Flag PROVE Owed = SqlNull
    <3>1. \A i \in 1 .. Last : ArgSem(Top, i).null
      BY <1>5, <1>7, <2>4
    <3> QED
      BY <1>1, <1>2, <3>1, OwesCoalesce
  <2>5. req.n \in PrmFree => Flagged(Flag, v) = Owed
    BY <2>1, <2>3, <2>4, FlaggedIs
  <2> QED
    BY <1>1, <1>3, <2>1, <2>2, <2>5, PrmReturn
<1> QED
  BY <1>4, <1>6, <1>7 DEF PrmCoalesce

(* The local flag of LAST_VALUE is dropped before its last argument.       *)
LEMMA PrmLastValueStep == PrmInv /\ PrmLastValue => PrmInv'
<1> SUFFICES ASSUME PrmInv, PrmLastValue PROVE PrmInv'
  OBVIOUS
<1>1. stack # <<>> /\ Callee.kind = "last_value"
  BY DEF PrmLastValue, Begin, Returned
<1>2. /\ MachineInv /\ 1 \in 1 .. Last /\ Last \in Nat /\ Top.i \in Nat
      /\ ret \in Results /\ SqlNull \in Results
  BY <1>1, AtWork, Numbers DEF PrmInv
<1>3. \A f : f.n = Top.n /\ f.i \in 1 .. Last => (Owner(f) <=> f.i < Last)
  BY <1>1, <1>2 DEF Owner, Callee, Last
<1>4. ASSUME NEW i \in 1 .. Last, CallArg(i, SqlNull)
      PROVE  Owner(Waiting(i, SqlNull)) <=> i < Last
  <2>1. CallAgain(i, i, SqlNull)
    BY <1>4 DEF CallArg
  <2>2. Waiting(i, SqlNull).n = Top.n /\ Waiting(i, SqlNull).i = i
    BY <1>1, <1>2, <2>1, CallMove
  <2> QED
    BY <1>3, <2>2
<1>5. ASSUME mode = "call" PROVE Handed(flags, Flag) /\ Flag \in BOOLEAN
  <2>1. ~Owner(Top)
    BY <1>1, <1>2, <1>5 DEF MachineInv, InOrder, CallsMatchMode, Owner
  <2> QED
    BY <1>1, <2>1, FlagMoves
<1>6. CASE Begin("last_value") /\ Last = 1 /\ CallArg(1, SqlNull) /\ KeepFlags
  <2>1. ~Owner(Waiting(1, SqlNull))
    BY <1>2, <1>4, <1>6
  <2>2. Handed(flags, Flag) /\ Flag \in BOOLEAN /\ flags' = flags
    BY <1>5, <1>6 DEF Begin, KeepFlags
  <2> QED
    BY <1>1, <1>2, <1>6, <2>1, <2>2, PrmCall
<1>7. CASE Begin("last_value") /\ Last > 1 /\ CallArg(1, SqlNull) /\ NewLocal(flags)
  <2>1. Owner(Waiting(1, SqlNull))
    BY <1>2, <1>4, <1>7
  <2>2. Handed(flags, Flag) /\ Flag \in BOOLEAN
    BY <1>5, <1>7 DEF Begin
  <2> QED
    BY <1>1, <1>2, <1>7, <2>1, <2>2, PrmCall
<1>8. CASE /\ Returned("last_value") /\ Top.i < Last
           /\ CallArg(Top.i + 1, SqlNull)
           /\ flags' = IF Top.i + 1 = Last THEN OuterFlags ELSE flags
  <2>1. PICK i \in 1 .. Last : i = Top.i + 1
    BY <1>2, <1>8
  <2>2. CallArg(i, SqlNull)
    BY <1>8, <2>1
  <2>3. Top.i \in 1 .. Last
    BY <1>1, <1>2, <1>8, AtWork DEF Returned
  <2>4. Owner(Top)
    BY <1>3, <1>8, <2>3
  <2>5. PICK fs, b : fs = OuterFlags /\ b = flags[Len(flags) - 1]
    OBVIOUS
  <2>6. /\ Handed(fs, b) /\ b \in BOOLEAN
        /\ Flag \in BOOLEAN /\ flags = Append(fs, Flag)
    BY <1>1, <2>4, <2>5, FlagMoves
  <2>7. i < Last => NewLocal(fs)
    BY <1>8, <2>1, <2>6 DEF NewLocal
  <2>8. ~(i < Last) => flags' = fs
    BY <1>2, <1>8, <2>1, <2>5
  <2> QED
    BY <1>1, <1>2, <1>4, <2>2, <2>6, <2>7, <2>8, PrmCall
<1>9. CASE Returned("last_value") /\ Top.i = Last /\ Return(ret) /\ KeepFlags
  <2>1. ret = Value(ret.v) /\ ret.v \in Values /\ Handed(flags', Flag) /\ Flag \in BOOLEAN
    BY <1>1, <1>9, PrmHanded, PrmKeeps DEF Returned
  <2>2. PICK v \in Values : v = ret.v /\ Return(Value(v))
    BY <1>9, <2>1
  <2>3. Owed = ArgSem(Top, Last)
    BY <1>1, <1>2, Owes
  <2>4. req.n \in PrmFree => Flagged(Flag, v) = Owed
    BY <1>1, <1>9, <2>2, <2>3, PrmHanded DEF Returned
  <2>5. req.n \in PrmSound /\ ~Flag => Owed = Value(v)
    BY <1>1, <1>9, <2>1, <2>2, <2>3, PrmHanded DEF Returned
  <2> QED
    BY <1>1, <2>1, <2>2, <2>4, <2>5, PrmReturn
<1> QED
  BY <1>6, <1>7, <1>8, <1>9 DEF PrmLastValue

LEMMA PrmEqStep == PrmInv /\ PrmEq => PrmInv'
<1> SUFFICES ASSUME PrmInv, PrmEq PROVE PrmInv'
  OBVIOUS
<1>1. stack # <<>> /\ Callee.kind = "eq"
  BY DEF PrmEq, Begin, After, Returned
<1>2. /\ MachineInv /\ 1 \in 1 .. Last /\ 2 \in 1 .. Last
      /\ Top.acc \in Results /\ ret \in Results /\ SqlNull \in Results
      /\ 0 \in Values /\ \A b : BoolValue(b) \in Values
  BY <1>1, AtWork, Numbers DEF PrmInv
<1>3. CASE Begin("eq") /\ CallArg(1, SqlNull) /\ KeepFlags
  BY <1>1, <1>2, <1>3, PrmPlainCall
<1>4. CASE After("eq", 1) /\ Flag /\ Return(Value(0)) /\ KeepFlags
  <2>1. Handed(flags', Flag) /\ Flag \in BOOLEAN
    BY <1>1, <1>4, PrmKeeps
  <2>2. req.n \in PrmFree => Owed = SqlNull
    BY <1>1, <1>2, <1>4, PrmHanded, OwesNumber DEF After, Returned
  <2>3. Flagged(Flag, 0) = SqlNull
    BY <1>4, FlaggedIs
  <2> QED
    BY <1>1, <1>2, <1>4, <2>1, <2>2, <2>3, PrmReturn
<1>5. CASE After("eq", 1) /\ ~Flag /\ CallArg(2, FirstOperand) /\ KeepFlags
  <2>1. PICK a : a = FirstOperand
    OBVIOUS
  <2>2. a \in Results
    <3>1. Value(ToBool(ret.v)) \in Results
      <4>1. ret.v \in Values
        BY <1>2, NormIs
      <4>2. ToBool(ret.v) \in Values
        BY <1>2, <4>1 DEF ToBool
      <4> QED
        BY <4>2, AnswerTypes
    <3> QED
      BY <1>2, <2>1, <3>1 DEF FirstOperand
  <2>3. ASSUME req.n \in PrmFree \cup PrmSound
        PROVE  ~ArgSem(Top, 1).null /\ a = ArgSem(Top, 1)
    <3>1. ~ArgSem(Top, 1).null /\ ret = ArgSem(Top, 1)
      BY <1>1, <1>5, <2>3, PrmHanded DEF After, Returned
    <3>2. a = ret
      BY <1>1, <1>2, <2>1, <2>3, PrmScoped DEF FirstOperand
    <3> QED
      BY <3>1, <3>2
  <2>4. CallArg(2, a)
    BY <1>5, <2>1
  <2> QED
    BY <1>1, <1>2, <1>5, <2>2, <2>3, <2>4, PrmPlainCall
<1>6. CASE /\ After("eq", 2)
           /\ Return(IF Callee.cmp = MYSQL_TYPE_NEWDECIMAL /\ Flag THEN Value(0)
                     ELSE Value(BoolValue(Top.acc.v = ret.v)))
           /\ KeepFlags
  <2>1. Handed(flags', Flag) /\ Flag \in BOOLEAN
    BY <1>1, <1>6, PrmKeeps
  <2>2. PICK v \in Values : Return(Value(v)) /\ (~Flag => v = BoolValue(Top.acc.v = ret.v))
    BY <1>2, <1>6
  <2>3. ASSUME req.n \in PrmFree \cup PrmSound, ~Flag PROVE Owed = Value(v)
    <3>1. /\ ~ArgSem(Top, 1).null /\ Top.acc = ArgSem(Top, 1)
          /\ ~ArgSem(Top, 2).null /\ ret = ArgSem(Top, 2)
      BY <1>1, <1>6, <2>3, PrmHanded, PrmKnows DEF After, Returned
    <3> QED
      BY <1>1, <1>2, <2>2, <2>3, <3>1, OwesNumber
  <2>4. ASSUME req.n \in PrmFree, Flag PROVE Owed = SqlNull
    BY <1>1, <1>2, <1>6, <2>4, PrmHanded, OwesNumber DEF After, Returned
  <2>5. req.n \in PrmFree => Flagged(Flag, v) = Owed
    BY <2>1, <2>3, <2>4, FlaggedIs
  <2> QED
    BY <1>1, <2>1, <2>2, <2>3, <2>5, PrmReturn
<1> QED
  BY <1>3, <1>4, <1>5, <1>6 DEF PrmEq

-----------------------------------------------------------------------------
(* The driver. *)

LEMMA PrmStart == PrmInit => PrmInv
<1> SUFFICES ASSUME PrmInit PROVE PrmInv
  OBVIOUS
<1>1. MachineInv /\ Quiet /\ mode = "idle" /\ flags = <<>>
  BY InitMove DEF PrmInit
<1>2. DOMAIN stack = {}
  BY <1>1, EmptySeq DEF Quiet
<1> QED
  BY <1>1, <1>2 DEF PrmInv, Quiet

LEMMA PrmIdle ==
    ASSUME MachineInv', Quiet', mode' = "idle", flags' = <<>>
    PROVE  PrmInv'
<1>1. DOMAIN stack' = {}
  BY EmptySeq DEF Quiet
<1> QED
  BY <1>1 DEF PrmInv, Quiet

(* The driver's variable is the one flag of a call that has just begun. *)
LEMMA PrmInvokeStep == PrmInv /\ PrmInvoke => PrmInv'
<1> SUFFICES ASSUME PrmInv, PrmInvoke PROVE PrmInv'
  OBVIOUS
<1>1. PICK n \in DOMAIN items, T \in ValueTypes : Enter(n, T)
  BY DEF PrmInvoke, Invoke
<1>2. MachineInv /\ Ask(n, T) /\ (T = "decimal" => items[n].type \in DecimalTypes)
  BY <1>1, EnterSafe DEF Enter, PrmInv, MachineInv, TypeInv
<1>3. /\ MachineInv' /\ mode' = "call" /\ Linked' /\ SafeCalls' /\ FirstCalls'
      /\ CoalesceCalls' /\ DOMAIN stack' = 1 .. 1 /\ Len(stack') = 1
      /\ stack'[1].i = 0 /\ UNCHANGED items
  BY <1>2, AskMove
<1>4. PICK b \in BOOLEAN : flags' = Append(<<>>, b)
  BY DEF PrmInvoke, NewLocal
<1>5. flags' = <<b>> /\ flags' \in Seq(BOOLEAN) /\ Len(flags') = 1 /\ flags' # <<>>
  BY <1>4
<1>6. (Len(flags) = Place(Len(stack) + 1))'
  <2>1. Place(2)' = Before(stack', 2)
    BY <1>3 DEF Place, Before, Owner
  <2>2. ~Owner(stack'[1])
    BY <1>3 DEF Owner
  <2>3. Before(stack', 2) = 1
    <3>1. 1 \in Nat \ {0} /\ 1 + 1 = 2
      OBVIOUS
    <3>2. Before(stack', 1) = 1 /\ (~Owner(stack'[1]) => Before(stack', 1 + 1) = Before(stack', 1))
      BY <3>1, Places
    <3> QED
      BY <2>2, <3>1, <3>2
  <2>4. Place(Len(stack) + 1)' = Place(2)'
    BY <1>3 DEF Place, Before
  <2> QED
    BY <1>5, <2>1, <2>3, <2>4
<1>7. \A k \in DOMAIN stack' : SeenZeros(k)'
  <2>1. \A k \in DOMAIN stack' : stack'[k].i = 0
    BY <1>3
  <2> QED
    BY <2>1 DEF SeenZeros
<1> QED
  BY <1>3, <1>5, <1>6, <1>7 DEF PrmInv

LEMMA PrmStutter == PrmInv /\ UNCHANGED prmVars => PrmInv'
<1> SUFFICES ASSUME PrmInv, UNCHANGED prmVars PROVE PrmInv'
  OBVIOUS
<1>1. UNCHANGED treeVars /\ UNCHANGED machineVars /\ flags' = flags
  BY DEF prmVars, treeVars, machineVars
<1>2. /\ MachineInv' /\ (Linked => Linked') /\ (SafeCalls => SafeCalls')
      /\ (FirstCalls => FirstCalls') /\ (CoalesceCalls => CoalesceCalls')
      /\ UNCHANGED <<items, sem, stack, mode, ret, req>>
      /\ Wanted' = Wanted
  BY <1>1, StutterMove DEF PrmInv
<1>3. PrmFree' = PrmFree /\ PrmSound' = PrmSound
  BY <1>2, PrmScopeKept
<1>4. \A k : Place(k)' = Place(k)
  BY <1>2, Zenon DEF Place, Before, Owner
<1>5. \A k : SeenZeros(k) => SeenZeros(k)'
  BY <1>1, <1>2, <1>4, Zenon DEF SeenZeros, ArgSem
<1>6. Flag' = Flag /\ Flagged(Flag, ret.v)' = Flagged(Flag, ret.v)
  BY <1>1, <1>2 DEF Flag, Flagged, Norm, SqlNull
<1>7. (Len(flags) = Place(Len(stack) + 1))' = (Len(flags) = Place(Len(stack) + 1))
  BY <1>1, <1>2, Zenon DEF Place, Before, Owner
<1>8. (req.n \in PrmFree)' => FirstCalls' /\ CoalesceCalls'
                              /\ (mode' = "ret" => (Flagged(Flag, ret.v) = Wanted)')
  BY <1>2, <1>3, <1>6 DEF PrmInv
<1>9. (req.n \in PrmSound)' =>
        /\ FirstCalls'
        /\ mode' = "ret" /\ ~Flag' => Wanted' = Value(ret'.v)
        /\ \A k \in DOMAIN stack' : SeenZeros(k)'
  BY <1>2, <1>3, <1>5, <1>6 DEF PrmInv
<1> QED
  BY <1>1, <1>2, <1>7, <1>8, <1>9 DEF PrmInv, Value

(* A step of a method keeps the invariant, and so does every other. *)
LEMMA PrmSteps == PrmInv /\ PrmStep => PrmInv'
BY PrmLeafStep, PrmAddStep, PrmUminusStep, PrmOrStep, PrmIsnullStep,
   PrmCoalesceStep, PrmLastValueStep, PrmEqStep DEF PrmStep

LEMMA PrmKept == PrmInv /\ [PrmNext]_prmVars => PrmInv'
<1> SUFFICES ASSUME PrmInv, [PrmNext]_prmVars PROVE PrmInv'
  OBVIOUS
<1>1. CASE PrmBuild
  <2>1. /\ MachineInv' /\ Quiet' /\ mode = "idle" /\ UNCHANGED machineVars
    BY <1>1, BuildMove DEF PrmInv, PrmBuild
  <2>2. mode' = "idle" /\ flags' = <<>>
    BY <1>1, <2>1 DEF PrmInv, PrmBuild, KeepFlags, machineVars
  <2> QED
    BY <2>1, <2>2, PrmIdle
<1>2. CASE PrmLeave
  <2>1. MachineInv' /\ Quiet' /\ mode' = "idle" /\ flags' = <<>>
    BY <1>2, LeaveMove DEF PrmInv, PrmLeave
  <2> QED
    BY <2>1, PrmIdle
<1> QED
  BY <1>1, <1>2, PrmInvokeStep, PrmSteps, PrmStutter DEF PrmNext

(* Every reachable state satisfies PrmInv. *)
THEOREM PrmInvariance == PrmSpec => []PrmInv
BY PrmStart, PrmKept, PTL DEF PrmSpec

(* The driver's own flag is the last one when its call has returned. *)
LEMMA DriverFlag ==
    ASSUME PrmInv, mode = "ret", stack = <<>>
    PROVE  /\ Flag = flags[1] /\ Flag \in BOOLEAN
           /\ ret = Value(ret.v)
<1>1. Len(stack) + 1 = 1 /\ 1 \in Nat \ {0}
  BY EmptySeq
<1>2. Len(flags) = 1
  BY <1>1, Places DEF PrmInv, Place
<1>3. ret \in Results /\ ~ret.null
  BY DEF PrmInv, MachineInv, TypeInv, MachineTypeOK
<1> QED
  BY <1>2, <1>3, NormIs DEF Flag, PrmInv

LEMMA PrmRight == PrmInv => PrmAnswerCorrect
<1> SUFFICES ASSUME PrmInv, mode = "ret", stack = <<>>, req.n \in PrmFree
             PROVE  PrmAnswer = sem[req.n][req.t]
  BY DEF PrmAnswerCorrect, PrmFree
<1>1. Flagged(flags[1], ret.v) = sem[req.n][req.t]
  BY DriverFlag DEF PrmInv, Wanted
<1> QED
  BY <1>1 DEF PrmAnswer, Flagged

(* val_xxx_null() answers what SQL says, whatever garbage the flags it is  *)
(* handed hold, of expressions without OR, IS NULL and comparisons of      *)
(* integers.                                                               *)
THEOREM PrmIsCorrect == PrmSpec => []PrmAnswerCorrect
BY PrmRight, PrmInvariance, PTL

(* With OR, garbage in a flag can make a number NULL, and nothing else: an *)
(* answer that is not NULL is the right one.                               *)
THEOREM PrmNumbersAreRight == PrmSpec => []NumbersAreRight
<1>1. PrmInv => NumbersAreRight
  <2> SUFFICES ASSUME PrmInv, mode = "ret", stack = <<>>, ~PrmAnswer.null,
                      req.n \in PrmSound
               PROVE  PrmAnswer = sem[req.n][req.t]
    BY DEF NumbersAreRight, PrmSound
  <2>1. Flag = flags[1] /\ Flag \in BOOLEAN
    BY DriverFlag
  <2>2. PrmAnswer = Flagged(Flag, ret.v)
    BY <2>1 DEF PrmAnswer, Flagged
  <2>3. ~Flag
    BY <2>1, <2>2, FlaggedIs DEF SqlNull
  <2>4. PrmAnswer = Value(ret.v)
    BY <2>1, <2>2, <2>3, FlaggedIs
  <2> QED
    BY <2>3, <2>4 DEF PrmInv, Wanted
<1> QED
  BY <1>1, PrmInvariance, PTL

(* Between two steps there is a flag for the driver and one for every      *)
(* local variable that is still in use, and no other: however deep the     *)
(* expression, no method writes through a pointer that is not its caller's.*)
THEOREM PrmOneFlagPerLocal == PrmSpec => []OneFlagPerLocal
<1>1. PrmInv => OneFlagPerLocal
  <2> SUFFICES ASSUME PrmInv, mode # "idle"
               PROVE  Len(flags) = 1 + Cardinality({k \in DOMAIN stack : Owner(stack[k])})
    BY DEF OneFlagPerLocal, Owner
  <2>1. stack \in Seq(Frames)
    BY DEF PrmInv, MachineInv, TypeInv, MachineTypeOK
  <2>2. DOMAIN stack = 1 .. (Len(stack) + 1) - 1
    BY <2>1
  <2> QED
    BY <2>2 DEF PrmInv, Place, Before
<1> QED
  BY <1>1, PrmInvariance, PTL

(* Type correctness: there are flags while a call is in progress only.     *)
THEOREM PrmTypes == PrmSpec => []PrmTypeOK
<1>1. PrmInv => PrmTypeOK
  BY DEF PrmInv, MachineInv, TypeInv, TreeInv, TypeOK, PrmTypeOK
<1> QED
  BY <1>1, PrmInvariance, PTL

-----------------------------------------------------------------------------
(* to_xxx_null(). *)

(* The structs that the methods make of others. *)
LEMMA StructTypes ==
    ASSUME NEW a \in Results, NEW b \in Results, NEW T \in ValueTypes
    PROVE  /\ OrAssign(a, b) \in Results
           /\ SumOf(a, b, T) \in Results
           /\ [b EXCEPT !.v = FromArith(@, T)] \in Results
           /\ [b EXCEPT !.v = FromArith(Neg(@, ArithType(T)), T)] \in Results
           /\ \A v \in Values : [null |-> b.null, v |-> v] \in Results
<1>1. a.v \in Values /\ b.v \in Values /\ a.null \in BOOLEAN /\ b.null \in BOOLEAN
  BY DEF Results
<1>2. \A v \in Values, x \in BOOLEAN : [null |-> x, v |-> v] \in Results
  BY DEF Results
<1>3. OrAssign(a, b) \in Results
  <2>1. \A c : BoolValue(c) \in Values
    BY WidthAssumption DEF BoolValue, Values
  <2>2. (a.null \/ b.v # 0) \in BOOLEAN
    BY <1>1
  <2> QED
    BY <1>2, <2>1, <2>2 DEF OrAssign
<1>4. SumOf(a, b, T) \in Results
  BY <1>1, <1>2, ArithmeticTypes DEF SumOf
<1>5. \A v \in Values : [b EXCEPT !.v = v] \in Results
  BY DEF Results
<1> QED
  BY <1>1, <1>2, <1>3, <1>4, <1>5, ArithmeticTypes

(* The struct with another number. *)
LEMMA Renumbered ==
    ASSUME NEW a \in Results, NEW v
    PROVE  /\ [a EXCEPT !.v = v].null = a.null
           /\ ~a.null => [a EXCEPT !.v = v] = Value(v)
<1>1. [a EXCEPT !.v = v] = [null |-> a.null, v |-> v]
  BY DEF Results
<1>2. a.null \in BOOLEAN
  BY DEF Results
<1> QED
  BY <1>1, <1>2 DEF Value

(* A literal's struct. *)
LEMMA NewLeafTypes ==
    ASSUME NEW it \in ItemRecord, NEW T \in ValueTypes, it.kind \in LeafKinds
    PROVE  NewLeafResult(it, T) \in Results
<1>1. it.val \in Int
  BY DEF ItemRecord
<1>2. /\ Trunc(it.val) \in Int
      /\ ToInt32(it.val) \in Int
      /\ ToInt32(Trunc(it.val)) \in Int
  BY <1>1, ConversionTypes
<1>3. ToBool(it.val) \in Int /\ ToBool(Trunc(it.val)) \in Int
  BY <1>1, <1>2, ConversionTypes, WidthAssumption
<1>4. /\ NewLeafInt(it.val, T) \in Int
      /\ NewLeafReal(it.val, T) \in Int
      /\ NewLeafDecimal(it.val, T) \in Int
  BY <1>1, <1>2, <1>3 DEF NewLeafInt, NewLeafReal, NewLeafDecimal
<1> QED
  BY <1>1, <1>4, AnswerTypes DEF NewLeafResult, LeafKinds

(* A literal answers its value, unless it is asked for a decimal it has no *)
(* exact one of.                                                           *)
LEMMA NewLeafExact ==
    ASSUME NEW i \in DOMAIN LeafPool, NEW T \in ValueTypes,
           T = "decimal" => Leaf(LeafPool[i]).type \in DecimalTypes
    PROVE  Norm(NewLeafResult(Leaf(LeafPool[i]), T)) = LeafSem(Leaf(LeafPool[i]), T)
<1> DEFINE l  == LeafPool[i]
           it == Leaf(l)
<1>1. l \in [kind : LeafKinds, val : Int]
  <2>1. LeafPool \in Seq([kind : LeafKinds, val : Int])
    BY TreeAssumption
  <2> QED
    BY <2>1, LenProperties
<1>2. it.kind = l.kind /\ it.val = l.val /\ it.type = LeafType(l.kind)
  BY DEF Leaf
<1>3. l.kind = "bool" => l.val \in {0, One}
  BY TreeAssumption
<1>4. l.kind = "int" => l.val % One = 0
  BY TreeAssumption
<1>5. T \in {"bool", "int32", "longlong", "double", "decimal"}
  BY DEF ValueTypes
<1>6. T = "decimal" => l.kind # "real"
  BY <1>2 DEF LeafType, DecimalTypes, MYSQL_TYPE_NULL, MYSQL_TYPE_BOOL,
              MYSQL_TYPE_LONGLONG, MYSQL_TYPE_DOUBLE, MYSQL_TYPE_NEWDECIMAL
<1> HIDE DEF l, it
<1>7. NewLeafResult(it, T) = LeafSem(it, T)
  <2>1. CASE l.kind = "null"
    BY <1>2, <2>1 DEF NewLeafResult, LeafSem
  <2>2. CASE l.kind = "bool"
    <3>1. LeafSem(it, T) = Value(l.val)
      BY <1>2, <1>3, <2>2, BoolExact DEF LeafSem
    <3> QED
      BY <1>2, <2>2, <3>1 DEF NewLeafResult
  <2>3. CASE l.kind = "int"
    <3>1. Trunc(l.val) = l.val
      BY <1>1, <1>4, <2>3, TruncWhole
    <3> QED
      BY <1>2, <1>5, <2>3, <3>1 DEF NewLeafResult, NewLeafInt, LeafSem
  <2>4. CASE l.kind = "real"
    BY <1>2, <1>5, <1>6, <2>4 DEF NewLeafResult, NewLeafReal, LeafSem
  <2>5. CASE l.kind = "decimal"
    BY <1>2, <1>5, <2>5 DEF NewLeafResult, NewLeafDecimal, LeafSem
  <2> QED
    BY <1>1, <2>1, <2>2, <2>3, <2>4, <2>5 DEF LeafKinds
<1>8. \A r : Norm(LeafSem(it, r)) = LeafSem(it, r)
  BY NormIs, Zenon DEF LeafSem
<1> QED
  BY <1>7, <1>8 DEF it, l

-----------------------------------------------------------------------------
(* The invariant of to_xxx_null(). *)

NoOr     == Free(OfKind({"or"}))
NoNull   == Free(OfKind({"null"}))
NewScope == NoOr \cup NoNull

(* Without NULL an OR that has seen no true argument remembers FALSE. *)
SeenFalse(f) ==
    items[f.n].kind = "or" /\ f.i # 0 =>
      /\ \A j \in 1 .. f.i - 1 : ~IsTrue(ArgSem(f, j))
      /\ f.i >= 2 => f.acc = Value(0)

NewInv ==
    /\ MachineInv
    /\ Linked
    /\ SafeCalls
    /\ req.n \in NewScope =>
         FirstCalls /\ CoalesceCalls /\ (mode = "ret" => Norm(ret) = Wanted)
    /\ req.n \in NoNull => \A k \in DOMAIN stack : SeenFalse(stack[k])

(* What the scope of the frame at work is. *)
LEMMA NewScoped ==
    ASSUME MachineInv, stack # <<>>
    PROVE  /\ req.n \in NewScope /\ Callee.kind = "or" => req.n \in NoNull
           /\ req.n \in NoNull =>
                \A j \in 1 .. Last :
                  ~ArgSem(Top, j).null /\ ArgSem(Top, j) = Value(ArgSem(Top, j).v)
<1>1. /\ Len(stack) \in DOMAIN stack /\ stack[Len(stack)] = Top
      /\ Top.n \in DOMAIN items /\ Top.t \in ValueTypes /\ Callee \in ItemRecord
      /\ DOMAIN Callee.args = 1 .. Last
      /\ \A j \in 1 .. Last : ArgSem(Top, j) \in Answers
  BY AtWork
<1>2. \A ks : OfKind(ks) \in SUBSET DOMAIN items
  BY DEF OfKind
<1>3. \A ks : req.n \in Free(OfKind(ks)) => Top.n \in Free(OfKind(ks))
  BY <1>1, <1>2 DEF MachineInv, InOrder
<1>4. req.n \in NoOr => Callee.kind # "or"
  BY <1>1, <1>3, FreeParts DEF NoOr, OfKind, Callee
<1>5. ASSUME req.n \in NoNull, NEW j \in 1 .. Last
      PROVE  ~ArgSem(Top, j).null
  <2>1. Callee.args[j] \in NoNull
    BY <1>1, <1>3, <1>5, FreeParts DEF NoNull, Callee
  <2>2. ArgType(Callee, Top.t, j) \in ValueTypes
    BY <1>1, ArgTypes
  <2> QED
    BY <2>1, <2>2 DEF MachineInv, TreeFacts, NullFree, NoNull, ArgSem, Callee
<1>6. \A r \in Answers : ~r.null => r = Value(r.v)
  BY NormIs DEF Answers
<1> QED
  BY <1>1, <1>4, <1>5, <1>6 DEF NewScope

(* What the frame at work has been handed. *)
LEMMA NewHanded ==
    ASSUME NewInv, stack # <<>>, mode = "ret"
    PROVE  /\ Top.i \in 1 .. Last
           /\ ret \in Results
           /\ req.n \in NewScope =>
                /\ ret.null <=> ArgSem(Top, Top.i).null
                /\ ret.null => ArgSem(Top, Top.i) = SqlNull
                /\ ~ret.null => ArgSem(Top, Top.i) = ret
                /\ Norm(ret) = ArgSem(Top, Top.i)
<1>1. req.n \in NewScope => Norm(ret) = ArgSem(Top, Top.i)
  BY DEF NewInv, Wanted
<1>2. Top.i \in 1 .. Last /\ ret \in Results
  BY AtWork DEF NewInv
<1> QED
  BY <1>1, <1>2, NormIs

(* What it knows of the arguments before. *)
LEMMA NewKnows ==
    ASSUME NewInv, stack # <<>>
    PROVE  /\ req.n \in NewScope /\ Callee.kind \in {"add", "eq"} /\ Top.i = 2 =>
                ~ArgSem(Top, 1).null /\ Top.acc = ArgSem(Top, 1)
           /\ req.n \in NewScope /\ Callee.kind = "coalesce" =>
                \A j \in 1 .. Top.i - 1 : ArgSem(Top, j).null
           /\ req.n \in NoNull => SeenFalse(Top)
<1>1. Top = stack[Len(stack)] /\ Len(stack) \in DOMAIN stack
  BY AtWork DEF NewInv
<1>2. /\ req.n \in NewScope => KnowsFirst(Top) /\ KnowsCoalesce(Top)
      /\ req.n \in NoNull => SeenFalse(Top)
  BY <1>1, Zenon DEF NewInv, FirstCalls, CoalesceCalls
<1> QED
  BY <1>2 DEF KnowsFirst, KnowsCoalesce, Callee

(* The scopes are those of the items. *)
LEMMA ScopeKept ==
    ASSUME items' = items
    PROVE  NoOr' = NoOr /\ NoNull' = NoNull /\ NewScope' = NewScope
BY DEF NoOr, NoNull, NewScope, Free, Closed, OfKind

(* An answer that is owed. *)
LEMMA NewReturn ==
    ASSUME NewInv, stack # <<>>, NEW r \in Results, Return(r),
           req.n \in NewScope => Norm(r) = Owed
    PROVE  NewInv'
<1>1. /\ MachineInv'
      /\ mode' = "ret" /\ ret' = r /\ UNCHANGED <<items, sem, req>>
      /\ DOMAIN stack' = 1 .. Len(stack) - 1
      /\ \A k \in 1 .. Len(stack) - 1 : stack'[k] = stack[k]
      /\ Wanted' = Owed
      /\ Linked' /\ SafeCalls'
      /\ FirstCalls => FirstCalls'
      /\ CoalesceCalls => CoalesceCalls'
  BY ReturnMove DEF NewInv
<1>2. \A k \in DOMAIN stack' : k \in DOMAIN stack /\ stack'[k] = stack[k]
  BY <1>1, AtWork DEF NewInv
<1>3. NoNull' = NoNull /\ NewScope' = NewScope
  BY <1>1, ScopeKept
<1>4. ASSUME (req.n \in NoNull)', NEW k \in DOMAIN stack'
      PROVE  SeenFalse(stack[k])'
  <2>1. SeenFalse(stack[k])
    BY <1>1, <1>2, <1>3, <1>4 DEF NewInv
  <2> QED
    BY <1>1, <1>2, <2>1, Zenon DEF SeenFalse, ArgSem, IsTrue
<1>5. Norm(ret)' = Norm(r)
  BY <1>1 DEF Norm, SqlNull
<1> QED
  BY <1>1, <1>3, <1>4, <1>5 DEF NewInv

(* A call of the next argument, that remembers what it will need. *)
LEMMA NewCall ==
    ASSUME NewInv, stack # <<>>, NEW i \in 1 .. Last, NEW a \in Results, CallArg(i, a),
           req.n \in NewScope /\ Callee.kind \in {"add", "eq"} /\ i = 2 =>
             ~ArgSem(Top, 1).null /\ a = ArgSem(Top, 1),
           req.n \in NewScope /\ Callee.kind = "coalesce" =>
             \A m \in 1 .. i - 1 : ArgSem(Top, m).null,
           req.n \in NoNull /\ Callee.kind = "or" =>
             /\ \A m \in 1 .. i - 1 : ~IsTrue(ArgSem(Top, m))
             /\ i >= 2 => a = Value(0)
    PROVE  NewInv'
<1> DEFINE L == Len(stack)
           f == Waiting(i, a)
           g == Begun(i)
<1>1. CallAgain(i, i, a)
  BY DEF CallArg
<1>2. /\ MachineInv'
      /\ mode' = "call" /\ UNCHANGED <<items, sem, req>>
      /\ DOMAIN stack' = 1 .. L + 1
      /\ \A k \in 1 .. L - 1 : stack'[k] = stack[k]
      /\ stack'[L] = f
      /\ stack'[L + 1] = g
      /\ f.n = Top.n /\ f.t = Top.t /\ f.i = i /\ f.acc = a /\ g.i = 0
      /\ Linked' /\ SafeCalls'
  BY <1>1, CallMove DEF NewInv
<1>3. NoNull' = NoNull /\ NewScope' = NewScope
  BY <1>2, ScopeKept
<1>4. req.n \in NewScope => FirstCalls' /\ CoalesceCalls'
  BY <1>1, CallKnows DEF NewInv
<1>5. ASSUME req.n \in NoNull, NEW k \in DOMAIN stack'
      PROVE  SeenFalse(stack[k])'
  <2>1. L \in Nat \ {0} /\ DOMAIN stack = 1 .. L
    BY AtWork DEF NewInv
  <2> HIDE DEF f, g, L
  <2>2. \/ k \in DOMAIN stack /\ stack'[k] = stack[k]
        \/ stack'[k] = f
        \/ stack'[k] = g
    BY <1>2, <2>1
  <2>3. items[f.n] = Callee /\ \A m : ArgSem(f, m) = ArgSem(Top, m)
    BY <1>2 DEF ArgSem, Callee
  <2>4. SeenFalse(f)
    BY <1>2, <1>5, <2>3 DEF SeenFalse
  <2>5. SeenFalse(g)
    BY <1>2 DEF SeenFalse
  <2>6. SeenFalse(stack'[k])
    BY <1>5, <2>2, <2>4, <2>5, Zenon DEF NewInv
  <2> QED
    BY <1>2, <2>6, Zenon DEF SeenFalse, ArgSem, IsTrue
<1> QED
  BY <1>2, <1>3, <1>4, <1>5 DEF NewInv

-----------------------------------------------------------------------------
(* The steps of to_xxx_null(). *)

LEMMA NewLeafStep == NewInv /\ NewLeaf => NewInv'
<1> SUFFICES ASSUME NewInv, NewLeaf PROVE NewInv'
  OBVIOUS
<1>1. stack # <<>> /\ Callee.kind \in LeafKinds /\ Return(NewLeafResult(Callee, Top.t))
  BY DEF NewLeaf, Begin
<1>2. Callee \in ItemRecord /\ Top.t \in ValueTypes /\ Callee = items[Top.n]
  BY <1>1, AtWork DEF NewInv, Callee
<1>3. Owed = LeafSem(Callee, Top.t)
  BY <1>1, Owes DEF NewInv
<1>4. PICK l \in DOMAIN LeafPool : Callee = Leaf(LeafPool[l])
  BY <1>1, Owes DEF NewInv
<1>5. Safe(Top)
  BY <1>1, AtWork DEF NewInv, SafeCalls
<1>6. Norm(NewLeafResult(Callee, Top.t)) = Owed
  BY <1>2, <1>3, <1>4, <1>5, NewLeafExact DEF Safe
<1>7. NewLeafResult(Callee, Top.t) \in Results
  BY <1>1, <1>2, NewLeafTypes
<1> QED
  BY <1>1, <1>6, <1>7, NewReturn

LEMMA NewAddStep == NewInv /\ NewAdd => NewInv'
<1> SUFFICES ASSUME NewInv, NewAdd PROVE NewInv'
  OBVIOUS
<1>1. stack # <<>> /\ Callee.kind = "add"
  BY DEF NewAdd, Begin, After, Returned
<1>2. /\ MachineInv /\ 1 \in 1 .. Last /\ 2 \in 1 .. Last
      /\ Top.acc \in Results /\ ret \in Results /\ Top.t \in ValueTypes
  BY <1>1, AtWork DEF NewInv
<1>3. CASE Begin("add") /\ CallArg(1, SqlNull)
  BY <1>1, <1>2, <1>3, AnswerTypes, NewCall
<1>4. CASE After("add", 1) /\ ret.null /\ Return([ret EXCEPT !.v = FromArith(@, Top.t)])
  <2> DEFINE r == [ret EXCEPT !.v = FromArith(@, Top.t)]
  <2>1. r \in Results
    BY <1>2, StructTypes
  <2>2. r.null
    BY <1>2, <1>4 DEF Results
  <2> HIDE DEF r
  <2>3. req.n \in NewScope => Owed = SqlNull
    BY <1>1, <1>2, <1>4, NewHanded, OwesNumber DEF After, Returned
  <2>4. Return(r)
    BY <1>4 DEF r
  <2> QED
    BY <1>1, <2>1, <2>2, <2>3, <2>4, NormIs, NewReturn
<1>5. CASE After("add", 1) /\ ~ret.null /\ CallArg(2, ret)
  <2>1. req.n \in NewScope => ~ArgSem(Top, 1).null /\ ArgSem(Top, 1) = ret
    BY <1>1, <1>5, NewHanded DEF After, Returned
  <2> QED
    BY <1>1, <1>2, <1>5, <2>1, NewCall
<1>6. CASE After("add", 2) /\ Return(SumOf(Top.acc, ret, Top.t))
  <2> DEFINE v == FromArith(Plus(Top.acc.v, ret.v, ArithType(Top.t)), Top.t)
  <2>1. SumOf(Top.acc, ret, Top.t) \in Results
    BY <1>2, StructTypes
  <2>2. ASSUME req.n \in NewScope
        PROVE  Norm(SumOf(Top.acc, ret, Top.t)) = Owed
    <3>1. ~ArgSem(Top, 1).null /\ ArgSem(Top, 1) = Top.acc
          /\ (ret.null <=> ArgSem(Top, 2).null)
          /\ (~ret.null => ArgSem(Top, 2) = ret)
      BY <1>1, <1>6, <2>2, NewHanded, NewKnows DEF After, Returned
    <3>2. CASE ret.null
      <4>1. SumOf(Top.acc, ret, Top.t).null
        BY <3>2 DEF SumOf
      <4>2. Owed = SqlNull
        BY <1>1, <1>2, <3>1, <3>2, OwesNumber
      <4> QED
        BY <4>1, <4>2, NormIs
    <3>3. CASE ~ret.null
      <4>1. SumOf(Top.acc, ret, Top.t) = Value(v)
        BY <1>2, <3>3 DEF SumOf, Value, Results
      <4>2. Owed = Value(v)
        BY <1>1, <1>2, <3>1, <3>3, OwesNumber
      <4> HIDE DEF v
      <4> QED
        BY <4>1, <4>2, NormIs
    <3> QED
      BY <3>2, <3>3
  <2> QED
    BY <1>1, <1>6, <2>1, <2>2, NewReturn
<1> QED
  BY <1>3, <1>4, <1>5, <1>6 DEF NewAdd

LEMMA NewUminusStep == NewInv /\ NewUminus => NewInv'
<1> SUFFICES ASSUME NewInv, NewUminus PROVE NewInv'
  OBVIOUS
<1>1. stack # <<>> /\ Callee.kind = "uminus"
  BY DEF NewUminus, Begin, After, Returned
<1>2. MachineInv /\ 1 \in 1 .. Last /\ ret \in Results /\ Top.t \in ValueTypes
  BY <1>1, AtWork DEF NewInv
<1>3. CASE Begin("uminus") /\ CallArg(1, SqlNull)
  BY <1>1, <1>2, <1>3, AnswerTypes, NewCall
<1>4. CASE /\ After("uminus", 1)
           /\ Return([ret EXCEPT !.v = FromArith(Neg(@, ArithType(Top.t)), Top.t)])
  <2> DEFINE v == FromArith(Neg(ret.v, ArithType(Top.t)), Top.t)
             r == [ret EXCEPT !.v = FromArith(Neg(@, ArithType(Top.t)), Top.t)]
  <2>1. r \in Results
    BY <1>2, StructTypes
  <2>2. r.null = ret.null /\ (~ret.null => r = Value(v))
    <3>1. r = [ret EXCEPT !.v = v]
      OBVIOUS
    <3> HIDE DEF r, v
    <3> QED
      BY <1>2, <3>1, Renumbered
  <2> HIDE DEF r
  <2>3. ASSUME req.n \in NewScope PROVE Norm(r) = Owed
    <3>1. (ret.null <=> ArgSem(Top, 1).null) /\ (~ret.null => ArgSem(Top, 1) = ret)
      BY <1>1, <1>4, <2>3, NewHanded DEF After, Returned
    <3>2. CASE ret.null
      <4>1. Owed = SqlNull
        BY <1>1, <1>2, <3>1, <3>2, OwesNumber
      <4> QED
        BY <2>2, <3>2, <4>1, NormIs
    <3>3. CASE ~ret.null
      <4>1. Owed = Value(v)
        BY <1>1, <1>2, <3>1, <3>3, OwesNumber
      <4> HIDE DEF v
      <4> QED
        BY <2>2, <3>3, <4>1, NormIs
    <3> QED
      BY <3>2, <3>3
  <2>4. Return(r)
    BY <1>4 DEF r
  <2> QED
    BY <1>1, <2>1, <2>3, <2>4, NewReturn
<1> QED
  BY <1>3, <1>4 DEF NewUminus

(* OR in the scope meets no NULL: what it remembers is FALSE, and a true   *)
(* argument's number is that of TRUE.                                      *)
LEMMA NewOrStep == NewInv /\ NewOr => NewInv'
<1> SUFFICES ASSUME NewInv, NewOr PROVE NewInv'
  OBVIOUS
<1> DEFINE res == IF Top.i = 1 THEN ret ELSE OrAssign(Top.acc, ret)
<1>1. stack # <<>> /\ Callee.kind = "or"
  BY DEF NewOr, Begin, Returned
<1>2. /\ MachineInv /\ 1 \in 1 .. Last /\ Top.acc \in Results /\ ret \in Results
      /\ Last \in Nat /\ Top.i \in Nat /\ Top.n \in DOMAIN items
      /\ Callee \in ItemRecord /\ Top.t \in ValueTypes
  BY <1>1, AtWork DEF NewInv
<1>3. res \in Results
  BY <1>2, StructTypes
<1>4. req.n \in NewScope => req.n \in NoNull
  BY <1>1, <1>2, NewScoped
<1>5. CASE Begin("or") /\ CallArg(1, SqlNull)
  <2>1. 1 .. 1 - 1 = {}
    OBVIOUS
  <2> QED
    BY <1>1, <1>2, <1>5, <2>1, AnswerTypes, NewCall
<1>6. ASSUME Returned("or"), req.n \in NoNull
      PROVE  /\ Top.i \in 1 .. Last
             /\ ArgSem(Top, Top.i) = ret
             /\ ret = Value(ret.v) /\ ret.v \in {0, One}
             /\ SeenFalse(Top)
             /\ \A j \in 1 .. Last : ~ArgSem(Top, j).null
  <2>1. req.n \in NewScope
    BY <1>6 DEF NewScope
  <2>2. Top.i \in 1 .. Last /\ SeenFalse(Top)
    BY <1>1, <1>6, NewHanded, NewKnows DEF Returned
  <2>3. \A j \in 1 .. Last : ~ArgSem(Top, j).null /\ ArgSem(Top, j) = Value(ArgSem(Top, j).v)
    BY <1>1, <1>2, <1>6, NewScoped
  <2>4. ArgSem(Top, Top.i) = ret
    BY <1>1, <1>6, <2>1, <2>2, <2>3, NewHanded DEF Returned
  <2>5. ArgSem(Top, Top.i).v \in {0, One}
    <3>1. ArgType(Callee, Top.t, Top.i) = "bool"
      BY <1>1 DEF ArgType
    <3>2. Arg(Top.i) \in DOMAIN items
      BY <1>1, <1>2, <2>2, AtWork
    <3> QED
      BY <1>2, <3>1, <3>2 DEF MachineInv, TreeFacts, PlainSem, PlainAnswer, ArgSem, Arg, Callee
  <2> QED
    BY <2>2, <2>3, <2>4, <2>5
<1>7. CASE Returned("or") /\ IsTrue(ret) /\ Return(ret)
  <2>1. ASSUME req.n \in NewScope PROVE Norm(ret) = Owed
    <3>1. /\ Top.i \in 1 .. Last /\ ArgSem(Top, Top.i) = ret
          /\ ret = Value(ret.v) /\ ret.v \in {0, One}
      BY <1>4, <1>6, <1>7, <2>1
    <3>2. Owed = Value(One)
      BY <1>1, <1>2, <1>7, <3>1, OwesOr
    <3>3. ret = Value(One)
      BY <1>7, <3>1 DEF IsTrue
    <3> QED
      BY <3>2, <3>3, NormIs
  <2> QED
    BY <1>1, <1>2, <1>7, <2>1, NewReturn
<1>8. ASSUME Returned("or"), ~IsTrue(ret), req.n \in NoNull
      PROVE  /\ res = Value(0)
             /\ \A m \in 1 .. Top.i : ~IsTrue(ArgSem(Top, m))
  <2>1. /\ Top.i \in 1 .. Last /\ ArgSem(Top, Top.i) = ret
        /\ ret = Value(ret.v) /\ SeenFalse(Top)
    BY <1>6, <1>8
  <2>2. ret = Value(0)
    BY <1>8, <2>1, NormIs DEF IsTrue
  <2>3. /\ \A j \in 1 .. Top.i - 1 : ~IsTrue(ArgSem(Top, j))
        /\ Top.i >= 2 => Top.acc = Value(0)
    BY <1>1, <2>1 DEF SeenFalse, Callee
  <2>4. \A m \in 1 .. Top.i : m = Top.i \/ m \in 1 .. Top.i - 1
    BY <2>1
  <2>5. OrAssign(Value(0), Value(0)) = Value(0)
    BY DEF OrAssign, Value, BoolValue
  <2>6. Top.i = 1 \/ Top.i >= 2
    BY <2>1
  <2> QED
    BY <1>8, <2>1, <2>2, <2>3, <2>4, <2>5, <2>6
<1> HIDE DEF res
<1>9. ASSUME Returned("or"), ~IsTrue(ret), Top.i < Last, CallArg(Top.i + 1, res)
      PROVE  NewInv'
  <2>1. PICK i \in 1 .. Last : i = Top.i + 1 /\ i - 1 = Top.i
    BY <1>2, <1>9
  <2> QED
    BY <1>1, <1>3, <1>8, <1>9, <2>1, NewCall
<1>10. ASSUME Returned("or"), ~IsTrue(ret), Top.i = Last, Return(res)
       PROVE  NewInv'
  <2>1. ASSUME req.n \in NewScope PROVE Norm(res) = Owed
    <3>1. \A m \in 1 .. Last : ~IsTrue(ArgSem(Top, m)) /\ ~ArgSem(Top, m).null
      BY <1>4, <1>6, <1>8, <1>10, <2>1
    <3>2. Owed = Value(0)
      BY <1>1, <1>2, <3>1, OwesOr
    <3> QED
      BY <1>4, <1>8, <1>10, <2>1, <3>2, NormIs
  <2> QED
    BY <1>1, <1>3, <1>10, <2>1, NewReturn
<1> QED
  BY <1>5, <1>7, <1>9, <1>10 DEF NewOr, res

LEMMA NewIsnullStep == NewInv /\ NewIsnull => NewInv'
<1> SUFFICES ASSUME NewInv, NewIsnull PROVE NewInv'
  OBVIOUS
<1>1. stack # <<>> /\ Callee.kind = "isnull"
  BY DEF NewIsnull, Begin, After, Returned
<1>2. MachineInv /\ 1 \in 1 .. Last /\ ret \in Results
  BY <1>1, AtWork DEF NewInv
<1>3. Owed = Value(BoolValue(ArgSem(Top, 1).null))
  BY <1>1, <1>2, Owes
<1>4. CASE Begin("isnull") /\ Callee.cmp = MYSQL_TYPE_NULL /\ Return(Value(One))
  <2>1. ArgSem(Top, 1).null
    BY <1>1, <1>2, <1>4, NullArgument
  <2>2. Owed = Value(One)
    BY <1>3, <2>1 DEF BoolValue
  <2> QED
    BY <1>1, <1>4, <2>2, AnswerTypes, NormIs, NewReturn
<1>5. CASE Begin("isnull") /\ CallArg(1, SqlNull)
  BY <1>1, <1>2, <1>5, AnswerTypes, NewCall
<1>6. CASE After("isnull", 1) /\ Return(Value(BoolValue(ret.null)))
  <2>1. req.n \in NewScope => (ret.null <=> ArgSem(Top, 1).null)
    BY <1>1, <1>6, NewHanded DEF After, Returned
  <2>2. req.n \in NewScope => BoolValue(ret.null) = BoolValue(ArgSem(Top, 1).null)
    BY <2>1 DEF BoolValue
  <2>3. Value(BoolValue(ret.null)) \in Results
    BY <1>2, AnswerTypes, NormIs
  <2> QED
    BY <1>1, <1>3, <1>6, <2>2, <2>3, NormIs, NewReturn
<1> QED
  BY <1>4, <1>5, <1>6 DEF NewIsnull

LEMMA NewCoalesceStep == NewInv /\ NewCoalesce => NewInv'
<1> SUFFICES ASSUME NewInv, NewCoalesce PROVE NewInv'
  OBVIOUS
<1>1. stack # <<>> /\ Callee.kind = "coalesce"
  BY DEF NewCoalesce, Begin, Returned
<1>2. MachineInv /\ 1 \in 1 .. Last /\ Last \in Nat /\ Top.i \in Nat /\ ret \in Results
  BY <1>1, AtWork DEF NewInv
<1>3. CASE Begin("coalesce") /\ CallArg(1, SqlNull)
  <2>1. 1 .. 1 - 1 = {}
    OBVIOUS
  <2> QED
    BY <1>1, <1>2, <1>3, <2>1, AnswerTypes, NewCall
<1>4. ASSUME Returned("coalesce"), req.n \in NewScope
      PROVE  /\ Top.i \in 1 .. Last
             /\ ret.null <=> ArgSem(Top, Top.i).null
             /\ ~ret.null => ArgSem(Top, Top.i) = ret
             /\ \A j \in 1 .. Top.i - 1 : ArgSem(Top, j).null
             /\ \A j \in 1 .. Top.i : j = Top.i \/ j \in 1 .. Top.i - 1
  BY <1>1, <1>2, <1>4, NewHanded, NewKnows DEF Returned
<1>5. CASE Returned("coalesce") /\ ret.null /\ Top.i < Last /\ CallArg(Top.i + 1, SqlNull)
  <2>1. PICK i \in 1 .. Last : i = Top.i + 1 /\ i - 1 = Top.i
    BY <1>2, <1>5
  <2>2. req.n \in NewScope => \A m \in 1 .. i - 1 : ArgSem(Top, m).null
    BY <1>4, <1>5, <2>1
  <2> QED
    BY <1>1, <1>5, <2>1, <2>2, AnswerTypes, NewCall
<1>6. CASE Returned("coalesce") /\ (~ret.null \/ Top.i = Last) /\ Return(ret)
  <2>1. ASSUME req.n \in NewScope PROVE Norm(ret) = Owed
    <3>1. CASE ~ret.null
      <4>1. Owed = ret
        BY <1>1, <1>2, <1>4, <1>6, <2>1, <3>1, OwesCoalesce
      <4> QED
        BY <3>1, <4>1, NormIs
    <3>2. CASE ret.null
      <4>1. \A i \in 1 .. Last : ArgSem(Top, i).null
        BY <1>4, <1>6, <2>1, <3>2
      <4>2. Owed = SqlNull
        BY <1>1, <1>2, <4>1, OwesCoalesce
      <4> QED
        BY <3>2, <4>2, NormIs
    <3> QED
      BY <3>1, <3>2
  <2> QED
    BY <1>1, <1>2, <1>6, <2>1, NewReturn
<1> QED
  BY <1>3, <1>5, <1>6 DEF NewCoalesce

LEMMA NewLastValueStep == NewInv /\ NewLastValue => NewInv'
<1> SUFFICES ASSUME NewInv, NewLastValue PROVE NewInv'
  OBVIOUS
<1>1. stack # <<>> /\ Callee.kind = "last_value"
  BY DEF NewLastValue, Begin, Returned
<1>2. MachineInv /\ 1 \in 1 .. Last /\ Last \in Nat /\ Top.i \in Nat /\ ret \in Results
  BY <1>1, AtWork DEF NewInv
<1>3. CASE Begin("last_value") /\ CallArg(1, SqlNull)
  BY <1>1, <1>2, <1>3, AnswerTypes, NewCall
<1>4. CASE Returned("last_value") /\ Top.i < Last /\ CallArg(Top.i + 1, SqlNull)
  <2>1. PICK i \in 1 .. Last : i = Top.i + 1
    BY <1>2, <1>4
  <2> QED
    BY <1>1, <1>4, <2>1, AnswerTypes, NewCall
<1>5. CASE Returned("last_value") /\ Top.i = Last /\ Return(ret)
  <2>1. req.n \in NewScope => Norm(ret) = ArgSem(Top, Last)
    BY <1>1, <1>5, NewHanded DEF Returned
  <2>2. Owed = ArgSem(Top, Last)
    BY <1>1, <1>2, Owes
  <2> QED
    BY <1>1, <1>2, <1>5, <2>1, <2>2, NewReturn
<1> QED
  BY <1>3, <1>4, <1>5 DEF NewLastValue

LEMMA NewEqStep == NewInv /\ NewEq => NewInv'
<1> SUFFICES ASSUME NewInv, NewEq PROVE NewInv'
  OBVIOUS
<1>1. stack # <<>> /\ Callee.kind = "eq"
  BY DEF NewEq, Begin, After, Returned
<1>2. /\ MachineInv /\ 1 \in 1 .. Last /\ 2 \in 1 .. Last
      /\ Top.acc \in Results /\ ret \in Results /\ Top.t \in ValueTypes
  BY <1>1, AtWork DEF NewInv
<1>3. CASE Begin("eq") /\ CallArg(1, SqlNull)
  BY <1>1, <1>2, <1>3, AnswerTypes, NewCall
<1>4. CASE /\ After("eq", 1)
           /\ ret.null
           /\ Return(IF NativeType(Callee.cmp) = "bool" THEN ret ELSE SqlNull)
  <2> DEFINE r == IF NativeType(Callee.cmp) = "bool" THEN ret ELSE SqlNull
  <2>1. r \in Results /\ r.null
    BY <1>2, <1>4, AnswerTypes, NormIs
  <2>2. req.n \in NewScope => Owed = SqlNull
    BY <1>1, <1>2, <1>4, NewHanded, OwesNumber DEF After, Returned
  <2>3. Return(r)
    BY <1>4
  <2> HIDE DEF r
  <2> QED
    BY <1>1, <2>1, <2>2, <2>3, NormIs, NewReturn
<1>5. CASE After("eq", 1) /\ ~ret.null /\ CallArg(2, ret)
  <2>1. req.n \in NewScope => ~ArgSem(Top, 1).null /\ ArgSem(Top, 1) = ret
    BY <1>1, <1>5, NewHanded DEF After, Returned
  <2> QED
    BY <1>1, <1>2, <1>5, <2>1, NewCall
<1>6. ASSUME NEW r, After("eq", 2), Return(r),
             r = IF Callee.cmp = MYSQL_TYPE_NEWDECIMAL /\ ret.null THEN SqlNull
                 ELSE [null |-> ret.null, v |-> BoolValue(Top.acc.v = ret.v)]
      PROVE  NewInv'
  <2>1. r \in Results
    <3>1. BoolValue(Top.acc.v = ret.v) \in Values
      BY WidthAssumption DEF BoolValue, Values
    <3> QED
      BY <1>2, <1>6, <3>1, AnswerTypes, StructTypes
  <2>2. r.null <=> ret.null
    BY <1>2, <1>6 DEF SqlNull
  <2>3. ~ret.null => r = Value(BoolValue(Top.acc.v = ret.v))
    BY <1>2, <1>6 DEF Value, Results
  <2>4. ASSUME req.n \in NewScope PROVE Norm(r) = Owed
    <3>1. ~ArgSem(Top, 1).null /\ ArgSem(Top, 1) = Top.acc
          /\ (ret.null <=> ArgSem(Top, 2).null)
          /\ (~ret.null => ArgSem(Top, 2) = ret)
      BY <1>1, <1>6, <2>4, NewHanded, NewKnows DEF After, Returned
    <3>2. CASE ret.null
      <4>1. Owed = SqlNull
        BY <1>1, <1>2, <3>1, <3>2, OwesNumber
      <4> QED
        BY <2>2, <3>2, <4>1, NormIs
    <3>3. CASE ~ret.null
      <4>1. Owed = Value(BoolValue(Top.acc.v = ret.v))
        BY <1>1, <1>2, <3>1, <3>3, OwesNumber
      <4> QED
        BY <2>3, <3>3, <4>1, NormIs
    <3> QED
      BY <3>2, <3>3
  <2> QED
    BY <1>1, <1>6, <2>1, <2>4, NewReturn
<1> QED
  BY <1>3, <1>4, <1>5, <1>6 DEF NewEq

(* The driver, and the step that changes nothing. *)
LEMMA NewDriver ==
    ASSUME NewInv, Build \/ Invoke \/ Leave \/ UNCHANGED newVars
    PROVE  NewInv'
<1>1. MachineInv
  BY DEF NewInv
<1>2. ASSUME (stack = <<>>)' PROVE DOMAIN stack' = {}
  BY <1>2, EmptySeq
<1>3. CASE Build
  <2>1. MachineInv' /\ Quiet' /\ mode' = "idle"
    BY <1>1, <1>3, BuildMove DEF machineVars
  <2> QED
    BY <1>2, <2>1 DEF NewInv, Quiet
<1>4. CASE Invoke
  <2>1. PICK n \in DOMAIN items, T \in ValueTypes : Enter(n, T)
    BY <1>4 DEF Invoke
  <2>2. Ask(n, T) /\ (T = "decimal" => items[n].type \in DecimalTypes)
    BY <1>1, <2>1, EnterSafe DEF Enter, MachineInv, TypeInv
  <2>3. /\ MachineInv' /\ mode' = "call" /\ Linked' /\ SafeCalls' /\ FirstCalls'
        /\ CoalesceCalls' /\ DOMAIN stack' = 1 .. 1 /\ stack'[1].i = 0
    BY <1>1, <2>2, AskMove
  <2>4. \A k \in DOMAIN stack' : stack'[k].i = 0
    BY <2>3
  <2>5. \A k \in DOMAIN stack' : SeenFalse(stack[k])'
    BY <2>4 DEF SeenFalse
  <2> QED
    BY <2>3, <2>5 DEF NewInv
<1>5. CASE Leave
  <2>1. MachineInv' /\ Quiet' /\ mode' = "idle"
    BY <1>1, <1>5, LeaveMove
  <2> QED
    BY <1>2, <2>1 DEF NewInv, Quiet
<1>6. CASE UNCHANGED newVars
  <2>1. UNCHANGED treeVars /\ UNCHANGED machineVars
    BY <1>6 DEF newVars, treeVars, machineVars
  <2>2. /\ MachineInv' /\ (Linked => Linked') /\ (SafeCalls => SafeCalls')
        /\ (FirstCalls => FirstCalls') /\ (CoalesceCalls => CoalesceCalls')
        /\ UNCHANGED <<items, sem, stack, mode, ret, req>>
        /\ Wanted' = Wanted
    BY <1>1, <2>1, StutterMove
  <2>3. NoNull' = NoNull /\ NewScope' = NewScope
    BY <2>2, ScopeKept
  <2>4. \A k \in DOMAIN stack : SeenFalse(stack[k]) => SeenFalse(stack[k])'
    BY <2>2, Zenon DEF SeenFalse, ArgSem, IsTrue
  <2>5. Norm(ret)' = Norm(ret)
    BY <2>2 DEF Norm, SqlNull
  <2> QED
    BY <2>2, <2>3, <2>4, <2>5 DEF NewInv
<1> QED
  BY <1>3, <1>4, <1>5, <1>6

LEMMA NewStart == NewInit => NewInv
<1> SUFFICES ASSUME NewInit PROVE NewInv
  OBVIOUS
<1>1. MachineInv /\ Quiet /\ mode = "idle"
  BY InitMove DEF NewInit
<1>2. DOMAIN stack = {}
  BY <1>1, EmptySeq DEF Quiet
<1> QED
  BY <1>1, <1>2 DEF NewInv, Quiet

LEMMA NewSteps == NewInv /\ NewStep => NewInv'
BY NewLeafStep, NewAddStep, NewUminusStep, NewOrStep, NewIsnullStep,
   NewCoalesceStep, NewLastValueStep, NewEqStep DEF NewStep

LEMMA NewKept == NewInv /\ [NewNext]_newVars => NewInv'
BY NewSteps, NewDriver DEF NewNext

(* Every reachable state satisfies NewInv. *)
THEOREM NewInvariance == NewSpec => []NewInv
BY NewStart, NewKept, PTL DEF NewSpec

LEMMA NewRight == NewInv => NewAnswerCorrect
BY DEF NewInv, Wanted, NewAnswerCorrect, NewScope, NoOr, NoNull

(* to_xxx_null() answers what SQL says of any expression without OR, and   *)
(* of any expression without NULL.                                         *)
THEOREM NewIsCorrect == NewSpec => []NewAnswerCorrect
BY NewRight, NewInvariance, PTL

(* Every struct that is returned is a flag and a number, the number of a   *)
(* NULL included, whatever is calculated with it.                          *)
THEOREM NewTypes == NewSpec => []TypeOK
<1>1. NewInv => TypeOK
  BY DEF NewInv, MachineInv, TypeInv, TreeInv, TypeOK
<1> QED
  BY <1>1, NewInvariance, PTL

-----------------------------------------------------------------------------
(* The items of namespace variant. *)

(* The types that arise in namespace variant. *)
IntegerTypes == {MYSQL_TYPE_BOOL, MYSQL_TYPE_LONGLONG}
Integral(n) == items[n].type \in IntegerTypes /\ items[n].cmp \in IntegerTypes

(* Merging them gives one of them. *)
LEMMA IntegersMerge ==
    ASSUME TreeInv, NEW n \in Free(Virtual),
           \A i \in DOMAIN items[n].args : Integral(items[n].args[i])
    PROVE  Integral(n)
<1> DEFINE it == items[n]
           ts == [i \in DOMAIN it.args |-> items[it.args[i]].type]
<1>1. n \in DOMAIN items /\ n \notin Virtual
  BY FreeParts
<1>2. it \in ItemRecord /\ DOMAIN it.args = 1 .. Len(it.args) /\ Len(it.args) \in Nat
      /\ (it.kind \in FuncKinds => Len(it.args) \in Arities[it.kind])
  BY <1>1, Arguments
<1>3. it.kind \in VariantKinds
  BY <1>1, <1>2 DEF Virtual, OfKind, ItemRecord
<1>4. CASE \E i \in DOMAIN LeafPool : it = Leaf(LeafPool[i])
  <2>1. it.type = LeafType(it.kind) /\ it.cmp = LeafType(it.kind)
    BY <1>4 DEF Leaf
  <2>2. it.kind = "int"
    <3>1. PICK i \in DOMAIN LeafPool : it = Leaf(LeafPool[i])
      BY <1>4
    <3>2. LeafPool[i] \in [kind : LeafKinds, val : Int]
      <4>1. LeafPool \in Seq([kind : LeafKinds, val : Int])
        BY TreeAssumption
      <4> QED
        BY <4>1, LenProperties
    <3>3. it.kind \in LeafKinds
      BY <3>1, <3>2 DEF Leaf
    <3> QED
      BY <1>3, <3>3 DEF LeafKinds, VariantKinds
  <2> QED
    BY <2>1, <2>2 DEF LeafType, Integral, IntegerTypes
<1>5. CASE it.kind \in FuncKinds /\ it = FuncItem(it.kind, it.args)
  <2>1. it.kind \in {"add", "uminus", "isnull"}
    BY <1>3, <1>5 DEF VariantKinds, FuncKinds
  <2>2. Len(it.args) \in {1, 2}
    BY <1>2, <1>5, <2>1, ArityOf
  <2>3. PICK m \in {1, 2} : Len(it.args) = m
    BY <2>2
  <2>4. ts \in [1 .. m -> IntegerTypes] /\ m \in Nat
    BY <1>2, <2>3 DEF Integral
  <2>5. it.cmp = Hybrid_field_type(ts) /\ it.type = FuncType(it.kind, ts)
    BY <1>5 DEF FuncItem
  <2> HIDE DEF ts
  <2>6. Len(ts) = m
    BY <2>4, FunctionIsSeq
  <2>7. Hybrid_field_type(ts) \in IntegerTypes
    <3>1. CASE m = 1
      <4>1. Hybrid_field_type(ts) = ts[1]
        BY <2>6, <3>1 DEF Hybrid_field_type
      <4> QED
        BY <2>4, <3>1, <4>1
    <3>2. CASE m = 2
      <4>1. Hybrid_field_type(ts) = Hybrid2(ts[1], ts[2])
        BY <2>6, <3>2 DEF Hybrid_field_type
      <4>2. ts[1] \in IntegerTypes /\ ts[2] \in IntegerTypes
        BY <2>4, <3>2
      <4> QED
        BY <4>1, <4>2 DEF Hybrid2, IntegerTypes, MYSQL_TYPE_NULL, MYSQL_TYPE_BOOL,
                          MYSQL_TYPE_LONGLONG, MYSQL_TYPE_DOUBLE
    <3> QED
      BY <2>3, <3>1, <3>2
  <2>8. FuncType(it.kind, ts) \in IntegerTypes
    BY <2>1, <2>7 DEF FuncType, IntegerTypes
  <2> QED
    BY <2>5, <2>7, <2>8 DEF Integral
<1>6. Merged(n)
  BY <1>1 DEF TreeInv
<1> QED
  BY <1>4, <1>5, <1>6 DEF Merged

Merging ==
    \A n \in Free(Virtual) :
        (\A i \in DOMAIN items[n].args : Integral(items[n].args[i])) => Integral(n)

LEMMA MergingIsIntegral == TreeInv => Merging
BY IntegersMerge DEF Merging

OnlyIntegers == \A n \in Free(Virtual) : Integral(n)

LEMMA IntegersInit == TreeInit => OnlyIntegers
<1> SUFFICES ASSUME TreeInit, NEW n \in Free(Virtual) PROVE Integral(n)
  BY DEF OnlyIntegers
<1>1. n \in DOMAIN items /\ TreeInv
  BY FreeParts, TreeInitInv
<1>2. items[n].args = <<>>
  BY <1>1 DEF TreeInit, Leaf
<1>3. DOMAIN items[n].args = {}
  BY <1>2
<1> QED
  BY <1>1, <1>3, IntegersMerge

LEMMA IntegersConstruct ==
    ASSUME TreeInv, TreeInv', OnlyIntegers,
           Len(items) \in Nat,
           DOMAIN items = 1 .. Len(items),
           DOMAIN items' = 1 .. Len(items) + 1,
           \A n \in DOMAIN items : items'[n] = items[n]
    PROVE  OnlyIntegers'
<1>1. \A m \in DOMAIN items : m \in DOMAIN items' /\ items'[m] = items[m]
  OBVIOUS
<1>2. \A m \in DOMAIN items : m \in Free(Virtual)' => m \in Free(Virtual)
  BY <1>1, FreeBefore DEF Virtual
<1>3. ASSUME NEW n \in DOMAIN items, n \in Free(Virtual)' PROVE Integral(n)'
  BY <1>1, <1>2, <1>3 DEF OnlyIntegers, Integral
<1>4. (TreeInv => Merging)'
  BY MergingIsIntegral, PTL
<1>5. ASSUME NEW n \in Free(Virtual)' PROVE Integral(n)'
  <2>1. n \in DOMAIN items' /\ \A i \in DOMAIN items'[n].args : items'[n].args[i] \in Free(Virtual)'
    <3>1. PICK S \in SUBSET (DOMAIN items' \ Virtual') : Closed(S)' /\ n \in S
      BY DEF Free
    <3>2. \A i \in DOMAIN items'[n].args : items'[n].args[i] \in S
      BY <3>1 DEF Closed
    <3> QED
      BY <3>1, <3>2 DEF Free
  <2>2. \A i \in DOMAIN items'[n].args : items'[n].args[i] \in 1 .. n - 1
    <3>1. ItemOK(items[n], n)'
      BY <2>1 DEF TreeInv, TreeTypeOK
    <3>2. items'[n].kind \in LeafKinds \cup FuncKinds /\ DOMAIN <<>> = {}
      BY <3>1 DEF ItemOK, ItemRecord
    <3> QED
      BY <3>1, <3>2 DEF ItemOK
  <2>3. \A i \in DOMAIN items'[n].args : items'[n].args[i] \in DOMAIN items
    BY <2>1, <2>2
  <2>4. \A i \in DOMAIN items'[n].args : Integral(items[n].args[i])'
    BY <1>3, <2>1, <2>3
  <2> QED
    BY <1>4, <2>4 DEF Merging
<1> QED
  BY <1>5 DEF OnlyIntegers

(* The invariant of namespace variant. *)
VariantScope == Free(Negations)

VariantInv ==
    /\ MachineInv
    /\ Linked
    /\ OnlyIntegers
    /\ mode # "idle" => req.n \in Free(Virtual)
    /\ req.n \in VariantScope => FirstCalls /\ (mode = "ret" => Norm(ret) = Wanted)

(* The types and the scopes are those of the items. *)
LEMMA VariantKept ==
    ASSUME items' = items
    PROVE  /\ Free(Virtual)' = Free(Virtual)
           /\ VariantScope' = VariantScope
           /\ OnlyIntegers => OnlyIntegers'
BY DEF VariantScope, Negations, Virtual, Free, Closed, OfKind, OnlyIntegers, Integral

(* What the frame at work has been handed, and what it knows. *)
LEMMA VariantHanded ==
    ASSUME VariantInv, stack # <<>>, req.n \in VariantScope
    PROVE  /\ Callee.kind # "uminus"
           /\ mode = "ret" =>
                /\ ret.null <=> ArgSem(Top, Top.i).null
                /\ ~ret.null => ArgSem(Top, Top.i) = ret
           /\ Callee.kind = "add" /\ Top.i = 2 =>
                ~ArgSem(Top, 1).null /\ Top.acc = ArgSem(Top, 1)
<1>1. Top = stack[Len(stack)] /\ Len(stack) \in DOMAIN stack /\ ret \in Results
      /\ Top.n \in DOMAIN items
  BY AtWork DEF VariantInv
<1>2. Negations \in SUBSET DOMAIN items
  BY DEF Negations, OfKind
<1>3. Top.n \in Free(Negations)
  BY <1>1, <1>2 DEF VariantInv, MachineInv, InOrder, VariantScope
<1>4. Callee.kind # "uminus"
  BY <1>1, <1>3, FreeParts DEF Negations, OfKind, Callee
<1>5. mode = "ret" => Norm(ret) = ArgSem(Top, Top.i)
  BY DEF VariantInv, Wanted
<1>6. KnowsFirst(Top)
  BY <1>1, Zenon DEF VariantInv, FirstCalls
<1> QED
  BY <1>1, <1>4, <1>5, <1>6, NormIs DEF KnowsFirst, Callee

LEMMA VariantReturn ==
    ASSUME VariantInv, stack # <<>>, NEW r \in Results, Return(r),
           req.n \in VariantScope => Norm(r) = Owed
    PROVE  VariantInv'
<1>1. /\ MachineInv'
      /\ mode' = "ret" /\ ret' = r /\ UNCHANGED <<items, sem, req>>
      /\ Wanted' = Owed
      /\ Linked'
      /\ FirstCalls => FirstCalls'
  BY ReturnMove DEF VariantInv
<1>2. /\ Free(Virtual)' = Free(Virtual)
      /\ VariantScope' = VariantScope
      /\ OnlyIntegers'
  BY <1>1, VariantKept DEF VariantInv
<1>3. mode # "idle"
  BY DEF VariantInv, MachineInv, InOrder, CallsMatchMode
<1>4. Norm(ret)' = Norm(r)
  BY <1>1 DEF Norm, SqlNull
<1> QED
  BY <1>1, <1>2, <1>3, <1>4 DEF VariantInv

LEMMA VariantCall ==
    ASSUME VariantInv, stack # <<>>, NEW i \in 1 .. Last, NEW a \in Results, CallArg(i, a),
           Callee.kind # "coalesce",
           req.n \in VariantScope /\ Callee.kind \in {"add", "eq"} /\ i = 2 =>
             ~ArgSem(Top, 1).null /\ a = ArgSem(Top, 1)
    PROVE  VariantInv'
<1>1. CallAgain(i, i, a)
  BY DEF CallArg
<1>2. /\ MachineInv'
      /\ mode' = "call" /\ UNCHANGED <<items, sem, req>>
      /\ Linked'
  BY <1>1, CallMove DEF VariantInv
<1>3. /\ Free(Virtual)' = Free(Virtual)
      /\ VariantScope' = VariantScope
      /\ OnlyIntegers'
  BY <1>2, VariantKept DEF VariantInv
<1>4. req.n \in VariantScope => FirstCalls'
  BY <1>1, CallKnows DEF VariantInv
<1>5. mode # "idle"
  BY DEF VariantInv, MachineInv, InOrder, CallsMatchMode
<1> QED
  BY <1>2, <1>3, <1>4, <1>5 DEF VariantInv

LEMMA VariantIntStep == VariantInv /\ VariantInt => VariantInv'
<1> SUFFICES ASSUME VariantInv, VariantInt PROVE VariantInv'
  OBVIOUS
<1> DEFINE w == CASE Top.t = "bool"  -> ToBool(Callee.val)
                  [] Top.t = "int32" -> ToInt32(Callee.val)
                  [] OTHER           -> Callee.val
<1>1. stack # <<>> /\ Callee.kind = "int" /\ Return(Value(w))
  BY DEF VariantInt, Begin
<1>2. Callee \in ItemRecord /\ Top.t \in ValueTypes
  BY <1>1, AtWork DEF VariantInv
<1>3. PICK l \in DOMAIN LeafPool : Callee = Leaf(LeafPool[l])
  BY <1>1, Owes DEF VariantInv, LeafKinds
<1>4. Callee.val \in Int /\ Callee.val % One = 0
  <2>1. LeafPool[l].kind = "int" /\ LeafPool[l].val = Callee.val
    BY <1>1, <1>3 DEF Leaf
  <2> QED
    BY <1>2, <2>1, TreeAssumption DEF ItemRecord
<1>5. Trunc(Callee.val) = Callee.val
  BY <1>4, TruncWhole
<1>6. Owed = LeafSem(Callee, Top.t)
  BY <1>1, Owes DEF VariantInv, LeafKinds
<1>7. LeafSem(Callee, Top.t) = Value(w)
  BY <1>1, <1>5 DEF LeafSem
<1>8. w \in Int
  BY <1>4, ConversionTypes, WidthAssumption
<1> HIDE DEF w
<1> QED
  BY <1>1, <1>6, <1>7, <1>8, NormIs, AnswerTypes, VariantReturn

LEMMA VariantAddStep == VariantInv /\ VariantAdd => VariantInv'
<1> SUFFICES ASSUME VariantInv, VariantAdd PROVE VariantInv'
  OBVIOUS
<1>1. stack # <<>> /\ Callee.kind = "add"
  BY DEF VariantAdd, Begin, After, Returned
<1>2. /\ MachineInv /\ 1 \in 1 .. Last /\ 2 \in 1 .. Last
      /\ Top.acc \in Results /\ ret \in Results /\ Top.t \in ValueTypes
  BY <1>1, AtWork DEF VariantInv
<1>3. CASE Begin("add") /\ CallArg(1, SqlNull)
  BY <1>1, <1>2, <1>3, AnswerTypes, VariantCall
<1>4. CASE After("add", 1) /\ ret.null /\ Return([ret EXCEPT !.v = FromArith(@, Top.t)])
  <2> DEFINE r == [ret EXCEPT !.v = FromArith(@, Top.t)]
  <2>1. r \in Results
    BY <1>2, StructTypes
  <2>2. r.null
    BY <1>2, <1>4 DEF Results
  <2> HIDE DEF r
  <2>3. req.n \in VariantScope => Owed = SqlNull
    BY <1>1, <1>2, <1>4, VariantHanded, OwesNumber DEF After, Returned
  <2>4. Return(r)
    BY <1>4 DEF r
  <2> QED
    BY <1>1, <2>1, <2>2, <2>3, <2>4, NormIs, VariantReturn
<1>5. CASE After("add", 1) /\ ~ret.null /\ CallArg(2, ret)
  <2>1. req.n \in VariantScope => ~ArgSem(Top, 1).null /\ ArgSem(Top, 1) = ret
    BY <1>1, <1>5, VariantHanded DEF After, Returned
  <2> QED
    BY <1>1, <1>2, <1>5, <2>1, VariantCall
<1>6. ASSUME NEW r, After("add", 2), Return(r),
             r = IF Top.t = "decimal" /\ ret.null THEN ret
                 ELSE [null |-> ret.null,
                       v |-> FromArith(Plus(Top.acc.v, ret.v, ArithType(Top.t)), Top.t)]
      PROVE  VariantInv'
  <2> DEFINE v == FromArith(Plus(Top.acc.v, ret.v, ArithType(Top.t)), Top.t)
  <2>1. r = SumOf(Top.acc, ret, Top.t)
    BY <1>6 DEF SumOf
  <2>2. r \in Results
    BY <1>2, <2>1, StructTypes
  <2>3. r.null = ret.null
    BY <1>6
  <2>4. ~ret.null => r = Value(v)
    BY <1>2, <1>6 DEF Value, Results
  <2> HIDE DEF v
  <2>5. ASSUME req.n \in VariantScope
        PROVE  Norm(r) = Owed
    <3>1. ~ArgSem(Top, 1).null /\ ArgSem(Top, 1) = Top.acc
          /\ (ret.null <=> ArgSem(Top, 2).null)
          /\ (~ret.null => ArgSem(Top, 2) = ret)
      BY <1>1, <1>6, <2>5, VariantHanded DEF After, Returned
    <3>2. CASE ret.null
      <4>1. Owed = SqlNull
        BY <1>1, <1>2, <3>1, <3>2, OwesNumber
      <4> QED
        BY <2>3, <3>2, <4>1, NormIs
    <3>3. CASE ~ret.null
      <4>1. Owed = Value(v)
        BY <1>1, <1>2, <3>1, <3>3, OwesNumber DEF v
      <4> QED
        BY <2>4, <3>3, <4>1, NormIs
    <3> QED
      BY <3>2, <3>3
  <2> QED
    BY <1>1, <1>6, <2>2, <2>5, VariantReturn
<1> QED
  BY <1>3, <1>4, <1>5, <1>6 DEF VariantAdd

LEMMA VariantUminusStep == VariantInv /\ VariantUminus => VariantInv'
<1> SUFFICES ASSUME VariantInv, VariantUminus PROVE VariantInv'
  OBVIOUS
<1>1. stack # <<>> /\ Callee.kind = "uminus"
  BY DEF VariantUminus, Begin, After, Returned
<1>2. MachineInv /\ 1 \in 1 .. Last /\ ret \in Results /\ Top.t \in ValueTypes
  BY <1>1, AtWork DEF VariantInv
<1>3. req.n \notin VariantScope
  BY <1>1, VariantHanded
<1>4. CASE Begin("uminus") /\ CallArg(1, SqlNull)
  BY <1>1, <1>2, <1>4, AnswerTypes, VariantCall
<1>5. CASE After("uminus", 1) /\ Return([ret EXCEPT !.v = FromArith(@, Top.t)])
  <2> DEFINE r == [ret EXCEPT !.v = FromArith(@, Top.t)]
  <2>1. r \in Results
    BY <1>2, StructTypes
  <2>2. Return(r)
    BY <1>5
  <2> HIDE DEF r
  <2> QED
    BY <1>1, <1>3, <2>1, <2>2, VariantReturn
<1> QED
  BY <1>4, <1>5 DEF VariantUminus

LEMMA VariantIsnullStep == VariantInv /\ VariantIsnull => VariantInv'
<1> SUFFICES ASSUME VariantInv, VariantIsnull PROVE VariantInv'
  OBVIOUS
<1>1. stack # <<>> /\ Callee.kind = "isnull"
  BY DEF VariantIsnull, Begin, After, Returned
<1>2. MachineInv /\ 1 \in 1 .. Last /\ ret \in Results
  BY <1>1, AtWork DEF VariantInv
<1>3. Owed = Value(BoolValue(ArgSem(Top, 1).null))
  BY <1>1, <1>2, Owes
<1>4. CASE Begin("isnull") /\ CallArg(1, SqlNull)
  BY <1>1, <1>2, <1>4, AnswerTypes, VariantCall
<1>5. CASE After("isnull", 1) /\ Return(Value(BoolValue(ret.null)))
  <2>1. req.n \in VariantScope => (ret.null <=> ArgSem(Top, 1).null)
    BY <1>1, <1>5, VariantHanded DEF After, Returned
  <2>2. req.n \in VariantScope => BoolValue(ret.null) = BoolValue(ArgSem(Top, 1).null)
    BY <2>1 DEF BoolValue
  <2>3. Value(BoolValue(ret.null)) \in Results
    BY <1>2, AnswerTypes, NormIs
  <2> QED
    BY <1>1, <1>3, <1>5, <2>2, <2>3, NormIs, VariantReturn
<1> QED
  BY <1>4, <1>5 DEF VariantIsnull

(* The driver, and the step that changes nothing. *)
LEMMA VariantDriver ==
    ASSUME VariantInv, VariantBuild \/ VariantInvoke \/ Leave \/ UNCHANGED variantVars
    PROVE  VariantInv'
<1>1. MachineInv
  BY DEF VariantInv
<1>2. CASE VariantBuild
  <2>1. /\ MachineInv' /\ Quiet' /\ mode' = "idle"
        /\ Len(items) \in Nat
        /\ DOMAIN items' = 1 .. Len(items) + 1
        /\ \A n \in DOMAIN items : items'[n] = items[n]
    BY <1>1, <1>2, BuildMove DEF machineVars, VariantBuild
  <2>2. TreeInv /\ TreeInv' /\ DOMAIN items = 1 .. Len(items)
    BY <1>1, <2>1, LenProperties DEF MachineInv, TypeInv, TreeInv, TreeTypeOK
  <2>3. OnlyIntegers'
    BY <2>1, <2>2, IntegersConstruct DEF VariantInv
  <2> QED
    BY <2>1, <2>3 DEF VariantInv, Quiet
<1>3. CASE VariantInvoke
  <2>1. PICK n \in Free(Virtual), T \in ValueTypes : Ask(n, T)
    BY <1>3 DEF VariantInvoke
  <2>2. n \in DOMAIN items
    BY FreeParts
  <2>3. /\ MachineInv' /\ mode' = "call" /\ Linked' /\ FirstCalls'
        /\ UNCHANGED items /\ req'.n = n
    BY <1>1, <2>1, <2>2, AskMove
  <2>4. Free(Virtual)' = Free(Virtual) /\ OnlyIntegers'
    BY <2>3, VariantKept DEF VariantInv
  <2> QED
    BY <2>1, <2>3, <2>4 DEF VariantInv
<1>4. CASE Leave
  <2>1. MachineInv' /\ Quiet' /\ mode' = "idle" /\ UNCHANGED items
    BY <1>1, <1>4, LeaveMove
  <2> QED
    BY <2>1, VariantKept DEF VariantInv, Quiet
<1>5. CASE UNCHANGED variantVars
  <2>1. UNCHANGED treeVars /\ UNCHANGED machineVars
    BY <1>5 DEF variantVars, treeVars, machineVars
  <2>2. /\ MachineInv' /\ (Linked => Linked') /\ (FirstCalls => FirstCalls')
        /\ UNCHANGED <<items, mode, ret, req>>
        /\ Wanted' = Wanted
    BY <1>1, <2>1, StutterMove
  <2>3. /\ Free(Virtual)' = Free(Virtual)
        /\ VariantScope' = VariantScope
        /\ OnlyIntegers'
    BY <2>2, VariantKept DEF VariantInv
  <2>4. Norm(ret)' = Norm(ret)
    BY <2>2 DEF Norm, SqlNull
  <2> QED
    BY <2>2, <2>3, <2>4 DEF VariantInv
<1> QED
  BY <1>2, <1>3, <1>4, <1>5

(* Every reachable state satisfies VariantInv. *)
THEOREM VariantInvariance == VariantSpec => []VariantInv
<1>1. VariantInit => VariantInv
  <2> SUFFICES ASSUME VariantInit PROVE VariantInv
    OBVIOUS
  <2>1. MachineInv /\ Quiet /\ mode = "idle"
    BY InitMove DEF VariantInit
  <2>2. OnlyIntegers
    BY IntegersInit DEF VariantInit
  <2> QED
    BY <2>1, <2>2 DEF VariantInv, Quiet
<1>2. VariantInv /\ [VariantNext]_variantVars => VariantInv'
  <2> SUFFICES ASSUME VariantInv, [VariantNext]_variantVars PROVE VariantInv'
    OBVIOUS
  <2>1. CASE VariantStep
    BY <2>1, VariantIntStep, VariantAddStep, VariantUminusStep, VariantIsnullStep
       DEF VariantStep
  <2>2. CASE VariantBuild \/ VariantInvoke \/ Leave \/ UNCHANGED variantVars
    BY <2>2, VariantDriver
  <2> QED
    BY <2>1, <2>2 DEF VariantNext
<1> QED
  BY <1>1, <1>2, PTL DEF VariantSpec

(* The items of namespace variant answer what SQL says of any expression   *)
(* without a negation, in every type.                                      *)
THEOREM VariantIsCorrect == VariantSpec => []VariantAnswerCorrect
<1>1. VariantInv => VariantAnswerCorrect
  BY DEF VariantInv, Wanted, VariantAnswerCorrect, VariantScope
<1> QED
  BY <1>1, VariantInvariance, PTL

(* None of them is ever asked to resolve any but the integer types. *)
THEOREM VariantTypesAreIntegers == VariantSpec => []OnlyIntegerTypes
<1>1. VariantInv => OnlyIntegerTypes
  <2> SUFFICES ASSUME VariantInv, NEW k \in DOMAIN stack
               PROVE  items[stack[k].n].cmp \in IntegerTypes
    BY DEF OnlyIntegerTypes, IntegerTypes
  <2>1. stack # <<>>
    BY EmptySeq
  <2>2. mode # "idle" /\ Virtual \in SUBSET DOMAIN items
    BY <2>1 DEF VariantInv, MachineInv, InOrder, CallsMatchMode, Virtual, OfKind
  <2>3. stack[k].n \in Free(Virtual)
    BY <2>2 DEF VariantInv, MachineInv, InOrder
  <2> QED
    BY <2>3 DEF VariantInv, OnlyIntegers, Integral
<1> QED
  BY <1>1, VariantInvariance, PTL
=============================================================================
