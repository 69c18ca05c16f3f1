------------------------------ MODULE ItemTypes ------------------------------
(***************************************************************************)
(* The data the Item value methods work on: the static field types, the    *)
(* five C++ value types, and the conversions between them.                 *)
(*                                                                         *)
(* A number of any value type is an integer counting units of 1/One, so    *)
(* that a double or a decimal can have a fraction: 1 is One, and with      *)
(* One = 2 the literal 1.5 is 3.  FALSE is 0 and TRUE is One.              *)
(***************************************************************************)
EXTENDS Integers, Sequences

CONSTANTS
    One,            \* the units in the number 1
    Int32Half,      \* 2^31, the magnitude at which an int32 wraps
    LonglongHalf,   \* 2^63, the magnitude at which a longlong wraps
    NegZero,        \* the decimal zero whose sign bit is set
    Junk            \* the content of a variable nobody has written

ASSUME WidthAssumption ==
    /\ One \in Nat \ {0}
    /\ Int32Half \in Nat \ {0, 1}
    /\ LonglongHalf \in Nat \ {0}

ASSUME JunkAssumption == Junk \notin Int

ASSUME NegZeroAssumption == NegZero \notin Int /\ NegZero # Junk

Values == Int \cup {NegZero, Junk}

(* The number a decimal stands for. *)
Num(v) == IF v = NegZero THEN 0 ELSE v

-----------------------------------------------------------------------------
(* enum_field_types, in the order my_max() compares them. *)

MYSQL_TYPE_NULL       == 0
MYSQL_TYPE_BOOL       == 1
MYSQL_TYPE_LONGLONG   == 2
MYSQL_TYPE_DOUBLE     == 3
MYSQL_TYPE_NEWDECIMAL == 4

FieldTypes == 0 .. 4

(* The result type of two arguments of types ta and tb. *)
Hybrid2(ta, tb) ==
    IF ta = tb THEN ta
    ELSE IF MYSQL_TYPE_NULL \in {ta, tb} THEN (IF ta > tb THEN ta ELSE tb)
    ELSE IF MYSQL_TYPE_DOUBLE \in {ta, tb} THEN MYSQL_TYPE_DOUBLE
    ELSE IF MYSQL_TYPE_LONGLONG \in {ta, tb} THEN MYSQL_TYPE_LONGLONG
    ELSE MYSQL_TYPE_NEWDECIMAL

(* ... and of one, two or three arguments, whose types are the sequence ts. *)
Hybrid_field_type(ts) ==
    CASE Len(ts) = 1 -> ts[1]
      [] Len(ts) = 2 -> Hybrid2(ts[1], ts[2])
      [] OTHER       -> Hybrid2(Hybrid2(ts[1], ts[2]), ts[3])

(* The type of a literal, and of a function of arguments of types ts. *)
LeafType(k) ==
    CASE k = "null" -> MYSQL_TYPE_NULL
      [] k = "bool" -> MYSQL_TYPE_BOOL
      [] k = "int"  -> MYSQL_TYPE_LONGLONG
      [] k = "real" -> MYSQL_TYPE_DOUBLE
      [] OTHER      -> MYSQL_TYPE_NEWDECIMAL

\* Seeded fault: LAST_VALUE has the type of its first argument.
FaultyFuncType(k, ts) ==
    CASE k \in {"or", "isnull", "eq"} -> MYSQL_TYPE_BOOL
      [] k = "last_value"             -> ts[1]
      [] OTHER                        -> Hybrid_field_type(ts)

FuncType(k, ts) ==
    CASE k \in {"or", "isnull", "eq"} -> MYSQL_TYPE_BOOL
      [] k = "last_value"             -> ts[Len(ts)]
      [] OTHER                        -> Hybrid_field_type(ts)

-----------------------------------------------------------------------------
(* The value types, one group of value methods each. *)

ValueTypes == {"bool", "int32", "longlong", "double", "decimal"}

(* The method group by which an item of field type ft is evaluated natively. *)
NativeType(ft) ==
    CASE ft \in {MYSQL_TYPE_NULL, MYSQL_TYPE_BOOL} -> "bool"
      [] ft = MYSQL_TYPE_LONGLONG                  -> "longlong"
      [] ft = MYSQL_TYPE_DOUBLE                    -> "double"
      [] OTHER                                     -> "decimal"

BoolValue(b) == IF b THEN One ELSE 0

ToBool(v) == IF v = Junk THEN Junk ELSE BoolValue(v # 0)

(* (longlong) of a double, decimal2longlong() of a decimal: toward zero. *)
Trunc(v) == IF v >= 0 THEN v - (v % One) ELSE v + ((-v) % One)

(* (int32) of a longlong. *)
ToInt32(v) ==
    LET h == Int32Half * One IN ((v + h) % (2 * h)) - h

(* ulonglong2decimal() of a longlong: the sign bit is read as 2^63. *)
UlonglongToDecimal(v) == IF v < 0 THEN v + 2 * LonglongHalf * One ELSE v

(* The number that the nines at the front of n's digits make, 0 if there   *)
(* are none; n has no more than nine digits.                               *)
LeadingNines(n) ==
    LET runs == {m \in {9, 99, 999, 9999, 99999, 999999, 9999999, 99999999, 999999999} :
                  \E p \in {1, 10, 100, 1000, 10000, 100000, 1000000, 10000000, 100000000} :
                    n \div p = m}
        longest == {m \in runs : \A k \in runs : k <= m}
    IN  IF longest = {} THEN 0 ELSE CHOOSE m \in longest : TRUE

(* double2decimal() prints the double and reads the text.  my_isdigit()    *)
(* takes no digit but 9, so that the number ends before the first other    *)
(* one, and is 0 if it begins with one; a fraction .5 is such a digit.     *)
Double2decimal(v) ==
    LET n == LeadingNines((IF v < 0 THEN -v ELSE v) \div One) * One
    IN  IF v < 0 THEN -n ELSE n

(* The sum and the negation of numbers of type T; an operand nobody wrote   *)
(* makes the result as meaningless as itself.  decimal_neg() flips the sign *)
(* of a zero too; only the sum of two such zeros is another one.           *)
Fit(v, T) == IF T = "int32" THEN ToInt32(v) ELSE v

Plus(a, b, T) ==
    IF Junk \in {a, b} THEN Junk
    ELSE IF a = NegZero /\ b = NegZero THEN NegZero
    ELSE Fit(Num(a) + Num(b), T)

Neg(a, T) ==
    IF a = Junk THEN Junk
    ELSE IF T = "decimal" /\ a = 0 THEN NegZero
    ELSE Fit(-Num(a), T)

-----------------------------------------------------------------------------
(* What a value method answers: a flag and, if the flag is clear, a number. *)

Results == [null : BOOLEAN, v : Values]
SqlNull == [null |-> TRUE, v |-> 0]
Value(v) == [null |-> FALSE, v |-> v]

(* The number under a raised flag means nothing: answers are compared       *)
(* without it.                                                              *)
Norm(r) == IF r.null THEN SqlNull ELSE r
=============================================================================
