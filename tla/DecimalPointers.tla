---------------------------- MODULE DecimalPointers ----------------------------
(***************************************************************************)
(* my_decimal *val_decimal(my_decimal *decimal_buffer) with the memory its *)
(* pointers point into.  The caller declares a my_decimal and passes its   *)
(* address; the method may answer there, or point somewhere else: into a   *)
(* literal, which returns &val.  The literals are shared by all the        *)
(* expressions and by all the calls.                                       *)
(*                                                                         *)
(* ItemOld gives the calls, the flags and the numbers the calls ought to   *)
(* return.  Here every step also does what it does to the memory, and      *)
(* computes with what it finds there.                                      *)
(***************************************************************************)
EXTENDS ItemOld, ItemCalls

VARIABLES
    mem,    \* the decimals in memory, by address
    calls,  \* for every frame of the stack, the pointers it holds
    res     \* the pointer the call that has just returned answered

ptrVars == <<items, sem, stack, mode, ret, req, null_value, mem, calls, res>>

(* The address <<0, n>> is the member val of the literal items[n],         *)
(* <<1, 1>> is the driver's buf, and <<d + 1, k>> is the k-th local        *)
(* my_decimal of the frame d: value1 and value2 of Item_func_add, buf0 and *)
(* buf1 of the comparator.                                                 *)
Addresses == Nat \X Nat
NULL == <<0, 0>>
Local(k) == <<Len(stack) + 1, k>>

(* A call got the buffer `to' and has kept val0, its first operand.        *)
Held(p) == [to |-> p, val0 |-> NULL]
Holds == calls[Len(calls)]

(* mem with the local p declared: my_decimal() is a zero.                  *)
Declared(p) ==
    [a \in DOMAIN mem \cup ({p} \ {NULL}) |-> IF a \in DOMAIN mem THEN mem[a] ELSE 0]

(* m without the locals of the frames above depth d. *)
Below(m, d) == [a \in {b \in DOMAIN m : b[1] <= d} |-> m[a]]

-----------------------------------------------------------------------------
(* Calling an argument. *)

(* The buffer for the i-th call: a local, or the one the caller gave.      *)
Passed(i) ==
    IF Callee.kind \in {"add", "eq", "isnull"} THEN Local(i) ELSE Holds.to

Call ==
    /\ OldStep
    /\ Len(stack') > Len(stack)
    /\ LET i == stack'[Len(stack)].i
           p == IF stack'[Len(stack')].t = "decimal" THEN Passed(i) ELSE NULL
       IN  /\ calls' = Append([calls EXCEPT ![Len(calls)].val0 =
                                 IF i = 2 THEN res ELSE @], Held(p))
           /\ mem' = Declared(p)
    /\ res' = NULL

-----------------------------------------------------------------------------
(* Returning: what the method leaves in memory, and the pointer.           *)

Put(v) == [mem EXCEPT ![Holds.to] = v]

\* Seeded fault: the argument's answer is negated where it is.
FaultyNegated == [mem EXCEPT ![res] = Neg(mem[res], "decimal")]

(* Item_func_uminus copies an answer that is not in the buffer, and        *)
(* negates the copy.                                                       *)
Negated == Put(Neg(mem[res], "decimal"))

(* decimal_add() into the caller's buffer; its error, which makes the sum   *)
(* NULL, takes more digits than the literals of an instance have.          *)
Summed == Put(Plus(mem[Holds.val0], mem[res], "decimal"))

Compared == Put(BoolValue(mem[Holds.val0] = mem[res]))

(* A call of val_decimal() that answers NULL, or not, see ReturnFlag. *)
IsNull == null_value'[Top.n]

(* Whoever answers with a truth value, or holds another kind of number,    *)
(* converts it into the buffer.                                            *)
Left ==
    CASE Callee.kind \in {"decimal", "coalesce", "last_value"}   -> mem
      [] Callee.kind \in {"add", "uminus"} /\ IsNull             -> mem
      [] Callee.kind = "add" /\ ~IsNull                          -> Summed
      [] Callee.kind = "uminus" /\ ~IsNull                       -> Negated
      [] Callee.kind = "eq" /\ Top.i = 2 /\ ~IsNull
         /\ Callee.cmp = MYSQL_TYPE_NEWDECIMAL                   -> Compared
      [] OTHER                                                   -> Put(ret'.v)

\* Seeded fault: the argument's answer is returned, the buffer is forgotten.
FaultyAnswered ==
    CASE Callee.kind = "decimal"                                 -> <<0, Top.n>>
      [] Callee.kind \in {"add", "coalesce"} /\ IsNull           -> NULL
      [] Callee.kind \in {"uminus", "last_value", "coalesce"}    -> res
      [] OTHER                                                   -> Holds.to

Answered ==
    CASE Callee.kind = "decimal"                                 -> <<0, Top.n>>
      [] Callee.kind \in {"add", "uminus", "coalesce"} /\ IsNull -> NULL
      [] Callee.kind = "last_value"                              -> res
      [] Callee.kind = "coalesce" /\ ~IsNull                     -> res
      [] OTHER                                                   -> Holds.to

(* The other methods answer no pointer: only the locals of a comparison of *)
(* decimals were in memory.                                                *)
Returning ==
    /\ OldStep
    /\ Len(stack') < Len(stack)
    /\ mem' = Below(IF Top.t = "decimal" THEN Left ELSE mem, Len(stack))
    /\ res' = IF Top.t = "decimal" THEN Answered ELSE NULL
    /\ calls' = SubSeq(calls, 1, Len(calls) - 1)

-----------------------------------------------------------------------------
(* The driver: test_xxx_old() of one item after the other. *)

PtrInit ==
    /\ OldInit
    /\ mem = [a \in {<<0, n>> : n \in {m \in DOMAIN LeafPool :
                                         LeafPool[m].kind = "decimal"}}
                |-> LeafPool[a[2]].val]
    /\ calls = <<>>
    /\ res = NULL

PtrBuild == OldBuild /\ UNCHANGED <<mem, calls, res>>

(* Of the five loops only test_dec_old() declares a buffer. *)
DriverBuf(T) == IF T = "decimal" THEN <<1, 1>> ELSE NULL

PtrInvoke ==
    /\ \E n \in DOMAIN items, T \in ValueTypes :
         /\ Enter(n, T)
         /\ mem' = Declared(DriverBuf(T))
         /\ calls' = <<Held(DriverBuf(T))>>
    /\ KeepNull
    /\ UNCHANGED res

PtrLeave ==
    /\ Leave /\ KeepNull
    /\ mem' = Below(mem, 0)
    /\ res' = NULL
    /\ UNCHANGED calls

PtrNext == PtrBuild \/ PtrInvoke \/ Call \/ Returning \/ PtrLeave

PtrSpec == PtrInit /\ [][PtrNext]_ptrVars

-----------------------------------------------------------------------------
(* Properties. *)

(* Every pointer the program holds is null or points to a decimal that is  *)
(* alive: no call returns the address of one of its own locals, through    *)
(* any chain of coalesce, last_value and uminus that pass pointers on.     *)
NoDangling ==
    /\ Len(calls) = Len(stack)
    /\ DOMAIN mem \subseteq Addresses
    /\ res \in DOMAIN mem \cup {NULL}
    /\ \A d \in DOMAIN calls :
         {calls[d].to, calls[d].val0} \subseteq DOMAIN mem \cup {NULL}

(* No call of val_decimal() changes a literal: every other expression, and *)
(* the next call of this one, still finds the number the program wrote.    *)
LiteralsConstant ==
    \A n \in DOMAIN items :
        items[n].kind = "decimal" => mem[<<0, n>>] = items[n].val

(* The item whose answer is about to be taken; the comparator evaluates    *)
(* its first decimal operand twice.                                        *)
Answerer ==
    IF stack = <<>> THEN req.n
    ELSE IF ComparesDecimals(Callee) THEN Arg(1)
    ELSE Arg(Top.i)

(* What val_decimal() points to, if the item's null_value is clear, is the *)
(* number it was to answer: it is read through the pointer (decimal_add(), *)
(* decimal_cmp(), decimal2double() of the driver).  Excepted is what is    *)
(* computed from a comparison of decimals: it can find the flag clear of   *)
(* an operand that it has not evaluated, and compare with a null pointer.  *)
PointerIsAnswer ==
    /\ mode = "ret" /\ AnswerType = "decimal"
    /\ ~null_value[Answerer] /\ Answerer \in Free(DecimalComparisons)
    => res \in DOMAIN mem /\ mem[res] = ret.v

(* Calls that remember a decimal: val0 of an addition or a comparison. *)
Remembers(f) ==
    /\ f.i = 2
    /\ \/ items[f.n].kind = "add" /\ f.t = "decimal"
       \/ ComparesDecimals(items[f.n])
    /\ items[f.n].args[1] \in Free(DecimalComparisons)

(* While the second operand of an addition or of a comparison is evaluated *)
(* the first is alive and stays what it was, wherever it is: in a local of *)
(* this call, or in a literal that the second operand uses too.            *)
OperandsKept ==
    \A d \in DOMAIN stack :
        Remembers(stack[d]) =>
            /\ calls[d].val0 \in DOMAIN mem
            /\ mem[calls[d].val0] = stack[d].acc.v
=============================================================================
