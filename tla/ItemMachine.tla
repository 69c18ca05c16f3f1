------------------------------ MODULE ItemMachine ------------------------------
(***************************************************************************)
(* How a value method is evaluated, whichever group it belongs to: the     *)
(* driver calls the method of value type T of some item, an item's method  *)
(* calls its arguments' methods one after the other and looks at what each *)
(* answers before it goes on.                                              *)
(*                                                                         *)
(* `stack' holds the calls in progress.  A frame [n, t, i, acc] is a call  *)
(* of item n's method of type t that has called its arguments 1 .. i, with *)
(* acc what it remembers between two of them.  `mode' says what happens    *)
(* next: the driver is free ("idle"), the top frame begins ("call"), or    *)
(* the top frame, or the driver if there is none, takes the answer `ret'   *)
(* of the call that has just returned ("ret").  `req' is the driver's call.*)
(***************************************************************************)
EXTENDS ItemTree

VARIABLES stack, mode, ret, req

machineVars == <<stack, mode, ret, req>>

Modes == {"idle", "call", "ret"}

Frame(n, T) == [n |-> n, t |-> T, i |-> 0, acc |-> SqlNull]
Frames == [n : Nat \ {0}, t : ValueTypes, i : Nat, acc : Results]

NoReq == [n |-> 0, t |-> "bool"]
Requests == [n : Nat, t : ValueTypes]

-----------------------------------------------------------------------------
(* The frame at work. *)

Top    == stack[Len(stack)]
Callee == items[Top.n]
Arg(i) == Callee.args[i]
Last   == Len(Callee.args)

(* The top frame is a call of an item of class k, at its beginning ...     *)
Begin(k) == mode = "call" /\ stack # <<>> /\ Callee.kind = k

(* ... or has the answer of its last called, or of its i-th, argument. *)
Returned(k) == mode = "ret" /\ stack # <<>> /\ Callee.kind = k
After(k, i) == Returned(k) /\ Top.i = i

(* It calls argument j as its i-th call, and remembers a; mostly j = i. *)
CallAgain(j, i, a) ==
    /\ stack' = Append([stack EXCEPT ![Len(stack)] =
                          [Top EXCEPT !.i = i, !.acc = a]],
                       Frame(Arg(j), ArgType(Callee, Top.t, j)))
    /\ mode' = "call"
    /\ ret' = SqlNull
    /\ UNCHANGED <<items, sem, req>>

CallArg(i, a) == CallAgain(i, i, a)

(* It returns r. *)
Return(r) ==
    /\ stack' = SubSeq(stack, 1, Len(stack) - 1)
    /\ mode' = "ret"
    /\ ret' = r
    /\ UNCHANGED <<items, sem, req>>

-----------------------------------------------------------------------------
(* The driver. *)

MachineInit == stack = <<>> /\ mode = "idle" /\ ret = SqlNull /\ req = NoReq

(* The types ./test asks of an item: its native one, both integer types if *)
(* it is an integer, and those Test_null_misc asks of NULL.                *)
EntryTypes(it) ==
    {NativeType(it.type)}
      \cup (IF it.type = MYSQL_TYPE_LONGLONG THEN {"int32"} ELSE {})
      \cup (IF it.kind = "null" THEN {"int32", "longlong", "double"} ELSE {})

(* The driver calls the method of type T of item n ... *)
Ask(n, T) ==
    /\ mode = "idle"
    /\ stack' = <<Frame(n, T)>>
    /\ mode' = "call"
    /\ req' = [n |-> n, t |-> T]
    /\ UNCHANGED <<items, sem, ret>>

(* ... as ./test does. *)
Enter(n, T) == T \in EntryTypes(items[n]) /\ Ask(n, T)

Invoke == \E n \in DOMAIN items, T \in ValueTypes : Enter(n, T)

(* The items of an expression are built between two calls. *)
Build == mode = "idle" /\ Construct /\ UNCHANGED machineVars

(* The driver takes the answer. *)
Leave ==
    /\ mode = "ret"
    /\ stack = <<>>
    /\ mode' = "idle"
    /\ ret' = SqlNull
    /\ req' = NoReq
    /\ UNCHANGED <<items, sem, stack>>

MachineTypeOK ==
    /\ stack \in Seq(Frames)
    /\ mode \in Modes
    /\ ret \in Results
    /\ req \in Requests

TypeOK == TreeTypeOK /\ MachineTypeOK
=============================================================================
