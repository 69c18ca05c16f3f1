------------------------------ MODULE ItemCalls ------------------------------
(***************************************************************************)
(* What can be said of the calls in progress, whichever group of value     *)
(* methods is evaluated: how the frames hang together, what a call may     *)
(* know of the arguments it has called, which answer is owed.              *)
(***************************************************************************)
EXTENDS ItemMachine

(* The types for which a decimal is exact. *)
DecimalTypes == {MYSQL_TYPE_NULL, MYSQL_TYPE_BOOL, MYSQL_TYPE_NEWDECIMAL}

Safe(f) == f.t = "decimal" => items[f.n].type \in DecimalTypes

(* What the j-th argument is worth to the call f. *)
ArgSem(f, j) == sem[items[f.n].args[j]][ArgType(items[f.n], f.t, j)]

(* What a call knows of the arguments before its i-th: the sum's and the   *)
(* comparison's first operand is a number, and remembered; COALESCE has    *)
(* seen NULLs only.                                                        *)
KnowsFirst(f) ==
    items[f.n].kind \in {"add", "eq"} /\ f.i = 2 =>
        ~ArgSem(f, 1).null /\ f.acc = ArgSem(f, 1)

KnowsCoalesce(f) ==
    items[f.n].kind = "coalesce" => \A j \in 1 .. f.i - 1 : ArgSem(f, j).null

(* The frame g is the call of the argument at which frame f is. *)
Calls(f, g) ==
    /\ f.i # 0
    /\ g.n = items[f.n].args[f.i]
    /\ g.t = ArgType(items[f.n], f.t, f.i)

Linked ==
    /\ stack # <<>> => stack[1].n = req.n /\ stack[1].t = req.t
    /\ \A k \in 1 .. Len(stack) - 1 : Calls(stack[k], stack[k + 1])

-----------------------------------------------------------------------------

(* The comparison of decimals, which val_decimal() may evaluate the same   *)
(* argument twice for.                                                     *)
ComparesDecimals(it) == it.kind = "eq" /\ it.cmp = MYSQL_TYPE_NEWDECIMAL

(* The frame g is the call of some argument of frame f, and of no other    *)
(* than Calls says unless f compares decimals.                             *)
Reaches(f, g) ==
    /\ f.i # 0
    /\ \E j \in DOMAIN items[f.n].args :
         g.n = items[f.n].args[j] /\ g.t = ArgType(items[f.n], f.t, j)
    /\ ~ComparesDecimals(items[f.n]) => Calls(f, g)

(* The driver is calling, or there are no calls; the top one has just     *)
(* begun, or waits ...                                                     *)
CallsMatchMode ==
    /\ mode = "idle" => stack = <<>> /\ req = NoReq
    /\ mode = "call" => stack # <<>> /\ Top.i = 0
    /\ mode # "idle" => req.n \in DOMAIN items

(* ... and the frames lead from the item it asked down to earlier and      *)
(* earlier items, all of the same expression.                              *)
InOrder ==
    /\ CallsMatchMode
    /\ stack # <<>> => stack[1].n = req.n /\ stack[1].t = req.t
    /\ \A k \in 1 .. Len(stack) - 1 : Reaches(stack[k], stack[k + 1])
    /\ \A k, m \in DOMAIN stack : k < m => stack[m].n < stack[k].n
    /\ \A k \in DOMAIN stack, bad \in SUBSET DOMAIN items :
         req.n \in Free(bad) => stack[k].n \in Free(bad)

(* The answer the top frame is to give, the one that the call that has     *)
(* just returned was to give, the item it was given by, and its type.      *)
Owed == sem[Top.n][Top.t]
Wanted == IF stack = <<>> THEN sem[req.n][req.t] ELSE ArgSem(Top, Top.i)
Answering == IF stack = <<>> THEN req.n ELSE Arg(Top.i)
AnswerType == IF stack = <<>> THEN req.t ELSE ArgType(Callee, Top.t, Top.i)
=============================================================================
