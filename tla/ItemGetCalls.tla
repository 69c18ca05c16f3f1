----------------------------- MODULE ItemGetCalls -----------------------------
(***************************************************************************)
(* What the calls in progress of the get_xxx() methods know of their       *)
(* arguments, from which it follows that their answers are correct.        *)
(***************************************************************************)
EXTENDS ItemGet, ItemCalls

(* What a call knows besides: no operand of the disjunction was true, and  *)
(* the flag says if one was NULL.                                          *)
KnowsOr(f) ==
    items[f.n].kind = "or" /\ f.i # 0 =>
        /\ \A j \in 1 .. f.i - 1 : ~IsTrue(ArgSem(f, j))
        /\ f.acc.null => \E j \in 1 .. f.i - 1 : ArgSem(f, j).null
        /\ ~f.acc.null =>
             f.acc = Value(0) /\ \A j \in 1 .. f.i - 1 : ~ArgSem(f, j).null

FrameOK(f) ==
    /\ f.i \in 0 .. Len(items[f.n].args)
    /\ Safe(f)
    /\ KnowsFirst(f)
    /\ KnowsOr(f)
    /\ KnowsCoalesce(f)

(* The answer that is being handed over is the one that was asked for. *)
Awaited ==
    mode = "ret" =>
        IF stack = <<>> THEN Norm(ret) = sem[req.n][req.t]
        ELSE Top.i # 0 /\ Norm(ret) = ArgSem(Top, Top.i)

(* Whatever call is in progress, at whatever depth: it was called by the   *)
(* frame below it for the argument that frame is at; it remembers of the   *)
(* arguments it has called exactly what it will need; it is a get_decimal()*)
(* only of an item that has an exact one; and an answer on its way to it   *)
(* is what SQL says of the argument it is at.                              *)
CallsCorrect ==
    /\ \A k \in DOMAIN stack : FrameOK(stack[k])
    /\ Linked
    /\ Awaited
    /\ mode = "idle" => stack = <<>>
=============================================================================
