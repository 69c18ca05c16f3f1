--------------------------------- MODULE Bench ---------------------------------
(***************************************************************************)
(* ./test: for an item, the four test loops, one per group of value        *)
(* methods, each calling the item's method `count' times and adding up the *)
(* answers that are not NULL.  The sums are printed next to each other "to *)
(* make sure that different value methods return the same sum".            *)
(*                                                                         *)
(* The four groups share the items and nothing else; `method' says whose   *)
(* loop is running.  The loops are the four arguments of one constructor   *)
(* call, which C++ evaluates in an unspecified order.                      *)
(*                                                                         *)
(* With --vm the loop over the val_xxx() methods asks the item to generate *)
(* code first.  An item that can is not evaluated: the loop executes the   *)
(* code, `Count' times over the same registers, and adds up the register   *)
(* of the type under test.                                                 *)
(***************************************************************************)
EXTENDS ItemOld, ItemPrm, ItemGet, ItemNew, VM

CONSTANT Count      \* --count, the iterations of a loop

ASSUME CountAssumption == Count \in Nat \ {0}

VARIABLES
    test,       \* the item and the type under test, NoReq between tests
    method,     \* whose loop is running, or "done"
    waiting,    \* the methods whose loops have not begun
    left,       \* the iterations it has left
    sums,       \* the sum of each loop of this test
    vm,         \* opt.vm(), that is --vm
    m_instr,    \* the code the loop executes, if it does
    regs        \* the registers of its VM

benchVars == <<items, sem, stack, mode, ret, req, null_value, flags,
               test, method, waiting, left, sums, vm, m_instr, regs>>

evalVars == <<items, sem, stack, mode, ret, req, null_value, flags>>
loopVars == <<test, method, waiting, left, sums, vm, m_instr, regs>>

Methods == {"old", "prm", "get", "new"}
NoSums == [m \in Methods |-> 0]

LoopInit ==
    /\ test = NoReq /\ method = "done" /\ waiting = {} /\ left = 0 /\ sums = NoSums
    /\ vm \in BOOLEAN /\ m_instr = <<>> /\ regs = FreshRegs

Init ==
    /\ TreeInit
    /\ MachineInit
    /\ null_value = [i \in DOMAIN LeafPool |-> LeafPool[i].kind = "null"]
    /\ flags = <<>>
    /\ LoopInit

BuildItem == test = NoReq /\ OldBuild /\ UNCHANGED flags /\ UNCHANGED loopVars

(* The loop over the methods m, for the request r.  test_int32_old() has   *)
(* no VM; elsewhere the VM begins anew.                                    *)
BeginLoop(m, r) ==
    /\ method' = m
    /\ left' = Count
    /\ m_instr' = IF m = "old" /\ vm /\ r.t # "int32" /\ CanGen(items[r.n])
                  THEN Gen(items[r.n]) ELSE <<>>
    /\ regs' = FreshRegs

(* test_b(), test_int32(), test_ll(), test_d(), test_dec() or one part of  *)
(* test_native() of item n.                                                *)
StartTest(n, T) ==
    /\ test = NoReq
    /\ T \in EntryTypes(items[n])
    /\ test' = [n |-> n, t |-> T]
    /\ \E m \in Methods : BeginLoop(m, test') /\ waiting' = Methods \ {m}
    /\ sums' = NoSums
    /\ UNCHANGED evalVars /\ UNCHANGED vm

(* One iteration calls the method under test.  The flag of test_X_prm() is *)
(* a local of the loop's body, not initialised.                            *)
CallMethod ==
    /\ method # "done" /\ m_instr = <<>>
    /\ left > 0
    /\ Enter(test.n, test.t)
    /\ IF method = "prm" THEN NewLocal(<<>>) ELSE UNCHANGED flags
    /\ UNCHANGED null_value
    /\ UNCHANGED loopVars

(* The statements of the method. *)
StepMethod ==
    /\ \/ method = "old" /\ OldStep /\ UNCHANGED flags
       \/ method = "prm" /\ PrmStep /\ UNCHANGED null_value
       \/ method = "get" /\ GetStep /\ UNCHANGED <<null_value, flags>>
       \/ method = "new" /\ NewStep /\ UNCHANGED <<null_value, flags>>
    /\ UNCHANGED loopVars

(* What the loop sees of the answer. *)
Answer ==
    CASE method = "old" -> OldAnswer
      [] method = "prm" -> PrmAnswer
      [] OTHER          -> Norm(ret)

(* It adds the answer up, if it is not NULL. *)
AddUp ==
    /\ Leave
    /\ sums' = IF Answer.null THEN sums
               ELSE [sums EXCEPT ![method] = @ + Num(Answer.v)]
    /\ left' = left - 1
    /\ flags' = <<>>
    /\ UNCHANGED <<null_value, test, method, waiting, vm, m_instr, regs>>

(* An iteration of test_b_vm(), test_ll_vm(), test_d_vm(), test_dec_vm(). *)
ExecVM ==
    /\ m_instr # <<>>
    /\ left > 0
    /\ regs' = exec(m_instr, regs)
    /\ LET r == regs'[ReadReg(test.t)]
       IN  sums' = IF r.null THEN sums ELSE [sums EXCEPT ![method] = @ + Num(r.v)]
    /\ left' = left - 1
    /\ UNCHANGED evalVars /\ UNCHANGED <<test, method, waiting, vm, m_instr>>

LoopEnded == method # "done" /\ mode = "idle" /\ left = 0

\* Seeded fault: the counter is not set again.
FaultyNextLoop ==
    /\ LoopEnded
    /\ waiting # {}
    /\ method' \in waiting
    /\ waiting' = waiting \ {method'}
    /\ UNCHANGED evalVars /\ UNCHANGED <<test, left, sums, vm, m_instr, regs>>

NextLoop ==
    /\ LoopEnded
    /\ \E m \in waiting : BeginLoop(m, test) /\ waiting' = waiting \ {m}
    /\ UNCHANGED evalVars /\ UNCHANGED <<test, sums, vm>>

LastLoop ==
    /\ LoopEnded
    /\ waiting = {}
    /\ method' = "done" /\ m_instr' = <<>> /\ regs' = FreshRegs
    /\ UNCHANGED evalVars /\ UNCHANGED <<test, waiting, left, sums, vm>>

(* The results are printed. *)
EndTest ==
    /\ test # NoReq
    /\ method = "done"
    /\ test' = NoReq
    /\ sums' = NoSums
    /\ UNCHANGED evalVars /\ UNCHANGED <<method, waiting, left, vm, m_instr, regs>>

(* The test goes on. *)
Go == CallMethod \/ StepMethod \/ AddUp \/ ExecVM \/ NextLoop \/ LastLoop \/ EndTest

Next ==
    \/ BuildItem
    \/ \E n \in DOMAIN items, T \in ValueTypes : StartTest(n, T)
    \/ Go

Spec == Init /\ [][Next]_benchVars

-----------------------------------------------------------------------------
(* Properties. *)

(* README: the printed sums are there "to make sure that different value   *)
(* methods return the same sum".                                           *)
SumsAgree ==
    test # NoReq /\ method = "done" =>
        \A m \in Methods : sums[m] = sums["old"]

(* The items for which a group of methods is known to answer wrongly. *)
Mistaken(m) ==
    CASE m = "old" -> DecimalComparisons
      [] m = "prm" -> OfKind({"or", "isnull"}) \cup IntegerComparisons
      [] m = "new" -> OfKind({"or"})
      [] OTHER     -> {}

(* The code computes what the item's methods would, executed over used     *)
(* registers as over new ones: the loop reads the register gen() has the   *)
(* answer put in, although the one goes by the type of the item and the    *)
(* other by the class of its arguments.                                    *)
RegisterIsAnswer ==
    m_instr # <<>> /\ left < Count =>
        Norm(regs[ReadReg(test.t)]) = sem[test.n][test.t]

(* Every test that is started prints its sums: the calls of all four       *)
(* groups, with their loops over the arguments, return.                    *)
EveryTestEnds == test # NoReq ~> test = NoReq
=============================================================================
