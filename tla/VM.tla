---------------------------------- MODULE VM ----------------------------------
(***************************************************************************)
(* The VM (--vm): the code that gen() makes of an item, and what executing *)
(* it does to the registers.  Bench runs it.                               *)
(***************************************************************************)
EXTENDS ItemTree

Registers == {"ll0", "ll1", "d0", "d1", "b0", "dec0", "dec1"}

(* An enumeration of the commands; the type is that of their operands. *)
Cmds == [op : {"MOV0", "MOV1", "ADD01", "ADD0I", "NEG0", "EQ0I"},
         t  : {"longlong", "double", "decimal"}]

(* The registers an instruction of type t works on. *)
Reg0(t) == CASE t = "longlong" -> "ll0" [] t = "double" -> "d0" [] OTHER -> "dec0"
Reg1(t) == CASE t = "longlong" -> "ll1" [] t = "double" -> "d1" [] OTHER -> "dec1"

-----------------------------------------------------------------------------
(* Code generation: gen() of Item_func_add, Item_func_eq (two literals of  *)
(* the same class) and Item_func_uminus (one literal).                     *)

LiteralType == [int |-> "longlong", real |-> "double", decimal |-> "decimal"]

Literal(n) == items[n].kind \in DOMAIN LiteralType

Instr(op, t, v) == [cmd |-> [op |-> op, t |-> t], param |-> Value(v)]

CanGen(it) ==
    /\ it.kind \in {"add", "eq", "uminus"}
    /\ \A i \in DOMAIN it.args :
         Literal(it.args[i]) /\ items[it.args[i]].kind = items[it.args[1]].kind

(* The second instruction of an item that can. *)
Gen2(it, t) ==
    CASE it.kind = "add"    -> Instr("ADD0I", t, items[it.args[2]].val)
      [] it.kind = "eq"     -> Instr("EQ0I", t, items[it.args[2]].val)
      [] it.kind = "uminus" -> Instr("NEG0", t, 0)
\* Seeded fault: the first operand goes to the other register.
FaultyGen(it) ==
    LET t == LiteralType[items[it.args[1]].kind]
    IN  << Instr("MOV1", t, items[it.args[1]].val), Gen2(it, t) >>

Gen(it) ==
    LET t == LiteralType[items[it.args[1]].kind]
    IN  << Instr("MOV0", t, items[it.args[1]].val), Gen2(it, t) >>

-----------------------------------------------------------------------------
(* VM::exec_instr(). *)

(* operator+= of Longlong_null and Double_null adds even if one is NULL,   *)
(* that of Decimal_null does not.                                          *)
AddAssign(r, other, t) ==
    IF t = "decimal"
    THEN IF ~r.null /\ ~other.null THEN Value(Plus(r.v, other.v, t))
         ELSE [r EXCEPT !.null = TRUE]
    ELSE [null |-> r.null \/ other.null, v |-> Plus(r.v, other.v, t)]

(* The comparisons ignore both flags. *)
ExecInstr(rs, i) ==
    LET t == i.cmd.t
        r == rs[Reg0(t)]
    IN  CASE i.cmd.op = "MOV0"  -> [rs EXCEPT ![Reg0(t)] = i.param]
          [] i.cmd.op = "MOV1"  -> [rs EXCEPT ![Reg1(t)] = i.param]
          [] i.cmd.op = "ADD01" -> [rs EXCEPT ![Reg0(t)] = AddAssign(r, rs[Reg1(t)], t)]
          [] i.cmd.op = "ADD0I" -> [rs EXCEPT ![Reg0(t)] = AddAssign(r, i.param, t)]
          [] i.cmd.op = "NEG0"  -> [rs EXCEPT ![Reg0(t)].v = Neg(@, t)]
          [] i.cmd.op = "EQ0I"  -> [rs EXCEPT !["b0"] = Value(BoolValue(r.v = i.param.v))]

(* VM::exec(): the program p, one instruction after the other. *)
exec(p, rs) ==
    LET after[k \in 0 .. Len(p)] == IF k = 0 THEN rs ELSE ExecInstr(after[k - 1], p[k])
    IN  after[Len(p)]

(* The registers of a new VM are NULLs. *)
FreshRegs == [r \in Registers |-> SqlNull]

(* The register the loop of a test reads: test_b_vm(), test_ll_vm(), ... *)
ReadReg(T) ==
    CASE T = "bool"     -> "b0"
      [] T = "longlong" -> "ll0"
      [] T = "double"   -> "d0"
      [] T = "decimal"  -> "dec0"
=============================================================================
