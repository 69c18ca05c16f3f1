------------------------------ MODULE BenchProofs ------------------------------
(***************************************************************************)
(* The sums that ./test prints are right: for any expression, the loop of  *)
(* each group that answers such expressions rightly adds up `Count' right  *)
(* answers, in whichever order the loops run, over the flags that items    *)
(* were built with or that other loops left behind, by evaluation and by   *)
(* generated code.                                                         *)
(***************************************************************************)
EXTENDS FixedTests, ItemMethodProofs

-----------------------------------------------------------------------------
(* The code of an item.                                                    *)

(* The code is two instructions, executed one after the other.             *)
LEMMA Executed ==
    ASSUME NEW p, Len(p) = 2, NEW rs
    PROVE  exec(p, rs) = ExecInstr(ExecInstr(rs, p[1]), p[2])
<1> DEFINE F(f) == [k \in 0 .. Len(p) |-> IF k = 0 THEN rs ELSE ExecInstr(f[k - 1], p[k])]
           g == [k \in 0 .. Len(p) |->
                   IF k = 0 THEN rs
                   ELSE IF k = 1 THEN ExecInstr(rs, p[1])
                   ELSE ExecInstr(ExecInstr(rs, p[1]), p[2])]
           after == CHOOSE f : f = F(f)
<1>1. 0 .. Len(p) = {0, 1, 2}
  OBVIOUS
<1>2. g = F(g)
  <2>1. g[0] = rs /\ g[1] = ExecInstr(rs, p[1])
    BY <1>1
  <2>2. \A k \in 0 .. Len(p) :
          g[k] = IF k = 0 THEN rs ELSE ExecInstr(g[k - 1], p[k])
    BY <1>1, <2>1
  <2> QED
    BY <2>2
<1>3. after = F(after)
  BY <1>2
<1> HIDE DEF after
<1>4. after[0] = rs
  BY <1>1, <1>3
<1>5. after[1] = ExecInstr(after[0], p[1])
  BY <1>1, <1>3
<1>6. after[2] = ExecInstr(after[1], p[2])
  BY <1>1, <1>3
<1>7. exec(p, rs) = after[Len(p)]
  BY DEF exec, after
<1> QED
  BY <1>4, <1>5, <1>6, <1>7

(* The type of the registers that the code of the item works on.           *)
CodeType(it) == LiteralType[items[it.args[1]].kind]

(* A literal that code can load is worth its number in its own type.       *)
LEMMA LoadedLiteral ==
    ASSUME TreeInv, NEW m \in DOMAIN items, Literal(m)
    PROVE  LET t == LiteralType[items[m].kind]
           IN  /\ t \in {"longlong", "double", "decimal"}
               /\ items[m].val \in Int
               /\ sem[m][t] = Value(items[m].val)
               /\ items[m].type \in FieldTypes
               /\ NativeType(items[m].type) = t
<1> DEFINE t == LiteralType[items[m].kind]
<1>1. items[m].kind \in {"int", "real", "decimal"}
  BY DEF Literal, LiteralType
<1>2. items[m].kind \in LeafKinds /\ items[m].kind \notin FuncKinds
  BY <1>1 DEF LeafKinds, FuncKinds
<1>3. /\ items[m].kind = "int" => t = "longlong"
      /\ items[m].kind = "real" => t = "double"
      /\ items[m].kind = "decimal" => t = "decimal"
  BY DEF LiteralType
<1>4. t \in ValueTypes
  BY <1>1, <1>3 DEF ValueTypes
<1>5. PICK i \in DOMAIN LeafPool : items[m] = Leaf(LeafPool[i])
  BY <1>2 DEF TreeInv, Merged
<1>6. items[m].val \in Int /\ (items[m].kind = "int" => items[m].val % One = 0)
  <2>1. items[m].kind = LeafPool[i].kind /\ items[m].val = LeafPool[i].val
    BY <1>5 DEF Leaf
  <2>2. LeafPool[i] \in [kind : LeafKinds, val : Int]
    <3>1. LeafPool \in Seq([kind : LeafKinds, val : Int])
      BY TreeAssumption
    <3> QED
      BY <3>1, LenProperties
  <2> QED
    BY <2>1, <2>2, TreeAssumption
<1>7. sem[m][t] = LeafSem(items[m], t)
  BY <1>4, <1>5, SemTypes, LeafOK
<1> HIDE DEF t
<1>8. LeafSem(items[m], t) = Value(items[m].val)
  <2>1. items[m].kind = "int" => Trunc(items[m].val) = items[m].val
    BY <1>6, TruncWhole
  <2> QED
    BY <1>1, <1>3, <2>1 DEF LeafSem
<1>9. items[m].type = LeafType(items[m].kind)
  BY <1>2, Arguments
<1>10. items[m].type \in FieldTypes /\ NativeType(items[m].type) = t
  BY <1>1, <1>3, <1>9 DEF LeafType, NativeType, FieldTypes, MYSQL_TYPE_NULL, MYSQL_TYPE_BOOL,
                          MYSQL_TYPE_LONGLONG, MYSQL_TYPE_DOUBLE, MYSQL_TYPE_NEWDECIMAL
<1> QED
  BY <1>1, <1>3, <1>6, <1>7, <1>8, <1>10 DEF t

(* What an item that generates code is, and what it is worth.              *)
LEMMA CodeFacts ==
    ASSUME TreeInv, NEW n \in DOMAIN items, CanGen(items[n])
    PROVE  LET it == items[n]
               t  == CodeType(it)
               v1 == items[it.args[1]].val
               v2 == items[it.args[2]].val
           IN  /\ t \in {"longlong", "double", "decimal"}
               /\ v1 \in Int
               /\ it.kind \in {"add", "eq"} => v2 \in Int
               /\ it.kind \in {"add", "uminus"} => NativeType(it.type) = t
               /\ it.kind = "eq" => NativeType(it.type) = "bool"
               /\ it.kind = "add" => sem[n][t] = Value(Plus(v1, v2, t))
               /\ it.kind = "uminus" => sem[n][t] = Value(Neg(v1, t))
               /\ it.kind = "eq" => sem[n]["bool"] = Value(BoolValue(v1 = v2))
<1> DEFINE it == items[n]
           t  == CodeType(it)
           v1 == items[it.args[1]].val
           v2 == items[it.args[2]].val
           ts == [i \in DOMAIN it.args |-> items[it.args[i]].type]
<1>1. it.kind \in {"add", "eq", "uminus"} /\ it.kind \in FuncKinds /\ it.kind \notin LeafKinds
  BY DEF CanGen, FuncKinds, LeafKinds
<1>2. /\ it \in ItemRecord
      /\ DOMAIN it.args = 1 .. Len(it.args) /\ Len(it.args) \in Nat
      /\ Len(it.args) \in Arities[it.kind]
      /\ \A i \in DOMAIN it.args : it.args[i] \in DOMAIN items
  BY <1>1, Arguments
<1>3. /\ it.kind = "uminus" => Len(it.args) = 1
      /\ it.kind \in {"add", "eq"} => Len(it.args) = 2
  BY <1>2, ArityOf
<1>4. 1 \in DOMAIN it.args /\ (it.kind \in {"add", "eq"} => 2 \in DOMAIN it.args)
  <2>1. /\ it.kind = "uminus" => DOMAIN it.args = 1 .. 1
        /\ it.kind \in {"add", "eq"} => DOMAIN it.args = 1 .. 2
    BY <1>2, <1>3
  <2> HIDE DEF it
  <2> QED
    BY <1>1, <2>1
<1>5. \A i \in DOMAIN it.args : /\ Literal(it.args[i])
                               /\ items[it.args[i]].kind = items[it.args[1]].kind
  BY DEF CanGen
<1>6. \A i \in DOMAIN it.args : /\ items[it.args[i]].val \in Int
                               /\ sem[it.args[i]][t] = Value(items[it.args[i]].val)
                               /\ items[it.args[i]].type = items[it.args[1]].type
  <2> SUFFICES ASSUME NEW i \in DOMAIN it.args
               PROVE  /\ items[it.args[i]].val \in Int
                      /\ sem[it.args[i]][t] = Value(items[it.args[i]].val)
                      /\ items[it.args[i]].type = items[it.args[1]].type
    OBVIOUS
  <2>1. it.args[i] \in DOMAIN items /\ it.args[1] \in DOMAIN items
        /\ Literal(it.args[i]) /\ Literal(it.args[1])
        /\ items[it.args[i]].kind = items[it.args[1]].kind
    BY <1>2, <1>4, <1>5
  <2>2. items[it.args[i]].kind \in LeafKinds /\ items[it.args[1]].kind \in LeafKinds
    BY <2>1 DEF Literal, LiteralType, LeafKinds
  <2>3. items[it.args[i]].type = items[it.args[1]].type
    BY <2>1, <2>2, Arguments
  <2>4. t = LiteralType[items[it.args[i]].kind]
    BY <2>1 DEF CodeType
  <2> QED
    BY <2>1, <2>3, <2>4, LoadedLiteral
<1>7. /\ t \in {"longlong", "double", "decimal"}
      /\ NativeType(items[it.args[1]].type) = t
      /\ items[it.args[1]].type \in FieldTypes
  BY <1>2, <1>4, <1>5, LoadedLiteral DEF CodeType
<1>8. it = FuncItem(it.kind, it.args)
  <2>1. Merged(n)
    BY DEF TreeInv
  <2>2. \A i \in DOMAIN LeafPool : Leaf(LeafPool[i]).args = <<>>
    BY DEF Leaf
  <2>3. DOMAIN <<>> = {}
    OBVIOUS
  <2>4. it.args # <<>>
    BY <1>4, <2>3
  <2> QED
    BY <2>1, <2>2, <2>4 DEF Merged
<1>9. /\ it.kind \in {"add", "uminus"} => it.type = Hybrid_field_type(ts)
      /\ it.kind = "eq" => it.type = MYSQL_TYPE_BOOL
      /\ it.cmp = Hybrid_field_type(ts)
  BY <1>8 DEF FuncItem, FuncType
<1>10. Hybrid_field_type(ts) = items[it.args[1]].type
  <2>1. DOMAIN ts = 1 .. Len(it.args) /\ ts \in [1 .. Len(it.args) -> FieldTypes]
        /\ \A i \in DOMAIN ts : ts[i] = items[it.args[1]].type
    BY <1>2, <1>6, <1>7
  <2>2. Len(ts) = Len(it.args)
    BY <1>2, <2>1, FunctionIsSeq
  <2>3. Len(ts) \in {1, 2}
    BY <1>1, <1>3, <2>2
  <2>4. ts[1] = items[it.args[1]].type /\ (Len(ts) = 2 => ts[2] = items[it.args[1]].type)
    BY <1>2, <1>4, <2>1, <2>2, SMTT(60)
  <2> HIDE DEF ts, it
  <2>5. CASE Len(ts) = 1
    BY <2>4, <2>5 DEF Hybrid_field_type
  <2>6. CASE Len(ts) = 2
    BY <2>4, <2>6 DEF Hybrid_field_type, Hybrid2
  <2> QED
    BY <2>3, <2>5, <2>6
<1>11. NativeType(MYSQL_TYPE_BOOL) = "bool"
  BY DEF NativeType, MYSQL_TYPE_NULL, MYSQL_TYPE_BOOL, MYSQL_TYPE_LONGLONG,
         MYSQL_TYPE_DOUBLE
<1> HIDE DEF t, v1, v2, ts
<1>12. t \in ValueTypes /\ "bool" \in ValueTypes /\ ArithType(t) = t /\ t # "bool"
  BY <1>7 DEF ValueTypes, ArithType
<1>13. \A T \in ValueTypes : sem[n][T] = SemOf(it, T, sem)
  BY SemTypes
<1>14. /\ it.kind \in {"add", "uminus"} => \A i \in DOMAIN it.args : ArgType(it, t, i) = t
       /\ it.kind = "eq" => \A i \in DOMAIN it.args : ArgType(it, "bool", i) = t
  BY <1>7, <1>9, <1>10, <1>12 DEF ArgType
<1>15. CASE it.kind = "add"
  <2>1. sem[n][t] = AddSem(Value(v1), Value(v2), t)
    BY <1>2, <1>4, <1>6, <1>12, <1>13, <1>14, <1>15, SemBy DEF ArgValue, v1, v2
  <2>2. AddSem(Value(v1), Value(v2), t) = Value(Plus(v1, v2, t))
    BY <1>12 DEF AddSem, Value, FromArith
  <2> QED
    BY <1>4, <1>6, <1>7, <1>9, <1>10, <1>15, <2>1, <2>2 DEF t, v1, v2
<1>16. CASE it.kind = "uminus"
  <2>1. sem[n][t] = UminusSem(Value(v1), t)
    BY <1>2, <1>4, <1>6, <1>12, <1>13, <1>14, <1>16, SemBy DEF ArgValue, v1
  <2>2. UminusSem(Value(v1), t) = Value(Neg(v1, t))
    BY <1>12 DEF UminusSem, Value, FromArith
  <2> QED
    BY <1>4, <1>6, <1>7, <1>9, <1>10, <1>16, <2>1, <2>2 DEF t, v1
<1>17. CASE it.kind = "eq"
  <2>1. sem[n]["bool"] = EqSem(Value(v1), Value(v2))
    BY <1>2, <1>4, <1>6, <1>12, <1>13, <1>14, <1>17, SemBy DEF ArgValue, v1, v2
  <2>2. EqSem(Value(v1), Value(v2)) = Value(BoolValue(v1 = v2))
    BY DEF EqSem, Value
  <2> QED
    BY <1>4, <1>6, <1>7, <1>9, <1>11, <1>17, <2>1, <2>2 DEF t, v1, v2
<1> QED
  BY <1>1, <1>15, <1>16, <1>17

(* What the instructions that code is made of do.                          *)
LEMMA Executing ==
    ASSUME NEW rs, NEW i
    PROVE  LET t == i.cmd.t
               r == rs[Reg0(t)]
           IN  /\ i.cmd.op = "MOV0" => ExecInstr(rs, i) = [rs EXCEPT ![Reg0(t)] = i.param]
               /\ i.cmd.op = "ADD0I" =>
                    ExecInstr(rs, i) = [rs EXCEPT ![Reg0(t)] = AddAssign(r, i.param, t)]
               /\ i.cmd.op = "NEG0" => ExecInstr(rs, i) = [rs EXCEPT ![Reg0(t)].v = Neg(@, t)]
               /\ i.cmd.op = "EQ0I" =>
                    ExecInstr(rs, i) = [rs EXCEPT !["b0"] = Value(BoolValue(r.v = i.param.v))]
<1> DEFINE op == i.cmd.op
           t == i.cmd.t
           r == rs[Reg0(t)]
           mov0 == [rs EXCEPT ![Reg0(t)] = i.param]
           mov1 == [rs EXCEPT ![Reg1(t)] = i.param]
           add01 == [rs EXCEPT ![Reg0(t)] = AddAssign(r, rs[Reg1(t)], t)]
           add0i == [rs EXCEPT ![Reg0(t)] = AddAssign(r, i.param, t)]
           neg0 == [rs EXCEPT ![Reg0(t)].v = Neg(@, t)]
           eq0i == [rs EXCEPT !["b0"] = Value(BoolValue(r.v = i.param.v))]
<1>1. ExecInstr(rs, i) = CASE op = "MOV0" -> mov0 [] op = "MOV1" -> mov1
                           [] op = "ADD01" -> add01 [] op = "ADD0I" -> add0i
                           [] op = "NEG0" -> neg0 [] op = "EQ0I" -> eq0i
  BY DEF ExecInstr
<1> HIDE DEF op, mov0, mov1, add01, add0i, neg0, eq0i
<1>2. /\ op = "MOV0" => ExecInstr(rs, i) = mov0
      /\ op = "ADD0I" => ExecInstr(rs, i) = add0i
      /\ op = "NEG0" => ExecInstr(rs, i) = neg0
      /\ op = "EQ0I" => ExecInstr(rs, i) = eq0i
  BY <1>1
<1> QED
  BY <1>2 DEF op, mov0, add0i, neg0, eq0i

LEMMA Instructions ==
    ASSUME NEW rs, NEW t, NEW v
    PROVE  /\ ExecInstr(rs, Instr("MOV0", t, v)) = [rs EXCEPT ![Reg0(t)] = Value(v)]
           /\ ExecInstr(rs, Instr("ADD0I", t, v)) =
                [rs EXCEPT ![Reg0(t)] = AddAssign(rs[Reg0(t)], Value(v), t)]
           /\ ExecInstr(rs, Instr("NEG0", t, v)) = [rs EXCEPT ![Reg0(t)].v = Neg(@, t)]
           /\ ExecInstr(rs, Instr("EQ0I", t, v)) =
                [rs EXCEPT !["b0"] = Value(BoolValue(rs[Reg0(t)].v = v))]
<1>1. ASSUME NEW op
      PROVE  /\ Instr(op, t, v).cmd.op = op
             /\ Instr(op, t, v).cmd.t = t
             /\ Instr(op, t, v).param = Value(v)
             /\ Instr(op, t, v).param.v = v
  BY DEF Instr, Value
<1>2. ExecInstr(rs, Instr("MOV0", t, v)) = [rs EXCEPT ![Reg0(t)] = Value(v)]
  <2> DEFINE i == Instr("MOV0", t, v)
  <2>1. i.cmd.op = "MOV0" /\ i.cmd.t = t /\ i.param = Value(v)
    BY <1>1
  <2> HIDE DEF i
  <2>2. ExecInstr(rs, i) = [rs EXCEPT ![Reg0(i.cmd.t)] = i.param]
    BY <2>1, Executing
  <2>3. ExecInstr(rs, i) = [rs EXCEPT ![Reg0(t)] = Value(v)]
    BY <2>1, <2>2
  <2> QED
    BY <2>3 DEF i
<1>3. ExecInstr(rs, Instr("ADD0I", t, v)) =
        [rs EXCEPT ![Reg0(t)] = AddAssign(rs[Reg0(t)], Value(v), t)]
  <2> DEFINE i == Instr("ADD0I", t, v)
  <2>1. i.cmd.op = "ADD0I" /\ i.cmd.t = t /\ i.param = Value(v)
    BY <1>1
  <2> HIDE DEF i
  <2>2. ExecInstr(rs, i) =
          [rs EXCEPT ![Reg0(i.cmd.t)] = AddAssign(rs[Reg0(i.cmd.t)], i.param, i.cmd.t)]
    BY <2>1, Executing
  <2>3. ExecInstr(rs, i) = [rs EXCEPT ![Reg0(t)] = AddAssign(rs[Reg0(t)], Value(v), t)]
    BY <2>1, <2>2
  <2> QED
    BY <2>3 DEF i
<1>4. ExecInstr(rs, Instr("NEG0", t, v)) = [rs EXCEPT ![Reg0(t)].v = Neg(@, t)]
  <2> DEFINE i == Instr("NEG0", t, v)
  <2>1. i.cmd.op = "NEG0" /\ i.cmd.t = t
    BY <1>1
  <2> HIDE DEF i
  <2>2. ExecInstr(rs, i) = [rs EXCEPT ![Reg0(i.cmd.t)].v = Neg(@, i.cmd.t)]
    BY <2>1, Executing
  <2>3. ExecInstr(rs, i) = [rs EXCEPT ![Reg0(t)].v = Neg(@, t)]
    BY <2>1, <2>2
  <2> QED
    BY <2>3 DEF i
<1>5. ExecInstr(rs, Instr("EQ0I", t, v)) =
        [rs EXCEPT !["b0"] = Value(BoolValue(rs[Reg0(t)].v = v))]
  <2> DEFINE i == Instr("EQ0I", t, v)
  <2>1. i.cmd.op = "EQ0I" /\ i.cmd.t = t /\ i.param.v = v
    BY <1>1
  <2> HIDE DEF i
  <2>2. ExecInstr(rs, i) =
          [rs EXCEPT !["b0"] = Value(BoolValue(rs[Reg0(i.cmd.t)].v = i.param.v))]
    BY <2>1, Executing
  <2>3. ExecInstr(rs, i) = [rs EXCEPT !["b0"] = Value(BoolValue(rs[Reg0(t)].v = v))]
    BY <2>1, <2>2
  <2> QED
    BY <2>3 DEF i
<1> QED
  BY <1>2, <1>3, <1>4, <1>5

LEMMA WithValue ==
    ASSUME NEW a, NEW b
    PROVE  [Value(a) EXCEPT !.v = b] = Value(b)
<1> DEFINE n == FALSE
           r == [null |-> n, v |-> a]
           q == [r EXCEPT !.v = b]
<1> HIDE DEF n
<1>1. r \in [null : {n}, v : {a}]
  OBVIOUS
<1>2. q \in [null : {n}, v : {b}]
  OBVIOUS
<1>3. q.null = n /\ q.v = b
  OBVIOUS
<1> HIDE DEF q
<1>4. q = [null |-> q.null, v |-> q.v]
  BY <1>2
<1>5. q = [null |-> n, v |-> b]
  BY <1>3, <1>4
<1> QED
  BY <1>5, Zenon DEF q, n, Value

(* Whatever the registers held, the code leaves the value of the item in   *)
(* the one that the loop of a test of the item reads.                      *)
LEMMA CodeRight ==
    ASSUME TreeInv, NEW n \in DOMAIN items, CanGen(items[n]),
           NEW T \in EntryTypes(items[n]), T # "int32",
           NEW rs \in [Registers -> Results]
    PROVE  LET after == exec(Gen(items[n]), rs)
           IN  /\ after \in [Registers -> Results]
               /\ after[ReadReg(T)] = sem[n][T]
<1> DEFINE it == items[n]
           t  == CodeType(it)
           v1 == items[it.args[1]].val
           v2 == items[it.args[2]].val
           p  == Gen(it)
           r0 == Reg0(t)
           rs1 == ExecInstr(rs, p[1])
           rs2 == ExecInstr(rs1, p[2])
<1>1. /\ t \in {"longlong", "double", "decimal"}
      /\ v1 \in Int
      /\ it.kind \in {"add", "eq"} => v2 \in Int
      /\ it.kind \in {"add", "uminus"} => NativeType(it.type) = t
      /\ it.kind = "eq" => NativeType(it.type) = "bool"
      /\ it.kind = "add" => sem[n][t] = Value(Plus(v1, v2, t))
      /\ it.kind = "uminus" => sem[n][t] = Value(Neg(v1, t))
      /\ it.kind = "eq" => sem[n]["bool"] = Value(BoolValue(v1 = v2))
  BY CodeFacts
<1>2. it.kind \in {"add", "eq", "uminus"}
  BY DEF CanGen
<1>3. /\ p[1] = Instr("MOV0", t, v1)
      /\ p[2] = Gen2(it, t)
      /\ Len(p) = 2
  BY DEF Gen, CodeType
<1>4. exec(p, rs) = rs2
  <2> HIDE DEF p
  <2> QED
    BY <1>3, Executed
<1>5. T = NativeType(it.type)
  <2>1. it.kind # "null"
    BY <1>2
  <2> QED
    BY <2>1 DEF EntryTypes
<1> HIDE DEF t, v1, v2, p, it
<1>6. r0 \in Registers /\ "b0" \in Registers /\ r0 # "b0" /\ r0 = ReadReg(t) /\ ReadReg("bool") = "b0"
  <2>1. ReadReg("bool") = "b0" /\ "b0" \in Registers
    BY DEF ReadReg, Registers
  <2>2. CASE t = "longlong"
    BY <2>1, <2>2 DEF Reg0, Registers, ReadReg
  <2>3. CASE t = "double"
    BY <2>1, <2>3 DEF Reg0, Registers, ReadReg
  <2>4. CASE t = "decimal"
    BY <2>1, <2>4 DEF Reg0, Registers, ReadReg
  <2> QED
    BY <1>1, <2>2, <2>3, <2>4
<1> HIDE DEF r0
<1>7. Value(v1) \in Results
  BY <1>1 DEF Value, Results, Values
<1>8. rs1 = [rs EXCEPT ![r0] = Value(v1)]
  BY <1>3, Instructions DEF r0
<1>9. rs1 \in [Registers -> Results] /\ rs1[r0] = Value(v1)
  BY <1>6, <1>7, <1>8
<1> HIDE DEF rs1
<1>10. CASE it.kind = "add"
  <2>1. p[2] = Instr("ADD0I", t, v2)
    BY <1>3, <1>10 DEF Gen2, v2, it
  <2>2. rs2 = [rs1 EXCEPT ![r0] = AddAssign(rs1[r0], Value(v2), t)]
    BY <2>1, Instructions DEF r0
  <2>3. AddAssign(Value(v1), Value(v2), t) = Value(Plus(v1, v2, t))
    BY DEF AddAssign, Value
  <2>4. Value(Plus(v1, v2, t)) \in Results
    BY <1>1, <1>10, ArithmeticTypes, AnswerTypes DEF Values
  <2>5. rs2 \in [Registers -> Results] /\ rs2[r0] = Value(Plus(v1, v2, t))
    BY <1>6, <1>9, <2>2, <2>3, <2>4
  <2> QED
    BY <1>1, <1>4, <1>5, <1>6, <1>10, <2>5 DEF p, it
<1>11. CASE it.kind = "uminus"
  <2>1. p[2] = Instr("NEG0", t, 0)
    BY <1>3, <1>11 DEF Gen2
  <2>2. rs2 = [rs1 EXCEPT ![r0].v = Neg(@, t)]
    BY <2>1, Instructions DEF r0
  <2>3. [Value(v1) EXCEPT !.v = Neg(v1, t)] = Value(Neg(v1, t)) /\ Value(v1).v = v1
    BY WithValue DEF Value
  <2>4. Value(Neg(v1, t)) \in Results
    BY <1>1, ArithmeticTypes, AnswerTypes DEF Values
  <2>5. rs2 = [rs1 EXCEPT ![r0] = Value(Neg(v1, t))]
    <3>1. rs2 = [rs1 EXCEPT ![r0] = [rs1[r0] EXCEPT !.v = Neg(rs1[r0].v, t)]]
      BY <2>2
    <3> QED
      BY <1>9, <2>3, <3>1
  <2>6. rs2 \in [Registers -> Results] /\ rs2[r0] = Value(Neg(v1, t))
    BY <1>6, <1>9, <2>4, <2>5
  <2> QED
    BY <1>1, <1>4, <1>5, <1>6, <1>11, <2>6 DEF p, it
<1>12. CASE it.kind = "eq"
  <2>1. p[2] = Instr("EQ0I", t, v2)
    BY <1>3, <1>12 DEF Gen2, v2, it
  <2>2. rs2 = [rs1 EXCEPT !["b0"] = Value(BoolValue(rs1[r0].v = v2))]
    BY <2>1, Instructions DEF r0
  <2>3. Value(v1).v = v1
    BY DEF Value
  <2>4. Value(BoolValue(v1 = v2)) \in Results
    BY AnswerTypes
  <2>5. rs2 = [rs1 EXCEPT !["b0"] = Value(BoolValue(v1 = v2))]
    BY <1>9, <2>2, <2>3
  <2>6. rs2 \in [Registers -> Results] /\ rs2["b0"] = Value(BoolValue(v1 = v2))
    BY <1>6, <1>9, <2>4, <2>5
  <2> QED
    BY <1>1, <1>4, <1>5, <1>6, <1>12, <2>6 DEF p, it
<1> QED
  BY <1>2, <1>10, <1>11, <1>12

-----------------------------------------------------------------------------
(* The invariant.                                                          *)

(* The group whose loop is running evaluates rightly; the flags of the     *)
(* other groups wait in between, null_value as its last user left it.      *)
CallsInv ==
    /\ MachineInv
    /\ FlagsInv
    /\ method = "old" => OldInv
    /\ method = "prm" => PrmInv
    /\ method = "get" => GetInv
    /\ method = "new" => NewInv
    /\ method # "prm" => flags = <<>>

(* Who evaluates, evaluates the item under test.                           *)
LoopInv ==
    /\ method \in Methods \cup {"done"}
    /\ waiting \subseteq Methods \ {method}
    /\ left \in 0 .. Count
    /\ test \in Requests
    /\ test = NoReq => method = "done"
    /\ test # NoReq => /\ test.n \in DOMAIN items
                       /\ test.t \in EntryTypes(items[test.n])
    /\ method = "done" => waiting = {} /\ mode = "idle"
    /\ mode # "idle" => left > 0 /\ m_instr = <<>> /\ req = test

(* The code is that of the item under test.                                *)
CodeInv ==
    /\ regs \in [Registers -> Results]
    /\ m_instr # <<>> => /\ method = "old"
                         /\ test.t # "int32"
                         /\ CanGen(items[test.n])
                         /\ m_instr = Gen(items[test.n])
    /\ RegisterIsAnswer

(* How often the loop over the methods m has gone round, and what a right  *)
(* answer adds each time.                                                  *)
Ended(m) == IF m = method THEN Count - left ELSE IF m \in waiting THEN 0 ELSE Count
Worth == LET r == sem[test.n][test.t] IN IF r.null THEN 0 ELSE Num(r.v)

(* The groups that answer the item under test rightly.                     *)
Rightly(m) == test.n \in Free(Mistaken(m))

SumsInv ==
    /\ sums = [m \in Methods |-> sums[m]]
    /\ test # NoReq => \A m \in Methods : Rightly(m) => sums[m] = Ended(m) * Worth

BenchInv == CallsInv /\ LoopInv /\ CodeInv /\ SumsInv

(* Between two calls every group is ready for the next.                    *)
Idle == mode = "idle" /\ stack = <<>> /\ flags = <<>>

LEMMA IdleGroups ==
    MachineInv /\ FlagsInv /\ Idle => OldInv /\ PrmInv /\ GetInv /\ NewInv
<1> SUFFICES ASSUME MachineInv, FlagsInv, Idle
             PROVE  OldInv /\ PrmInv /\ GetInv /\ NewInv
  OBVIOUS
<1>1. Quiet
  BY NoFrames DEF Idle
<1>2. DOMAIN stack = {} /\ Linked /\ SafeCalls /\ FirstCalls /\ CoalesceCalls
  BY <1>1, EmptySeq DEF Quiet
<1>3. OldInv
  BY <1>2 DEF OldInv, Idle
<1>4. PrmInv
  BY <1>2 DEF PrmInv, Idle
<1>5. GetInv
  BY <1>2 DEF GetInv, OrCalls, Idle
<1>6. NewInv
  BY <1>2 DEF NewInv, Idle
<1> QED
  BY <1>3, <1>4, <1>5, <1>6

LEMMA IdleGroupsNext ==
    MachineInv' /\ FlagsInv' /\ Idle' => OldInv' /\ PrmInv' /\ GetInv' /\ NewInv'
BY IdleGroups, PTL

LEMMA IdleCalls ==
    ASSUME MachineInv', FlagsInv', Idle'
    PROVE  CallsInv'
BY IdleGroupsNext DEF CallsInv, Idle

LEMMA WhenIdle ==
    ASSUME CallsInv, mode = "idle"
    PROVE  Idle /\ req = NoReq
<1>1. stack = <<>> /\ req = NoReq
  BY DEF CallsInv, MachineInv, InOrder, CallsMatchMode
<1>2. flags = <<>>
  BY DEF CallsInv, PrmInv
<1> QED
  BY <1>1, <1>2 DEF Idle

(* The flags are as good as before if nobody touched them.                 *)
LEMMA FlagsKept ==
    ASSUME FlagsInv, UNCHANGED <<items, null_value>>
    PROVE  FlagsInv'
BY DEF FlagsInv

LEMMA StillIdle ==
    ASSUME CallsInv, mode = "idle", UNCHANGED evalVars
    PROVE  CallsInv' /\ Idle' /\ UNCHANGED <<items, sem>>
<1>1. Idle /\ MachineInv /\ FlagsInv
  BY WhenIdle DEF CallsInv
<1>2. /\ UNCHANGED treeVars /\ UNCHANGED machineVars
      /\ UNCHANGED <<items, sem, null_value, flags, mode, stack>>
  BY DEF evalVars, treeVars, machineVars
<1>3. MachineInv' /\ FlagsInv'
  BY <1>1, <1>2, StutterMove, FlagsKept
<1>4. Idle'
  BY <1>1, <1>2 DEF Idle
<1> QED
  BY <1>2, <1>3, <1>4, IdleCalls

(* What is right for the item under test stays so while it stays the same. *)
LEMMA SameTest ==
    ASSUME UNCHANGED <<items, sem, test>>
    PROVE  Worth' = Worth /\ \A m : Rightly(m)' <=> Rightly(m)
<1>1. Worth' = Worth
  BY DEF Worth, Num
<1>2. \A m : Mistaken(m)' = Mistaken(m)
  BY DEF Mistaken, DecimalComparisons, IntegerComparisons, OfKind
<1>3. \A m : (test.n \in Free(Mistaken(m)))' <=> test.n \in Free(Mistaken(m))
  BY <1>2 DEF Free, Closed
<1> QED
  BY <1>1, <1>3 DEF Rightly

(* A statement of a value method is a call or a return, of the same item.  *)
LEMMA Stepping ==
    ASSUME OldStep \/ PrmStep \/ GetStep \/ NewStep
    PROVE  mode # "idle" /\ mode' # "idle" /\ UNCHANGED <<items, sem, req>>
<1>1. ASSUME \/ \E j, i, a : CallAgain(j, i, a)
             \/ \E r : Return(r)
      PROVE  mode' # "idle" /\ UNCHANGED <<items, sem, req>>
  <2>1. ASSUME NEW j, NEW i, NEW a, CallAgain(j, i, a)
        PROVE  mode' # "idle" /\ UNCHANGED <<items, sem, req>>
    BY <2>1 DEF CallAgain
  <2>2. ASSUME NEW r, Return(r)
        PROVE  mode' # "idle" /\ UNCHANGED <<items, sem, req>>
    BY <2>2 DEF Return
  <2> QED
    BY <1>1, <2>1, <2>2
<1>2. \A k, i : Begin(k) \/ Returned(k) \/ After(k, i) => mode # "idle"
  BY DEF Begin, Returned, After
<1>3. CASE OldStep
  <2>1. \/ \E j, i, a : CallAgain(j, i, a)
        \/ \E r : Return(r)
    BY <1>3, Zenon DEF OldStep, OldLeaf, OldAdd, OldUminus, OldOr, OldIsnull, OldCoalesce,
                       OldLastValue, OldEq, SecondOperand, ReturnFlag, CallArg
  <2>2. mode # "idle"
    BY <1>2, <1>3 DEF OldStep, OldLeaf, OldAdd, OldUminus, OldOr, OldIsnull, OldCoalesce,
                      OldLastValue, OldEq
  <2> QED
    BY <1>1, <2>1, <2>2
<1>4. CASE PrmStep
  <2>1. \/ \E j, i, a : CallAgain(j, i, a)
        \/ \E r : Return(r)
    BY <1>4, Zenon DEF PrmStep, PrmLeaf, PrmAdd, PrmUminus, PrmOr, PrmIsnull, PrmCoalesce,
                       PrmLastValue, PrmEq, CallArg
  <2>2. mode # "idle"
    BY <1>2, <1>4 DEF PrmStep, PrmLeaf, PrmAdd, PrmUminus, PrmOr, PrmIsnull, PrmCoalesce,
                      PrmLastValue, PrmEq
  <2> QED
    BY <1>1, <2>1, <2>2
<1>5. CASE GetStep
  <2>1. \/ \E j, i, a : CallAgain(j, i, a)
        \/ \E r : Return(r)
    BY <1>5, Zenon DEF GetStep, GetLeaf, GetAdd, GetUminus, GetOr, GetIsnull, GetCoalesce,
                       GetLastValue, GetEq, CallArg
  <2>2. mode # "idle"
    BY <1>2, <1>5 DEF GetStep, GetLeaf, GetAdd, GetUminus, GetOr, GetIsnull, GetCoalesce,
                      GetLastValue, GetEq
  <2> QED
    BY <1>1, <2>1, <2>2
<1>6. CASE NewStep
  <2>1. \/ \E j, i, a : CallAgain(j, i, a)
        \/ \E r : Return(r)
    BY <1>6, Zenon DEF NewStep, NewLeaf, NewAdd, NewUminus, NewOr, NewIsnull, NewCoalesce,
                       NewLastValue, NewEq, CallArg
  <2>2. mode # "idle"
    BY <1>2, <1>6 DEF NewStep, NewLeaf, NewAdd, NewUminus, NewOr, NewIsnull, NewCoalesce,
                      NewLastValue, NewEq
  <2> QED
    BY <1>1, <2>1, <2>2
<1> QED
  BY <1>3, <1>4, <1>5, <1>6

(* What the item under test is worth.                                      *)
Testing == test # NoReq

LEMMA WorthTypes ==
    CallsInv /\ LoopInv /\ Testing => Worth \in Int /\ sem[test.n][test.t] \in Results
<1> SUFFICES ASSUME CallsInv, LoopInv, Testing
             PROVE  Worth \in Int /\ sem[test.n][test.t] \in Results
  OBVIOUS
<1>1. TreeInv /\ PlainSem /\ test.n \in DOMAIN items /\ test.t \in ValueTypes
  BY DEF CallsInv, MachineInv, TypeInv, TreeFacts, LoopInv, Testing, Requests
<1>2. sem[test.n][test.t] \in Answers /\ sem[test.n][test.t].v # Junk
  BY <1>1, SemTypes DEF PlainSem, PlainAnswer
<1>3. sem[test.n][test.t].v \in Int \cup {NegZero}
  BY <1>2 DEF Answers, Results, Values
<1> QED
  BY <1>2, <1>3 DEF Worth, Num, Answers

WorthIsNumber == Worth \in Int

LEMMA WorthHolds == CallsInv /\ LoopInv /\ Testing => WorthIsNumber
BY WorthTypes DEF WorthIsNumber

LEMMA WorthNext == CallsInv' /\ LoopInv' /\ Testing' => Worth' \in Int
<1>1. CallsInv' /\ LoopInv' /\ Testing' => WorthIsNumber'
  BY WorthHolds, PTL
<1> QED
  BY <1>1 DEF WorthIsNumber

(* Going round once more with a right answer.                              *)
LEMMA OneMore ==
    ASSUME CallsInv, LoopInv, Testing, NEW m, NEW s, s = Ended(m) * Worth,
           m = method, left > 0
    PROVE  LET r == sem[test.n][test.t]
           IN  (IF r.null THEN s ELSE s + Num(r.v)) = (Count - (left - 1)) * Worth
<1>1. Worth \in Int /\ left \in Int /\ Count \in Int
  BY WorthTypes, CountAssumption DEF LoopInv
<1>2. s = (Count - left) * Worth
  BY DEF Ended
<1>3. ASSUME NEW e \in Int, NEW w \in Int PROVE (e + 1) * w = e * w + w /\ e * w + 0 = e * w
  BY <1>3
<1>4. Count - (left - 1) = (Count - left) + 1 /\ Count - left \in Int
  BY <1>1
<1>5. (Count - (left - 1)) * Worth = s + Worth
  BY <1>1, <1>2, <1>3, <1>4
<1>6. s \in Int
  BY <1>1, <1>2
<1> QED
  BY <1>5, <1>6 DEF Worth

-----------------------------------------------------------------------------
(* The steps.                                                              *)

LEMMA FreshTypes == FreshRegs \in [Registers -> Results]
BY AnswerTypes DEF FreshRegs

LEMMA BuildKept == BenchInv /\ BuildItem => BenchInv'
<1> SUFFICES ASSUME BenchInv, BuildItem PROVE BenchInv'
  OBVIOUS
<1>1. CallsInv /\ LoopInv /\ CodeInv /\ SumsInv
  BY DEF BenchInv
<1>2. /\ test = NoReq /\ method = "done" /\ m_instr = <<>> /\ OldBuild
      /\ UNCHANGED <<flags, test, method, waiting, left, sums, vm, m_instr, regs>>
  BY <1>1 DEF BuildItem, LoopInv, CodeInv, loopVars
<1>3. mode = "idle" /\ Idle
  BY <1>1, <1>2, WhenIdle DEF LoopInv
<1>4. MachineInv /\ FlagsInv /\ OldInv
  BY <1>1, <1>3, IdleGroups DEF CallsInv
<1>5. OldInv'
  BY <1>2, <1>4, OldBuildStep
<1>6. Idle' /\ mode' = "idle"
  BY <1>2, <1>3 DEF OldBuild, Build, machineVars, Idle
<1>7. CallsInv'
  BY <1>5, <1>6, IdleCalls DEF OldInv
<1>8. LoopInv'
  BY <1>1, <1>2, <1>6 DEF LoopInv
<1>9. CodeInv'
  BY <1>1, <1>2 DEF CodeInv, RegisterIsAnswer
<1>10. SumsInv'
  BY <1>1, <1>2 DEF SumsInv
<1> QED
  BY <1>7, <1>8, <1>9, <1>10 DEF BenchInv

(* A loop that has begun.                                                  *)
LEMMA LoopBegun ==
    ASSUME NEW m \in Methods, BeginLoop(m, test'), items' = items
    PROVE  CodeInv'
<1>1. regs' \in [Registers -> Results] /\ left' = Count /\ method' = m
  BY FreshTypes DEF BeginLoop
<1>2. RegisterIsAnswer'
  BY <1>1, CountAssumption DEF RegisterIsAnswer
<1>3. m_instr' # <<>> => /\ method' = "old"
                         /\ test'.t # "int32"
                         /\ CanGen(items[test'.n])
                         /\ m_instr' = Gen(items[test'.n])
  BY DEF BeginLoop
<1>4. m_instr' # <<>> => (/\ method = "old"
                          /\ test.t # "int32"
                          /\ CanGen(items[test.n])
                          /\ m_instr = Gen(items[test.n]))'
  BY <1>3 DEF CanGen, Gen, Gen2, Literal
<1> QED
  BY <1>1, <1>2, <1>4 DEF CodeInv

LEMMA StartKept ==
    ASSUME BenchInv, NEW n \in DOMAIN items, NEW T \in ValueTypes, StartTest(n, T)
    PROVE  BenchInv'
<1>1. CallsInv /\ LoopInv /\ CodeInv /\ SumsInv
  BY DEF BenchInv
<1>2. /\ test = NoReq /\ method = "done" /\ mode = "idle"
      /\ T \in EntryTypes(items[n])
      /\ test' = [n |-> n, t |-> T] /\ sums' = NoSums
      /\ UNCHANGED evalVars
  BY <1>1 DEF StartTest, LoopInv
<1>3. PICK m \in Methods : BeginLoop(m, test') /\ waiting' = Methods \ {m}
  BY DEF StartTest
<1>4. CallsInv' /\ Idle' /\ UNCHANGED <<items, sem>>
  BY <1>1, <1>2, StillIdle
<1>5. CodeInv'
  BY <1>3, <1>4, LoopBegun
<1>6. method' = m /\ left' = Count
  BY <1>3 DEF BeginLoop
<1>7. test'.n = n /\ test'.t = T /\ test' # NoReq /\ test' \in Requests
  <2>1. n \in Nat /\ n # 0
    BY <1>1, LenProperties
       DEF CallsInv, MachineInv, TypeInv, TreeInv, TreeTypeOK
  <2> QED
    BY <1>2, <2>1 DEF NoReq, Requests
<1>8. LoopInv'
  <2>1. method' # "done" /\ left' \in 0 .. Count
    BY <1>6, CountAssumption DEF Methods
  <2>2. test'.t \in EntryTypes(items[test.n])'
    BY <1>2, <1>4, <1>7 DEF EntryTypes
  <2> QED
    BY <1>3, <1>4, <1>6, <1>7, <2>1, <2>2 DEF LoopInv, Idle
<1>9. SumsInv'
  <2>1. Worth' \in Int
    BY <1>4, <1>7, <1>8, WorthNext DEF Testing
  <2>2. ASSUME NEW k \in Methods PROVE Ended(k)' = 0 /\ sums'[k] = 0
    <3>1. Count - left' = 0
      BY <1>6, CountAssumption
    <3>2. k = method' \/ k \in waiting'
      BY <1>3, <1>6
    <3>3. Ended(k)' = 0
      BY <3>1, <3>2 DEF Ended
    <3>4. sums'[k] = 0
      BY <1>2 DEF NoSums
    <3> QED
      BY <3>3, <3>4
  <2>3. 0 * Worth' = 0
    <3>1. ASSUME NEW w \in Int PROVE 0 * w = 0
      BY <3>1
    <3> QED
      BY <2>1, <3>1
  <2>4. sums' = [k \in Methods |-> sums'[k]]
    BY <1>2 DEF NoSums
  <2> QED
    BY <2>2, <2>3, <2>4 DEF SumsInv
<1> QED
  BY <1>4, <1>5, <1>8, <1>9 DEF BenchInv

(* No loop has gone round.                                                 *)
LEMMA StillCounted ==
    ASSUME CodeInv, SumsInv,
           UNCHANGED <<items, sem, test, method, waiting, left, sums, m_instr, regs>>
    PROVE  CodeInv' /\ SumsInv'
<1>1. CodeInv'
  BY DEF CodeInv, RegisterIsAnswer, CanGen, Gen, Gen2, Literal, Norm
<1>2. Worth' = Worth /\ \A m : Rightly(m)' <=> Rightly(m)
  BY SameTest
<1>3. \A m : Ended(m)' = Ended(m)
  BY DEF Ended
<1> QED
  BY <1>1, <1>2, <1>3 DEF SumsInv

(* The loop has gone round once more, with the answer a.                   *)
LEMMA OnceRound ==
    ASSUME CallsInv, LoopInv, SumsInv, Testing, method \in Methods, left > 0,
           NEW a, Rightly(method) => a = sem[test.n][test.t],
           sums' = IF a.null THEN sums ELSE [sums EXCEPT ![method] = @ + Num(a.v)],
           left' = left - 1, UNCHANGED <<items, sem, test, method, waiting>>
    PROVE  SumsInv'
<1>1. Worth' = Worth /\ \A m : Rightly(m)' <=> Rightly(m)
  BY SameTest
<1>2. sums' = [m \in Methods |-> sums'[m]]
  BY DEF SumsInv
<1>3. \A m \in Methods : m # method => sums'[m] = sums[m] /\ Ended(m)' = Ended(m)
  BY DEF SumsInv, Ended
<1>4. Ended(method)' = Count - (left - 1)
  BY DEF Ended
<1>5. ASSUME Rightly(method) PROVE sums'[method] = Ended(method)' * Worth
  <2>1. sums[method] = Ended(method) * Worth
    BY <1>5 DEF SumsInv, Testing
  <2>2. sums'[method] = IF a.null THEN sums[method] ELSE sums[method] + Num(a.v)
    BY DEF SumsInv
  <2> QED
    BY <1>4, <1>5, <2>1, <2>2, OneMore
<1>6. ASSUME NEW m \in Methods, Rightly(m)' PROVE sums'[m] = Ended(m)' * Worth'
  <2>1. CASE m = method
    BY <1>1, <1>5, <1>6, <2>1
  <2>2. CASE m # method
    BY <1>1, <1>3, <1>6, <2>2 DEF SumsInv, Testing
  <2> QED
    BY <2>1, <2>2
<1> QED
  BY <1>2, <1>6 DEF SumsInv

(* The call of a value method.                                             *)
LEMMA CallKept == BenchInv /\ CallMethod => BenchInv'
<1> SUFFICES ASSUME BenchInv, CallMethod PROVE BenchInv'
  OBVIOUS
<1>1. CallsInv /\ LoopInv /\ CodeInv /\ SumsInv
  BY DEF BenchInv
<1>2. /\ method # "done" /\ m_instr = <<>> /\ left > 0 /\ Enter(test.n, test.t)
      /\ method = "prm" => NewLocal(<<>>)
      /\ method # "prm" => UNCHANGED flags
      /\ UNCHANGED <<null_value, test, method, waiting, left, sums, vm, m_instr, regs>>
  BY DEF CallMethod, loopVars
<1>3. test # NoReq /\ test.n \in DOMAIN items /\ test.t \in ValueTypes /\ test \in Requests
  BY <1>1, <1>2 DEF LoopInv, Requests
<1>4. Invoke /\ Ask(test.n, test.t)
  BY <1>2, <1>3 DEF Invoke, Enter
<1>5. MachineInv' /\ UNCHANGED <<items, sem>> /\ mode' = "call"
      /\ req' = [n |-> test.n, t |-> test.t]
  BY <1>1, <1>3, <1>4, AskMove DEF CallsInv, Ask
<1>6. FlagsInv'
  BY <1>1, <1>2, <1>5, FlagsKept DEF CallsInv
<1>7. method = "old" => OldInv'
  BY <1>1, <1>2, <1>4, OldDriver DEF CallsInv, KeepNull
<1>8. method = "prm" => PrmInv'
  BY <1>1, <1>2, <1>4, PrmInvokeStep DEF CallsInv, PrmInvoke
<1>9. method = "get" => GetInv'
  BY <1>1, <1>4, GetDriver DEF CallsInv
<1>10. method = "new" => NewInv'
  BY <1>1, <1>4, NewDriver DEF CallsInv
<1>11. CallsInv'
  BY <1>1, <1>2, <1>5, <1>6, <1>7, <1>8, <1>9, <1>10 DEF CallsInv
<1>12. req' = test /\ UNCHANGED test
  BY <1>2, <1>3, <1>5 DEF Requests
<1>13. LoopInv'
  BY <1>1, <1>2, <1>5, <1>12 DEF LoopInv, EntryTypes
<1>14. CodeInv' /\ SumsInv'
  BY <1>1, <1>2, <1>5, StillCounted
<1> QED
  BY <1>11, <1>13, <1>14 DEF BenchInv

(* A statement of the method.                                              *)
LEMMA StepKept == BenchInv /\ StepMethod => BenchInv'
<1> SUFFICES ASSUME BenchInv, StepMethod PROVE BenchInv'
  OBVIOUS
<1>1. CallsInv /\ LoopInv /\ CodeInv /\ SumsInv
  BY DEF BenchInv
<1>2. UNCHANGED <<test, method, waiting, left, sums, vm, m_instr, regs>>
  BY DEF StepMethod, loopVars
<1>3. mode # "idle" /\ mode' # "idle" /\ UNCHANGED <<items, sem, req>>
  BY Stepping DEF StepMethod
<1>4. CallsInv'
  <2>1. CASE method = "old" /\ OldStep /\ UNCHANGED flags
    <3>1. OldInv'
      BY <1>1, <2>1, OldSteps DEF CallsInv
    <3> QED
      BY <1>1, <1>2, <2>1, <3>1 DEF CallsInv, OldInv
  <2>2. CASE method = "prm" /\ PrmStep /\ UNCHANGED null_value
    <3>1. PrmInv' /\ FlagsInv'
      BY <1>1, <1>3, <2>2, PrmSteps, FlagsKept DEF CallsInv
    <3> QED
      BY <1>1, <1>2, <2>2, <3>1 DEF CallsInv, PrmInv
  <2>3. CASE method = "get" /\ GetStep /\ UNCHANGED <<null_value, flags>>
    <3>1. GetInv' /\ FlagsInv'
      BY <1>1, <1>3, <2>3, GetSteps, FlagsKept DEF CallsInv
    <3> QED
      BY <1>1, <1>2, <2>3, <3>1 DEF CallsInv, GetInv
  <2>4. CASE method = "new" /\ NewStep /\ UNCHANGED <<null_value, flags>>
    <3>1. NewInv' /\ FlagsInv'
      BY <1>1, <1>3, <2>4, NewSteps, FlagsKept DEF CallsInv
    <3> QED
      BY <1>1, <1>2, <2>4, <3>1 DEF CallsInv, NewInv
  <2> QED
    BY <2>1, <2>2, <2>3, <2>4 DEF StepMethod
<1>5. LoopInv'
  BY <1>1, <1>2, <1>3 DEF LoopInv, EntryTypes
<1>6. CodeInv' /\ SumsInv'
  BY <1>1, <1>2, <1>3, StillCounted
<1> QED
  BY <1>4, <1>5, <1>6 DEF BenchInv

(* The loop takes the answer.                                              *)
LEMMA AddUpKept == BenchInv /\ AddUp => BenchInv'
<1> SUFFICES ASSUME BenchInv, AddUp PROVE BenchInv'
  OBVIOUS
<1>1. CallsInv /\ LoopInv /\ CodeInv /\ SumsInv
  BY DEF BenchInv
<1>2. /\ Leave /\ left' = left - 1 /\ flags' = <<>>
      /\ sums' = IF Answer.null THEN sums
                 ELSE [sums EXCEPT ![method] = @ + Num(Answer.v)]
      /\ UNCHANGED <<null_value, test, method, waiting, vm, m_instr, regs>>
  BY DEF AddUp
<1>3. mode = "ret" /\ stack = <<>>
  BY <1>2 DEF Leave
<1>4. /\ req = test /\ left > 0 /\ m_instr = <<>> /\ method \in Methods
      /\ test # NoReq /\ left \in Nat /\ Testing
  BY <1>1, <1>3 DEF LoopInv, Testing
<1>5. MachineInv' /\ Quiet' /\ mode' = "idle" /\ UNCHANGED <<items, sem>>
  BY <1>1, <1>2, LeaveMove DEF CallsInv
<1>6. CallsInv'
  BY <1>1, <1>2, <1>5, FlagsKept, IdleCalls DEF CallsInv, Idle, Quiet
<1>7. LoopInv'
  <2>1. left' \in 0 .. Count
    BY <1>1, <1>2, <1>4, CountAssumption DEF LoopInv
  <2>2. method # "done"
    BY <1>4 DEF Methods
  <2> QED
    BY <1>1, <1>2, <1>4, <1>5, <2>1, <2>2 DEF LoopInv, EntryTypes
<1>8. CodeInv'
  BY <1>1, <1>2, <1>4 DEF CodeInv, RegisterIsAnswer
<1>9. Rightly(method) => Answer = sem[test.n][test.t]
  <2>1. CASE method = "old"
    BY <1>1, <1>3, <1>4, <2>1, OldRight
       DEF CallsInv, OldAnswerCorrect, Rightly, Mistaken, Answer
  <2>2. CASE method = "prm"
    BY <1>1, <1>3, <1>4, <2>2, PrmRight
       DEF CallsInv, PrmAnswerCorrect, Rightly, Mistaken, Answer
  <2>3. CASE method = "get"
    BY <1>1, <1>3, <1>4, <2>3, GetRight DEF CallsInv, GetAnswerCorrect, Answer
  <2>4. CASE method = "new"
    BY <1>1, <1>3, <1>4, <2>4, NewRight
       DEF CallsInv, NewAnswerCorrect, Rightly, Mistaken, Answer
  <2> QED
    BY <1>4, <2>1, <2>2, <2>3, <2>4 DEF Methods
<1>10. SumsInv'
  BY <1>1, <1>2, <1>4, <1>5, <1>9, OnceRound
<1> QED
  BY <1>6, <1>7, <1>8, <1>10 DEF BenchInv

(* The loop executes the code.                                             *)
LEMMA ExecKept == BenchInv /\ ExecVM => BenchInv'
<1> SUFFICES ASSUME BenchInv, ExecVM PROVE BenchInv'
  OBVIOUS
<1>1. CallsInv /\ LoopInv /\ CodeInv /\ SumsInv
  BY DEF BenchInv
<1> DEFINE r == regs'[ReadReg(test.t)]
<1>2. /\ m_instr # <<>> /\ left > 0
      /\ regs' = exec(m_instr, regs)
      /\ sums' = IF r.null THEN sums ELSE [sums EXCEPT ![method] = @ + Num(r.v)]
      /\ left' = left - 1
      /\ UNCHANGED evalVars
      /\ UNCHANGED <<test, method, waiting, vm, m_instr>>
  BY DEF ExecVM
<1>3. /\ method = "old" /\ test.t # "int32" /\ CanGen(items[test.n])
      /\ m_instr = Gen(items[test.n]) /\ regs \in [Registers -> Results]
  BY <1>1, <1>2 DEF CodeInv
<1>4. /\ method \in Methods /\ method # "done" /\ Testing /\ test # NoReq
      /\ mode = "idle" /\ left \in Nat
      /\ test.n \in DOMAIN items /\ test.t \in EntryTypes(items[test.n])
  BY <1>1, <1>2, <1>3 DEF LoopInv, Methods, Testing
<1>5. TreeInv
  BY <1>1 DEF CallsInv, MachineInv, TypeInv
<1>6. regs' \in [Registers -> Results] /\ r = sem[test.n][test.t]
  BY <1>2, <1>3, <1>4, <1>5, CodeRight
<1>7. CallsInv' /\ Idle' /\ UNCHANGED <<items, sem>>
  BY <1>1, <1>2, <1>4, StillIdle
<1>8. LoopInv'
  <2>1. left' \in 0 .. Count
    BY <1>1, <1>2, <1>4, CountAssumption DEF LoopInv
  <2> QED
    BY <1>1, <1>2, <1>4, <1>7, <2>1 DEF LoopInv, EntryTypes, Idle
<1>9. CodeInv'
  <2>1. sem[test.n][test.t] \in Answers
    BY <1>1, <1>4, <1>5, SemTypes DEF LoopInv, Requests
  <2>2. Norm(r) = sem[test.n][test.t]
    BY <1>6, <2>1 DEF Norm, Answers, Normal
  <2>3. RegisterIsAnswer'
    BY <1>2, <1>7, <2>2 DEF RegisterIsAnswer, Norm, ReadReg
  <2> QED
    BY <1>2, <1>3, <1>6, <1>7, <2>3 DEF CodeInv, CanGen, Gen, Gen2, Literal
<1>10. SumsInv'
  <2> HIDE DEF r
  <2> QED
    BY <1>1, <1>2, <1>4, <1>6, <1>7, OnceRound
<1> QED
  BY <1>7, <1>8, <1>9, <1>10 DEF BenchInv

(* The next loop begins where one has ended.                               *)
LEMMA NextLoopKept == BenchInv /\ NextLoop => BenchInv'
<1> SUFFICES ASSUME BenchInv, NextLoop PROVE BenchInv'
  OBVIOUS
<1>1. CallsInv /\ LoopInv /\ CodeInv /\ SumsInv
  BY DEF BenchInv
<1>2. /\ method # "done" /\ mode = "idle" /\ left = 0
      /\ UNCHANGED evalVars /\ UNCHANGED <<test, sums, vm>>
  BY DEF NextLoop, LoopEnded
<1>3. PICK m \in waiting : BeginLoop(m, test) /\ waiting' = waiting \ {m}
  BY DEF NextLoop
<1>4. /\ waiting \subseteq Methods \ {method} /\ method \in Methods
      /\ m \in Methods /\ m # method /\ m # "done" /\ test # NoReq
  BY <1>1, <1>2, <1>3 DEF LoopInv, Methods
<1>5. method' = m /\ left' = Count
  BY <1>3 DEF BeginLoop
<1>6. CallsInv' /\ Idle' /\ UNCHANGED <<items, sem>>
  BY <1>1, <1>2, StillIdle
<1>7. LoopInv'
  <2>1. left' \in 0 .. Count
    BY <1>5, CountAssumption
  <2> QED
    BY <1>1, <1>2, <1>3, <1>4, <1>5, <1>6, <2>1 DEF LoopInv, EntryTypes, Idle
<1>8. CodeInv'
  <2>1. BeginLoop(m, test')
    BY <1>2, <1>3
  <2> QED
    BY <1>4, <1>6, <2>1, LoopBegun
<1>9. SumsInv'
  <2>1. Worth' = Worth /\ \A k : Rightly(k)' <=> Rightly(k)
    BY <1>2, <1>6, SameTest
  <2>2. ASSUME NEW k \in Methods PROVE Ended(k)' = Ended(k)
    <3>1. CASE k = m
      BY <1>3, <1>4, <1>5, <3>1, CountAssumption DEF Ended
    <3>2. CASE k = method
      BY <1>2, <1>3, <1>4, <1>5, <3>2, CountAssumption DEF Ended
    <3>3. CASE k # m /\ k # method
      BY <1>3, <1>4, <1>5, <3>3 DEF Ended
    <3> QED
      BY <3>1, <3>2, <3>3
  <2> QED
    BY <1>1, <1>2, <2>1, <2>2 DEF SumsInv
<1> QED
  BY <1>6, <1>7, <1>8, <1>9 DEF BenchInv

(* The last has ended.                                                     *)
LEMMA LastLoopKept == BenchInv /\ LastLoop => BenchInv'
<1> SUFFICES ASSUME BenchInv, LastLoop PROVE BenchInv'
  OBVIOUS
<1>1. CallsInv /\ LoopInv /\ CodeInv /\ SumsInv
  BY DEF BenchInv
<1>2. /\ method # "done" /\ mode = "idle" /\ left = 0 /\ waiting = {}
      /\ method' = "done" /\ m_instr' = <<>> /\ regs' = FreshRegs
      /\ UNCHANGED evalVars /\ UNCHANGED <<test, waiting, left, sums, vm>>
  BY DEF LastLoop, LoopEnded
<1>3. CallsInv' /\ Idle' /\ UNCHANGED <<items, sem>>
  BY <1>1, <1>2, StillIdle
<1>4. LoopInv'
  BY <1>1, <1>2, <1>3 DEF LoopInv, EntryTypes, Idle
<1>5. CodeInv'
  BY <1>2, FreshTypes DEF CodeInv, RegisterIsAnswer
<1>6. SumsInv'
  <2>1. Worth' = Worth /\ \A k : Rightly(k)' <=> Rightly(k)
    BY <1>2, <1>3, SameTest
  <2>2. ASSUME NEW k \in Methods PROVE Ended(k)' = Ended(k)
    <3>1. k # "done"
      BY DEF Methods
    <3> QED
      BY <1>2, <3>1, CountAssumption DEF Ended
  <2> QED
    BY <1>1, <1>2, <2>1, <2>2 DEF SumsInv
<1> QED
  BY <1>3, <1>4, <1>5, <1>6 DEF BenchInv

(* The sums are printed.                                                   *)
LEMMA EndKept == BenchInv /\ EndTest => BenchInv'
<1> SUFFICES ASSUME BenchInv, EndTest PROVE BenchInv'
  OBVIOUS
<1>1. CallsInv /\ LoopInv /\ CodeInv /\ SumsInv
  BY DEF BenchInv
<1>2. /\ method = "done" /\ test' = NoReq /\ sums' = NoSums
      /\ UNCHANGED evalVars
      /\ UNCHANGED <<method, waiting, left, vm, m_instr, regs>>
  BY DEF EndTest
<1>3. mode = "idle" /\ m_instr = <<>>
  BY <1>1, <1>2 DEF LoopInv, CodeInv
<1>4. CallsInv' /\ Idle'
  BY <1>1, <1>2, <1>3, StillIdle
<1>5. LoopInv'
  BY <1>1, <1>2, <1>4 DEF LoopInv, Idle, NoReq, Requests, ValueTypes
<1>6. CodeInv'
  BY <1>1, <1>2, <1>3 DEF CodeInv, RegisterIsAnswer
<1>7. SumsInv'
  BY <1>2 DEF SumsInv, NoSums
<1> QED
  BY <1>4, <1>5, <1>6, <1>7 DEF BenchInv

LEMMA StutterKept == BenchInv /\ UNCHANGED benchVars => BenchInv'
<1> SUFFICES ASSUME BenchInv, UNCHANGED benchVars PROVE BenchInv'
  OBVIOUS
<1>1. CallsInv /\ LoopInv /\ CodeInv /\ SumsInv
  BY DEF BenchInv
<1>2. /\ UNCHANGED <<test, method, waiting, left, sums, vm, m_instr, regs>>
      /\ UNCHANGED <<items, sem, mode, req, null_value, flags>>
      /\ UNCHANGED treeVars /\ UNCHANGED machineVars
      /\ UNCHANGED oldVars /\ UNCHANGED prmVars
      /\ UNCHANGED getVars /\ UNCHANGED newVars
  BY DEF benchVars, treeVars, machineVars, oldVars, prmVars, getVars, newVars
<1>3. MachineInv' /\ FlagsInv'
  BY <1>1, <1>2, StutterMove, FlagsKept DEF CallsInv
<1>4. /\ method = "old" => OldInv'
      /\ method = "prm" => PrmInv'
      /\ method = "get" => GetInv'
      /\ method = "new" => NewInv'
  BY <1>1, <1>2, OldDriver, PrmStutter, GetDriver, NewDriver DEF CallsInv
<1>5. CallsInv'
  BY <1>1, <1>2, <1>3, <1>4 DEF CallsInv
<1>6. LoopInv'
  BY <1>1, <1>2 DEF LoopInv, EntryTypes
<1>7. CodeInv' /\ SumsInv'
  BY <1>1, <1>2, StillCounted
<1> QED
  BY <1>5, <1>6, <1>7 DEF BenchInv

LEMMA BenchStart == Init => BenchInv
<1> SUFFICES ASSUME Init PROVE BenchInv
  OBVIOUS
<1>1. /\ TreeInit /\ MachineInit /\ flags = <<>> /\ LoopInit
      /\ null_value = [i \in DOMAIN LeafPool |-> LeafPool[i].kind = "null"]
  BY DEF Init
<1>2. MachineInv /\ Quiet /\ mode = "idle"
  BY <1>1, InitMove
<1>3. FlagsInv
  BY <1>1, OldStart DEF OldInit, OldInv
<1>4. CallsInv
  BY <1>1, <1>2, <1>3, IdleGroups DEF CallsInv, Idle, Quiet
<1>5. /\ test = NoReq /\ method = "done" /\ waiting = {} /\ left = 0 /\ sums = NoSums
      /\ m_instr = <<>> /\ regs = FreshRegs
  BY <1>1 DEF LoopInit
<1>6. LoopInv
  BY <1>2, <1>5, CountAssumption DEF LoopInv, NoReq, Requests, ValueTypes
<1>7. CodeInv
  BY <1>5, FreshTypes DEF CodeInv, RegisterIsAnswer
<1>8. SumsInv
  BY <1>5 DEF SumsInv, NoSums
<1> QED
  BY <1>4, <1>6, <1>7, <1>8 DEF BenchInv

LEMMA BenchKept == BenchInv /\ [Next]_benchVars => BenchInv'
BY BuildKept, StartKept, CallKept, StepKept, AddUpKept, ExecKept, NextLoopKept,
   LastLoopKept, EndKept, StutterKept DEF Next, Go

THEOREM BenchInvariance == Spec => []BenchInv
BY BenchStart, BenchKept, PTL DEF Spec

-----------------------------------------------------------------------------
(* The results.                                                            *)

(* What the loop over val_xxx() finds in the register it reads, when it    *)
(* executes generated code instead of calling the item, is the item's      *)
(* value: gen() and the loops of test_b_vm() ... agree on the register,    *)
(* and no iteration depends on what the one before left in it.             *)
THEOREM RegisterIsRight == Spec => []RegisterIsAnswer
<1>1. BenchInv => RegisterIsAnswer
  BY DEF BenchInv, CodeInv
<1> QED
  BY <1>1, BenchInvariance, PTL

(* The sum a test prints for a group of methods that answers such items    *)
(* rightly is `Count' times the value of the item, or 0 if that is NULL.   *)
RightSums ==
    test # NoReq /\ method = "done" =>
        \A m \in Methods : Rightly(m) => sums[m] = Count * Worth

LEMMA SumsAtTheEnd == BenchInv => RightSums
<1> SUFFICES ASSUME BenchInv, test # NoReq, method = "done",
                    NEW m \in Methods, Rightly(m)
             PROVE  sums[m] = Count * Worth
  BY DEF RightSums
<1>1. sums[m] = Ended(m) * Worth /\ waiting = {}
  BY DEF BenchInv, SumsInv, LoopInv
<1>2. m # "done"
  BY DEF Methods
<1>3. Ended(m) = Count
  BY <1>1, <1>2 DEF Ended
<1> QED
  BY <1>1, <1>3

(* The loops of ./test add up what they should, in whichever order C++     *)
(* evaluates the four arguments, whatever the null_value of a new item and *)
(* the flags of test_X_prm() held, and by evaluation as by --vm.           *)
THEOREM SumsOfRightGroups == Spec => []RightSums
BY SumsAtTheEnd, BenchInvariance, PTL

(* README: the sums are printed "to make sure that different value methods *)
(* return the same sum".  They do, for an item that contains nothing the   *)
(* code of one of the groups is mistaken about.                            *)
THEOREM SumsOfSoundItemsAgree ==
    Spec => []((\A m \in Methods : Rightly(m)) => SumsAgree)
<1>1. BenchInv => ((\A m \in Methods : Rightly(m)) => SumsAgree)
  <2> SUFFICES ASSUME BenchInv, \A m \in Methods : Rightly(m),
                      test # NoReq, method = "done"
               PROVE  \A m \in Methods : sums[m] = sums["old"]
    BY DEF SumsAgree
  <2>1. \A m \in Methods : sums[m] = Count * Worth
    BY SumsAtTheEnd DEF RightSums
  <2>2. "old" \in Methods
    BY DEF Methods
  <2> QED
    BY <2>1, <2>2
<1> QED
  BY <1>1, BenchInvariance, PTL

-----------------------------------------------------------------------------
(* The free test of FixedTests.                                            *)

FreeInv == script = FreeTest /\ BenchInv

LEMMA FreeLeaves == FreeTest.leaves = LeafPool
BY DEF FreeTest, Native

LEMMA FreeStart == FixedInit /\ script = FreeTest => Init
BY FreeLeaves DEF FixedInit, Init, TreeInit

LEMMA FreeKept ==
    ASSUME script = FreeTest, [FixedNext]_fixedVars
    PROVE  script' = FreeTest /\ [Next]_benchVars
<1>1. CASE Anything
  BY <1>1 DEF Anything, Next, scriptVars
<1>2. CASE Continue
  BY <1>2 DEF Continue, Next, scriptVars
<1>3. CASE UNCHANGED fixedVars
  BY <1>3 DEF fixedVars
<1>4. ~New_item /\ ~Measure
  BY DEF New_item, Measure
<1> QED
  BY <1>1, <1>2, <1>3, <1>4 DEF FixedNext

(* A test that makes and measures what it likes behaves as Bench says.     *)
THEOREM FreeTestIsBench == FixedSpec /\ script = FreeTest => Spec
<1> DEFINE Free0 == script = FreeTest
           Steps == [Next]_benchVars
<1>1. FixedInit /\ Free0 => Init
  BY FreeStart
<1>2. Free0 /\ [FixedNext]_fixedVars => Free0' /\ Steps
  BY FreeKept
<1> HIDE DEF Free0
<1>3. FixedSpec /\ Free0 => Spec
  BY <1>1, <1>2, PTL DEF FixedSpec, Spec
<1> QED
  BY <1>3 DEF Free0

LEMMA FreeSums == FreeInv => SumsAreRight
<1> SUFFICES ASSUME FreeInv, test # NoReq, method = "done", NEW m \in Methods,
                    test.n \in Free(Mistaken(m))
             PROVE  LET r == sem[test.n][test.t]
                    IN  sums[m] = IF r.null THEN 0 ELSE Count * Num(r.v)
  BY DEF SumsAreRight, FreeInv
<1>1. sums[m] = Count * Worth
  BY SumsAtTheEnd DEF FreeInv, RightSums, Rightly
<1>2. Count * 0 = 0
  BY CountAssumption
<1> QED
  BY <1>1, <1>2 DEF Worth

(* The sums of any test of any item are right, for the groups that are not *)
(* mistaken about it.                                                      *)
THEOREM FreeTestsAreRight == FixedSpec /\ script = FreeTest => []SumsAreRight
<1> DEFINE Free0 == script = FreeTest
<1>1. FixedInit /\ Free0 => FreeInv
  BY FreeStart, BenchStart DEF FreeInv
<1>2. FreeInv /\ [FixedNext]_fixedVars => FreeInv'
  BY FreeKept, BenchKept DEF FreeInv
<1> HIDE DEF Free0
<1>3. FixedSpec /\ Free0 => []SumsAreRight
  BY <1>1, <1>2, FreeSums, PTL DEF FixedSpec
<1> QED
  BY <1>3 DEF Free0
=============================================================================
