---------------------------- MODULE ItemGroupsProofs ----------------------------
(***************************************************************************)
(* The memory of the literals is written by nobody, whatever expressions   *)
(* are built over them and in whatever order they are evaluated; and a     *)
(* driver that has picked one group of value methods sees what the module  *)
(* of that group promises.                                                 *)
(***************************************************************************)
EXTENDS ItemGroups, ItemMethodProofs

(* A buffer that is passed is no literal: the null pointer or a local. *)
Buffers == {p \in Addresses : p[1] # 0 \/ p = NULL}
Holdings == [to : Buffers, val0 : Addresses]

PtrInv ==
    /\ OldInv
    /\ calls \in Seq(Holdings)
    /\ Len(calls) = Len(stack)
    /\ res \in Addresses
    /\ \A n \in DOMAIN items :
         items[n].kind = "decimal" =>
            /\ <<0, n>> \in DOMAIN mem
            /\ mem[<<0, n>>] = items[n].val

-----------------------------------------------------------------------------
(* The pointers do not disturb what ItemOld does. *)
LEMMA PtrImplements == PtrSpec => OldSpec
<1>1. PtrInit => OldInit
  BY DEF PtrInit
<1>2. [PtrNext]_ptrVars => [OldNext]_oldVars
  BY DEF PtrNext, PtrBuild, PtrInvoke, Call, Returning, PtrLeave, OldNext, Invoke,
         ptrVars, oldVars, ValueTypes
<1> QED
  BY <1>1, <1>2, PTL DEF PtrSpec, OldSpec

(* A step of an evaluation leaves the items, and pushes or pops a frame.   *)
LEMMA ReturnPops ==
    ASSUME PtrInv, stack # <<>>, NEW r, Return(r)
    PROVE  UNCHANGED items /\ Len(stack') = Len(stack) - 1
<1>1. stack' = SubSeq(stack, 1, Len(stack) - 1) /\ UNCHANGED items
  BY DEF Return
<1>2. Len(stack) \in Nat \ {0} /\ DOMAIN stack = 1 .. Len(stack)
      /\ \A k \in DOMAIN stack : stack[k] \in Frames
  BY TopFrame DEF PtrInv, OldInv, MachineInv
<1>3. Len(SubSeq(stack, 1, Len(stack) - 1)) =
        IF 1 <= Len(stack) - 1 THEN Len(stack) - 1 - 1 + 1 ELSE 0
  <2>1. \A k \in 1 .. Len(stack) - 1 : stack[k] \in Frames
    BY <1>2
  <2> QED
    BY <1>2, <2>1, SubSeqProperties
<1>4. Len(stack') = IF 1 <= Len(stack) - 1 THEN Len(stack) - 1 - 1 + 1 ELSE 0
  BY <1>1, <1>3, Zenon
<1>5. \A n \in Nat \ {0} : (IF 1 <= n - 1 THEN n - 1 - 1 + 1 ELSE 0) = n - 1
  OBVIOUS
<1>6. Len(stack') = Len(stack) - 1
  BY <1>2, <1>4, <1>5, Zenon
<1> QED
  BY <1>1, <1>6

LEMMA CallPushes ==
    ASSUME PtrInv, stack # <<>>, NEW j, NEW i, NEW a, CallAgain(j, i, a)
    PROVE  UNCHANGED items /\ Len(stack') = Len(stack) + 1
<1> DEFINE f == [Top EXCEPT !.i = i, !.acc = a]
           g == Frame(Arg(j), ArgType(Callee, Top.t, j))
           s == [stack EXCEPT ![Len(stack)] = f]
           S == Frames \cup {f, g}
<1>1. stack' = Append(s, g) /\ UNCHANGED items
  BY DEF CallAgain
<1>2. stack \in Seq(Frames) /\ Len(stack) \in Nat \ {0}
  BY TopFrame DEF PtrInv, OldInv, MachineInv, TypeInv, MachineTypeOK
<1> HIDE DEF f, g
<1>3. stack \in Seq(S)
  BY <1>2
<1>4. s \in Seq(S) /\ Len(s) = Len(stack)
  BY <1>2, <1>3, ExceptSeq
<1> HIDE DEF s
<1>5. Len(stack') = Len(s) + 1
  BY <1>1, <1>4
<1> QED
  BY <1>1, <1>4, <1>5

LEMMA StepFrames ==
    ASSUME PtrInv, OldStep
    PROVE  /\ UNCHANGED items
           /\ stack # <<>>
           /\ Len(stack) \in Nat \ {0}
           /\ calls[Len(calls)] \in Holdings
           /\ \/ Len(stack') = Len(stack) + 1
              \/ Len(stack') = Len(stack) - 1
<1>1. stack # <<>>
  BY DEF OldStep, OldLeaf, OldAdd, OldUminus, OldOr, OldIsnull, OldCoalesce,
         OldLastValue, OldEq, Begin, After, Returned
<1>2. Len(stack) \in Nat \ {0}
  BY <1>1, TopFrame DEF PtrInv, OldInv, MachineInv
<1>3. calls[Len(calls)] \in Holdings
  BY <1>2, LenProperties DEF PtrInv
<1>4. \/ \E r : Return(r)
      \/ \E j, i, a : CallAgain(j, i, a)
  BY DEF OldStep, OldLeaf, OldAdd, OldUminus, OldOr, OldIsnull, OldCoalesce,
         OldLastValue, OldEq, SecondOperand, ReturnFlag, CallArg
<1> QED
  BY <1>1, <1>2, <1>3, <1>4, ReturnPops, CallPushes

(* What a return leaves in memory differs from what was there only at the  *)
(* caller's buffer, which is no literal.                                   *)
LEMMA ReturnWrites ==
    ASSUME PtrInv, Returning, NEW n \in Nat \ {0}, <<0, n>> \in DOMAIN mem
    PROVE  <<0, n>> \in DOMAIN mem' /\ mem'[<<0, n>>] = mem[<<0, n>>]
<1>1. Len(stack) \in Nat \ {0} /\ Holds.to \in Buffers
  BY StepFrames DEF Returning, Holds, Holdings
<1>2. Holds.to # <<0, n>>
  BY <1>1 DEF Buffers, NULL
<1>3. ASSUME NEW v
      PROVE  DOMAIN Put(v) = DOMAIN mem /\ Put(v)[<<0, n>>] = mem[<<0, n>>]
  BY <1>2 DEF Put
<1>4. <<0, n>> \in DOMAIN Left /\ Left[<<0, n>>] = mem[<<0, n>>]
  BY <1>3 DEF Left, Summed, Negated, Compared
<1> DEFINE m == IF Top.t = "decimal" THEN Left ELSE mem
<1>5. <<0, n>> \in DOMAIN m /\ m[<<0, n>>] = mem[<<0, n>>]
  BY <1>4
<1> HIDE DEF m
<1>6. mem' = Below(m, Len(stack))
  BY DEF Returning, m
<1>7. <<0, n>>[1] <= Len(stack)
  BY <1>1
<1> QED
  BY <1>5, <1>6, <1>7 DEF Below

(* A call declares a local, if anything. *)
LEMMA DeclareWrites ==
    ASSUME NEW p, NEW n, <<0, n>> \in DOMAIN mem
    PROVE  <<0, n>> \in DOMAIN Declared(p) /\ Declared(p)[<<0, n>>] = mem[<<0, n>>]
BY DEF Declared

-----------------------------------------------------------------------------
(* The addresses. *)
LEMMA NullAddress == NULL \in Buffers /\ NULL \in Addresses
BY DEF NULL, Buffers, Addresses

LEMMA HeldTypes == ASSUME NEW p \in Buffers PROVE Held(p) \in Holdings
BY NullAddress DEF Held, Holdings

(* The literals keep their numbers when m is the memory next. *)
Kept(m) ==
    \A n \in DOMAIN items :
        items[n].kind = "decimal" =>
           /\ <<0, n>> \in DOMAIN m
           /\ m[<<0, n>>] = items[n].val

LEMMA CallKeeps == PtrInv /\ Call => PtrInv'
<1> SUFFICES ASSUME PtrInv, Call PROVE PtrInv'
  OBVIOUS
<1> DEFINE i == stack'[Len(stack)].i
           p == IF stack'[Len(stack')].t = "decimal" THEN Passed(i) ELSE NULL
           v == IF i = 2 THEN res ELSE calls[Len(calls)].val0
           c == [calls EXCEPT ![Len(calls)].val0 = v]
<1>1. /\ OldStep
      /\ Len(stack') > Len(stack)
      /\ calls' = Append(c, Held(p))
      /\ mem' = Declared(p)
      /\ res' = NULL
  BY DEF Call
<1>2. /\ UNCHANGED items
      /\ Len(stack) \in Nat \ {0}
      /\ calls[Len(calls)] \in Holdings
      /\ Len(stack') = Len(stack) + 1
  BY <1>1, StepFrames
<1>3. OldInv'
  BY <1>1, OldKept DEF OldNext, PtrInv
<1>4. i \in Nat
  <2>1. stack' \in Seq(Frames)
    BY <1>3 DEF OldInv, MachineInv, TypeInv, MachineTypeOK
  <2>2. stack'[Len(stack)] \in Frames
    BY <1>2, <2>1
  <2> QED
    BY <2>2 DEF Frames
<1>5. p \in Buffers
  <2>1. Local(i) \in Buffers
    BY <1>2, <1>4 DEF Local, Buffers, Addresses
  <2>2. Passed(i) \in Buffers
    BY <1>2, <2>1 DEF Passed, Holds, Holdings
  <2> QED
    BY <2>2, NullAddress
<1>6. v \in Addresses
  BY <1>2 DEF PtrInv, Holdings
<1> HIDE DEF i, p, v
<1>7. c \in Seq(Holdings) /\ Len(c) = Len(calls)
  <2>1. [calls[Len(calls)] EXCEPT !.val0 = v] \in Holdings
    BY <1>2, <1>6 DEF Holdings
  <2> QED
    BY <1>2, <2>1, ExceptSeq DEF PtrInv
<1>8. calls' \in Seq(Holdings) /\ Len(calls') = Len(stack')
  <2>1. Held(p) \in Holdings
    BY <1>5, HeldTypes
  <2> HIDE DEF c
  <2> QED
    BY <1>1, <1>2, <1>7, <2>1 DEF PtrInv
<1>9. Kept(mem)'
  BY <1>1, <1>2, DeclareWrites DEF PtrInv, Kept
<1> QED
  BY <1>1, <1>3, <1>8, <1>9, NullAddress DEF PtrInv, Kept

LEMMA ReturnKeeps == PtrInv /\ Returning => PtrInv'
<1> SUFFICES ASSUME PtrInv, Returning PROVE PtrInv'
  OBVIOUS
<1>1. /\ OldStep
      /\ Len(stack') < Len(stack)
      /\ res' = IF Top.t = "decimal" THEN Answered ELSE NULL
      /\ calls' = SubSeq(calls, 1, Len(calls) - 1)
  BY DEF Returning
<1>2. /\ UNCHANGED items
      /\ Len(stack) \in Nat \ {0}
      /\ Holds \in Holdings
      /\ Len(stack') = Len(stack) - 1
  BY <1>1, StepFrames DEF Holds
<1>3. OldInv'
  BY <1>1, OldKept DEF OldNext, PtrInv
<1>4. res' \in Addresses
  <2>1. stack # <<>>
    BY <1>2
  <2>2. Top.n \in Nat
    BY <2>1, TopFrame DEF PtrInv, OldInv, MachineInv, Frames
  <2>3. <<0, Top.n>> \in Addresses /\ Holds.to \in Addresses /\ res \in Addresses
    BY <1>2, <2>2 DEF Addresses, Holdings, Buffers, PtrInv
  <2>4. Answered \in Addresses
    BY <2>3, NullAddress DEF Answered
  <2> QED
    BY <1>1, <2>4, NullAddress
<1>5. calls' \in Seq(Holdings) /\ Len(calls') = Len(stack')
  <2> DEFINE L == Len(calls)
  <2>1. L \in Nat \ {0} /\ L = Len(stack)
    BY <1>2 DEF PtrInv
  <2>2. \A k \in 1 .. L - 1 : calls[k] \in Holdings
    BY <2>1, LenProperties DEF PtrInv
  <2>3. /\ SubSeq(calls, 1, L - 1) \in Seq(Holdings)
        /\ Len(SubSeq(calls, 1, L - 1)) = IF 1 <= L - 1 THEN L - 1 - 1 + 1 ELSE 0
    BY <2>1, <2>2, SubSeqProperties
  <2>4. /\ calls' \in Seq(Holdings)
        /\ Len(calls') = IF 1 <= L - 1 THEN L - 1 - 1 + 1 ELSE 0
    BY <1>1, <2>3, Zenon
  <2> QED
    BY <1>2, <2>1, <2>4
<1>6. Kept(mem)'
  <2>1. DOMAIN items \subseteq Nat \ {0}
    BY LenProperties DEF PtrInv, OldInv, MachineInv, TypeInv, TreeInv, TreeTypeOK
  <2> QED
    BY <1>2, <2>1, ReturnWrites DEF PtrInv, Kept
<1> QED
  BY <1>3, <1>4, <1>5, <1>6 DEF PtrInv, Kept

(* The driver: a function it builds is no literal, its buf is a local. *)
LEMMA BuildKeeps == PtrInv /\ PtrBuild => PtrInv'
<1> SUFFICES ASSUME PtrInv, PtrBuild PROVE PtrInv'
  OBVIOUS
<1>1. OldBuild /\ Build /\ UNCHANGED <<mem, calls, res, stack>>
  BY DEF PtrBuild, OldBuild, Build, machineVars
<1>2. OldInv'
  BY <1>1, OldKept DEF OldNext, PtrInv
<1>3. PICK k \in Kinds, as \in ArgLists : NewItem(k, as)
  BY <1>1 DEF Build, Construct
<1>4. items \in Seq(ItemRecord) /\ FuncItem(k, as).kind = k /\ k # "decimal"
  BY TreeAssumption DEF PtrInv, OldInv, MachineInv, TypeInv, TreeInv, TreeTypeOK, FuncItem,
                        FuncKinds
<1>5. /\ Len(items) \in Nat
      /\ DOMAIN items = 1 .. Len(items)
      /\ DOMAIN items' = 1 .. Len(items) + 1
      /\ \A n \in DOMAIN items : items'[n] = items[n]
      /\ items'[Len(items) + 1] = FuncItem(k, as)
  BY <1>3, NewItemKeeps DEF NewItem, PtrInv, OldInv, MachineInv, TypeInv
<1>6. Kept(mem)'
  <2>1. \A n \in DOMAIN items' : items'[n].kind = "decimal" => n \in DOMAIN items
    <3> SUFFICES ASSUME NEW n \in DOMAIN items', n \notin DOMAIN items
                 PROVE  items'[n].kind # "decimal"
      OBVIOUS
    <3>1. n = Len(items) + 1
      BY <1>5
    <3>2. items'[n].kind = k
      BY <1>4, <1>5, <3>1, Zenon
    <3> QED
      BY <1>4, <3>2, Zenon
  <2>2. mem' = mem
    BY <1>1
  <2> QED
    BY <1>5, <2>1, <2>2, Zenon DEF PtrInv, Kept
<1> QED
  BY <1>1, <1>2, <1>6 DEF PtrInv, Kept

LEMMA InvokeKeeps == PtrInv /\ PtrInvoke => PtrInv'
<1> SUFFICES ASSUME PtrInv, PtrInvoke PROVE PtrInv'
  OBVIOUS
<1>1. PICK n \in DOMAIN items, T \in ValueTypes :
        /\ Enter(n, T)
        /\ mem' = Declared(DriverBuf(T))
        /\ calls' = <<Held(DriverBuf(T))>>
  BY DEF PtrInvoke
<1> DEFINE p == DriverBuf(T)
<1>2. /\ mem' = Declared(p)
      /\ calls' = <<Held(p)>>
      /\ UNCHANGED <<res, items>>
      /\ stack' = <<Frame(n, T)>>
      /\ KeepNull
  BY <1>1 DEF PtrInvoke, Enter, Ask
<1>3. OldInv'
  BY <1>1, <1>2, OldKept DEF OldNext, Invoke, PtrInv
<1>4. p \in Buffers /\ Held(p) \in Holdings
  BY HeldTypes, NullAddress DEF Buffers, Addresses, DriverBuf
<1> HIDE DEF Held, Frame, p
<1>5. calls' \in Seq(Holdings) /\ Len(calls') = Len(stack')
  BY <1>2, <1>4
<1>6. Kept(mem)'
  BY <1>2, <1>4, DeclareWrites DEF PtrInv, Kept
<1> QED
  BY <1>2, <1>3, <1>5, <1>6 DEF PtrInv, Kept

LEMMA LeaveKeeps == PtrInv /\ PtrLeave => PtrInv'
<1> SUFFICES ASSUME PtrInv, PtrLeave PROVE PtrInv'
  OBVIOUS
<1>1. /\ Leave /\ KeepNull
      /\ mem' = Below(mem, 0)
      /\ res' = NULL
      /\ UNCHANGED <<calls, items, stack>>
  BY DEF PtrLeave, Leave
<1>2. OldInv'
  BY <1>1, OldKept DEF OldNext, PtrInv
<1>3. Kept(mem)'
  BY <1>1 DEF PtrInv, Kept, Below
<1> QED
  BY <1>1, <1>2, <1>3, NullAddress DEF PtrInv, Kept

LEMMA PtrInitInv == PtrInit => PtrInv
<1> SUFFICES ASSUME PtrInit PROVE PtrInv
  OBVIOUS
<1>1. OldInv
  BY OldStart DEF PtrInit
<1>2. calls \in Seq(Holdings) /\ Len(calls) = Len(stack) /\ res \in Addresses
  BY NullAddress, EmptySeq DEF PtrInit, OldInit, MachineInit
<1>3. Kept(mem)
  <2> SUFFICES ASSUME NEW n \in DOMAIN items, items[n].kind = "decimal"
               PROVE  <<0, n>> \in DOMAIN mem /\ mem[<<0, n>>] = items[n].val
    BY DEF Kept
  <2>1. n \in DOMAIN LeafPool /\ items[n] = Leaf(LeafPool[n])
    BY DEF PtrInit, OldInit, TreeInit
  <2>2. LeafPool[n].kind = "decimal" /\ items[n].val = LeafPool[n].val
    BY <2>1 DEF Leaf
  <2> DEFINE D == {<<0, m>> : m \in {l \in DOMAIN LeafPool :
                                        LeafPool[l].kind = "decimal"}}
  <2>3. mem = [a \in D |-> LeafPool[a[2]].val]
    BY DEF PtrInit
  <2>4. <<0, n>> \in D
    BY <2>1, <2>2
  <2> QED
    BY <2>2, <2>3, <2>4
<1> QED
  BY <1>1, <1>2, <1>3 DEF PtrInv, Kept

LEMMA PtrNextInv == PtrInv /\ [PtrNext]_ptrVars => PtrInv'
<1> SUFFICES ASSUME PtrInv, [PtrNext]_ptrVars PROVE PtrInv'
  OBVIOUS
<1>1. CASE UNCHANGED ptrVars
  <2>1. OldInv'
    BY <1>1, OldKept DEF ptrVars, oldVars, PtrInv
  <2> QED
    BY <1>1, <2>1 DEF ptrVars, PtrInv
<1> QED
  BY <1>1, BuildKeeps, InvokeKeeps, CallKeeps, ReturnKeeps, LeaveKeeps DEF PtrNext

-----------------------------------------------------------------------------
(* Where the pointers point. *)

(* The buffer that frame k has given to the call it waits for; frame 0 is  *)
(* the driver.                                                             *)
Lent(k) ==
    IF k = 0 THEN <<1, 1>>
    ELSE IF items[stack[k].n].kind \in {"add", "eq", "isnull"} THEN <<k + 1, stack[k].i>>
    ELSE calls[k].to

Constants == {a \in Addresses : a[1] = 0 /\ a # NULL}

(* A call of val_decimal() has the buffer that its caller lent it: a local *)
(* of the driver or of a frame below, and of that frame the one declared   *)
(* for the argument it is at.                                              *)
Lending(k) ==
    /\ stack[k].t = "decimal" => calls[k].to # NULL /\ calls[k].to = Lent(k - 1)
    /\ stack[k].t # "decimal" => calls[k].to = NULL
    /\ calls[k].to # NULL =>
         /\ calls[k].to \in DOMAIN mem
         /\ calls[k].to[1] \in 1 .. k
         /\ calls[k].to[1] > 1 => calls[k].to[2] = stack[calls[k].to[1] - 1].i

(* The first operand, once there is one, is in the first local of its own  *)
(* call or in a literal, unless its call passes the answer on: then it may *)
(* be in a buffer of a frame below.                                        *)
Keeping(k) ==
    /\ calls[k].val0 # NULL =>
         /\ calls[k].val0 \in DOMAIN mem
         /\ calls[k].val0[1] <= k + 1
    /\ items[stack[k].n].kind \in {"add", "eq"} =>
         calls[k].val0 \in {NULL, <<k + 1, 1>>} \cup Constants

(* The comparator calls its first argument, twice. *)
FirstOnly ==
    \A k \in 1 .. Len(stack) - 1 :
        ComparesDecimals(items[stack[k].n]) => stack[k + 1].n = items[stack[k].n].args[1]

(* An answer is in the buffer that was lent, or in a literal. *)
AnswerPlaced ==
    /\ mode = "ret" /\ AnswerType = "decimal" =>
         /\ res \in {NULL, Lent(Len(stack))} \cup Constants
         /\ res \in DOMAIN mem \cup {NULL}
    /\ ~(mode = "ret" /\ AnswerType = "decimal") => res = NULL

MemoryInv ==
    /\ DOMAIN mem \subseteq Addresses
    /\ NULL \notin DOMAIN mem
    /\ \A k \in DOMAIN stack : Lending(k) /\ Keeping(k)
    /\ FirstOnly
    /\ AnswerPlaced
    /\ PointerIsAnswer
    /\ OperandsKept

(* Who asks an argument for a decimal: those that were asked for one, and  *)
(* the comparator and IS NULL of decimals.                                 *)
LEMMA AsksDecimal ==
    ASSUME NEW it \in ItemRecord, NEW T \in ValueTypes, NEW i
    PROVE  /\ ArgType(it, T, i) = "decimal" /\ it.kind \notin {"eq", "isnull"} => T = "decimal"
           /\ it.kind \in {"add", "uminus", "coalesce"} => (ArgType(it, T, i) = "decimal" <=> T = "decimal")
           /\ it.kind = "eq" => (ArgType(it, T, i) = "decimal" <=> ComparesDecimals(it))
<1>1. it.cmp \in 0 .. 4
  BY DEF ItemRecord, FieldTypes
<1>2. NativeType(it.cmp) = "decimal" <=> it.cmp = 4
  BY <1>1 DEF NativeType, MYSQL_TYPE_NULL, MYSQL_TYPE_BOOL, MYSQL_TYPE_LONGLONG,
              MYSQL_TYPE_DOUBLE, MYSQL_TYPE_NEWDECIMAL
<1>3. ArithType(T) = "decimal" <=> T = "decimal"
  BY DEF ArithType
<1> QED
  BY <1>2, <1>3 DEF ArgType, ComparesDecimals, MYSQL_TYPE_NEWDECIMAL

(* What holds of the frame at work and of its pointers. *)
LEMMA AtPointers ==
    ASSUME PtrInv, MemoryInv, stack # <<>>
    PROVE  /\ Len(stack) \in Nat \ {0} /\ Len(calls) = Len(stack)
           /\ DOMAIN stack = 1 .. Len(stack) /\ Len(stack) \in DOMAIN stack
           /\ stack[Len(stack)] = Top /\ Holds = calls[Len(stack)]
           /\ \A k \in DOMAIN stack : calls[k] \in Holdings
           /\ Callee = items[Top.n] /\ Callee \in ItemRecord
           /\ Top.n \in DOMAIN items /\ Top.n \in Nat \ {0} /\ Top.t \in ValueTypes
           /\ Holds.to \in Buffers /\ Holds.val0 \in Addresses
           /\ Top.t = "decimal" =>
                /\ Holds.to # NULL
                /\ Holds.to \in DOMAIN mem
                /\ Holds.to[1] \in 1 .. Len(stack)
           /\ Top.t # "decimal" => Holds.to = NULL
<1>1. /\ Len(stack) \in Nat \ {0} /\ Len(calls) = Len(stack)
      /\ DOMAIN stack = 1 .. Len(stack)
      /\ stack[Len(stack)] = Top
      /\ Callee = items[Top.n] /\ Callee \in ItemRecord
      /\ Top.n \in DOMAIN items /\ Top.n \in Nat \ {0} /\ Top.t \in ValueTypes
  BY AtWork DEF PtrInv, OldInv, Callee
<1>2. Len(stack) \in DOMAIN stack /\ Holds = calls[Len(stack)]
  BY <1>1 DEF Holds
<1>3. \A k \in DOMAIN stack : calls[k] \in Holdings
  BY <1>1, LenProperties DEF PtrInv
<1>4. Holds.to \in Buffers /\ Holds.val0 \in Addresses
  BY <1>2, <1>3 DEF Holdings
<1>5. Lending(Len(stack))
  BY <1>2 DEF MemoryInv
<1> QED
  BY <1>1, <1>2, <1>3, <1>4, <1>5 DEF Lending

(* The answer just taken, of an item that computes nothing from compared   *)
(* decimals.                                                               *)
LEMMA AnswerTaken ==
    ASSUME PtrInv, MemoryInv, stack # <<>>, mode = "ret", ~ArgNull,
           Top.n \in Free(DecimalComparisons),
           ArgType(Callee, Top.t, Top.i) = "decimal"
    PROVE  res \in DOMAIN mem /\ mem[res] = ret.v
<1>1. Callee = items[Top.n] /\ Top.n \in DOMAIN items
  BY AtPointers
<1>2. ~ComparesDecimals(Callee)
  BY <1>1, FreeParts DEF DecimalComparisons, OfKind, ComparesDecimals
<1>3. Top.i \in DOMAIN Callee.args
  BY AtWork DEF PtrInv, OldInv
<1>4. Answerer = Arg(Top.i) /\ Arg(Top.i) \in Free(DecimalComparisons)
  BY <1>1, <1>2, <1>3, FreeParts DEF Answerer, Arg
<1>5. AnswerType = "decimal" /\ ~null_value[Answerer]
  BY <1>4 DEF AnswerType, ArgNull
<1> QED
  BY <1>4, <1>5 DEF MemoryInv, PointerIsAnswer

(* The operand remembered, of such an item. *)
LEMMA OperandTaken ==
    ASSUME PtrInv, MemoryInv, stack # <<>>, Callee.kind = "add", Top.t = "decimal", Top.i = 2,
           Top.n \in Free(DecimalComparisons)
    PROVE  Holds.val0 \in DOMAIN mem /\ mem[Holds.val0] = Top.acc.v
<1>1. /\ Callee = items[Top.n] /\ stack[Len(stack)] = Top /\ Len(stack) \in DOMAIN stack
      /\ Holds = calls[Len(stack)]
  BY AtPointers
<1>2. 1 \in DOMAIN Callee.args
  BY AtWork DEF PtrInv, OldInv, FuncKinds
<1>3. Callee.args[1] \in Free(DecimalComparisons)
  BY <1>1, <1>2, FreeParts
<1>4. Remembers(Top)
  BY <1>1, <1>3 DEF Remembers
<1> QED
  BY <1>1, <1>4 DEF MemoryInv, OperandsKept

-----------------------------------------------------------------------------
(* Returning. *)

(* A method that returns a pointer returns one into its caller's buffer,   *)
(* or a literal's, or the one that it has just been given.                 *)
LEMMA AnsweredWhere ==
    ASSUME PtrInv, MemoryInv, stack # <<>>, Top.t = "decimal"
    PROVE  /\ Answered \in {NULL, Holds.to} \cup Constants
           /\ Answered \in DOMAIN mem \cup {NULL}
           /\ Answered[1] <= Len(stack)
<1>1. /\ Len(stack) \in Nat \ {0} /\ Callee = items[Top.n]
      /\ Top.n \in DOMAIN items /\ Top.n \in Nat \ {0}
      /\ Holds = calls[Len(stack)] /\ stack[Len(stack)] = Top
      /\ Holds.to \in DOMAIN mem /\ Holds.to[1] \in 1 .. Len(stack)
  BY AtPointers
<1>2. CASE Callee.kind = "decimal"
  <2>1. Answered = <<0, Top.n>>
    BY <1>2 DEF Answered
  <2>2. <<0, Top.n>> \in DOMAIN mem
    BY <1>1, <1>2 DEF PtrInv
  <2>3. <<0, Top.n>> \in Constants
    BY <1>1 DEF Constants, Addresses, NULL
  <2> QED
    BY <1>1, <2>1, <2>2, <2>3
<1>3. ASSUME Callee.kind \in {"coalesce", "last_value"}
      PROVE  res \in {NULL, Holds.to} \cup Constants /\ res \in DOMAIN mem \cup {NULL}
  <2>1. Lent(Len(stack)) = Holds.to
    BY <1>1, <1>3 DEF Lent
  <2> QED
    BY <2>1 DEF MemoryInv, AnswerPlaced
<1>4. Answered \in {NULL, Holds.to} \cup Constants /\ Answered \in DOMAIN mem \cup {NULL}
  <2>1. CASE Callee.kind \in {"coalesce", "last_value"}
    <3>1. Answered \in {NULL, res}
      BY <2>1 DEF Answered
    <3> QED
      BY <1>3, <2>1, <3>1
  <2>2. CASE Callee.kind \notin {"coalesce", "last_value", "decimal"}
    <3>1. Answered \in {NULL, Holds.to}
      BY <2>2 DEF Answered
    <3> QED
      BY <1>1, <3>1
  <2> QED
    BY <1>2, <2>1, <2>2
<1>5. NULL[1] = 0 /\ \A a \in Constants : a[1] = 0
  BY DEF NULL, Constants
<1> QED
  BY <1>1, <1>4, <1>5

(* The memory after a return: the frame's locals are gone, and only the    *)
(* caller's buffer has been written.                                       *)
LEMMA ReturnMemory ==
    ASSUME PtrInv, MemoryInv, Returning
    PROVE  /\ DOMAIN Left = DOMAIN mem
           /\ DOMAIN mem' = {a \in DOMAIN mem : a[1] <= Len(stack)}
           /\ \A a \in DOMAIN mem' :
                /\ a # Holds.to => mem'[a] = mem[a]
                /\ Top.t = "decimal" => mem'[a] = Left[a]
<1> DEFINE m == IF Top.t = "decimal" THEN Left ELSE mem
<1>1. mem' = Below(m, Len(stack))
  BY DEF Returning
<1>2. ASSUME NEW v PROVE /\ DOMAIN Put(v) = DOMAIN mem
                         /\ \A a \in DOMAIN mem : a # Holds.to => Put(v)[a] = mem[a]
  BY DEF Put
<1>3. /\ DOMAIN Left = DOMAIN mem
      /\ \A a \in DOMAIN mem : a # Holds.to => Left[a] = mem[a]
  BY <1>2 DEF Left, Summed, Negated, Compared
<1>4. /\ DOMAIN m = DOMAIN mem
      /\ \A a \in DOMAIN mem : a # Holds.to => m[a] = mem[a]
      /\ Top.t = "decimal" => m = Left
  BY <1>3
<1> HIDE DEF m
<1>5. DOMAIN mem' = {a \in DOMAIN mem : a[1] <= Len(stack)}
  BY <1>1, <1>4 DEF Below
<1>6. \A a \in DOMAIN mem' : mem'[a] = m[a]
  BY <1>1, <1>4, <1>5 DEF Below
<1> QED
  BY <1>3, <1>4, <1>5, <1>6

(* The number of a decimal is the one its method answers.                  *)
LEMMA DecimalNumbers ==
    /\ \A v : FromArith(v, "decimal") = v
    /\ ArithType("decimal") = "decimal"
    /\ \A it : it.kind = "decimal" => OldLeafNumber(it, "decimal") = it.val
    /\ \A v : Value(v).v = v
BY DEF FromArith, ArithType, OldLeafNumber, OldLeafDecimal, Value

(* A number that is in memory where the answer points to ... *)
RightPlace == Answered \in DOMAIN mem /\ Left[Answered] = ret'.v

(* ... is there if it has been put into the caller's buffer.               *)
LEMMA PutRight ==
    ASSUME PtrInv, MemoryInv, stack # <<>>, Top.t = "decimal",
           NEW v, Left = Put(v), v = ret'.v, Answered = Holds.to
    PROVE  RightPlace
<1>1. Holds.to \in DOMAIN mem
  BY AtPointers
<1> QED
  BY <1>1 DEF RightPlace, Put

(* What the method writes to its own flag. *)
LEMMA FlagsDiffer ==
    ASSUME PtrInv, stack # <<>>, NEW b \in BOOLEAN,
           null_value' = [null_value EXCEPT ![Top.n] = b]
    PROVE  null_value'[Top.n] = b
<1>1. Top.n \in DOMAIN items
  BY AtWork DEF PtrInv, OldInv
<1> QED
  BY <1>1, FlagTypes DEF PtrInv

(* What a method that answers a number leaves in memory. *)
LEMMA AnswerRight ==
    ASSUME PtrInv, MemoryInv, Returning, Top.t = "decimal", ~IsNull,
           Top.n \in Free(DecimalComparisons)
    PROVE  RightPlace
<1>1. /\ stack # <<>> /\ OldStep /\ Len(stack) \in Nat \ {0}
      /\ \A j, i, a : ~CallAgain(j, i, a)
  <2>1. OldStep /\ Len(stack') < Len(stack)
    BY DEF Returning
  <2>2. stack # <<>> /\ Len(stack) \in Nat \ {0}
    BY <2>1, StepFrames
  <2> QED
    BY <2>1, <2>2, CallPushes
<1>2. /\ Callee = items[Top.n] /\ Callee \in ItemRecord
      /\ Top.n \in DOMAIN items /\ Top.t \in ValueTypes
  BY <1>1, AtPointers
<1>3. ~ComparesDecimals(Callee)
  BY <1>2, FreeParts DEF DecimalComparisons, OfKind, ComparesDecimals
<1>4. ASSUME NEW v, ReturnFlag(v, TRUE) PROVE FALSE
  BY <1>1, <1>4, FlagsDiffer DEF ReturnFlag, IsNull
<1>5. ASSUME NEW r, Return(r) PROVE ret' = r /\ mode' = "ret"
  BY <1>5 DEF Return
<1>6. \A i, a : ~CallArg(i, a)
  BY <1>1 DEF CallArg
<1>7. CASE OldLeaf
  <2>1. Callee.kind \in LeafKinds /\ ret' = Value(OldLeafNumber(Callee, "decimal"))
    BY <1>5, <1>7 DEF OldLeaf, Begin
  <2>2. CASE Callee.kind = "decimal"
    <3>1. Answered = <<0, Top.n>> /\ Left = mem
      BY <2>2 DEF Answered, Left
    <3>2. <<0, Top.n>> \in DOMAIN mem /\ mem[<<0, Top.n>>] = Callee.val
      BY <1>2, <2>2 DEF PtrInv
    <3>3. ret'.v = Callee.val
      BY <2>1, <2>2, DecimalNumbers
    <3> QED
      BY <3>1, <3>2, <3>3 DEF RightPlace
  <2>3. CASE Callee.kind # "decimal"
    <3>1. Answered = Holds.to /\ Left = Put(ret'.v)
      BY <2>1, <2>3 DEF Answered, Left, LeafKinds
    <3> QED
      BY <1>1, <3>1, PutRight
  <2> QED
    BY <2>2, <2>3
<1>8. CASE OldAdd
  <2>1. /\ After("add", 2) /\ ~ArgNull
        /\ ReturnFlag(FromArith(Plus(Top.acc.v, ret.v, ArithType(Top.t)), Top.t), FALSE)
    BY <1>4, <1>6, <1>8 DEF OldAdd
  <2>2. Callee.kind = "add" /\ mode = "ret" /\ Top.i = 2
    BY <2>1 DEF After, Returned
  <2>3. ret'.v = Plus(Top.acc.v, ret.v, "decimal")
    BY <1>5, <2>1, DecimalNumbers DEF ReturnFlag
  <2>4. mem[Holds.val0] = Top.acc.v
    BY <1>1, <2>2, OperandTaken
  <2>5. mem[res] = ret.v
    BY <1>1, <1>2, <2>1, <2>2, AsksDecimal, AnswerTaken
  <2>6. Answered = Holds.to /\ Left = Summed
    BY <2>2 DEF Answered, Left
  <2>7. Left = Put(Plus(Top.acc.v, ret.v, "decimal"))
    BY <2>4, <2>5, <2>6 DEF Summed
  <2> QED
    BY <1>1, <2>3, <2>6, <2>7, PutRight
<1>9. CASE OldUminus
  <2>1. /\ After("uminus", 1) /\ ~ArgNull
        /\ ReturnFlag(FromArith(Neg(ret.v, ArithType(Top.t)), Top.t), FALSE)
    BY <1>4, <1>6, <1>9 DEF OldUminus
  <2>2. Callee.kind = "uminus" /\ mode = "ret" /\ Top.i = 1
    BY <2>1 DEF After, Returned
  <2>3. ret'.v = Neg(ret.v, "decimal")
    BY <1>5, <2>1, DecimalNumbers DEF ReturnFlag
  <2>4. mem[res] = ret.v
    BY <1>1, <1>2, <2>1, <2>2, AsksDecimal, AnswerTaken
  <2>5. Answered = Holds.to /\ Left = Negated
    BY <2>2 DEF Answered, Left
  <2>6. Left = Put(Neg(ret.v, "decimal"))
    BY <2>4, <2>5 DEF Negated
  <2> QED
    BY <1>1, <2>3, <2>5, <2>6, PutRight
<1>10. CASE OldOr \/ OldIsnull \/ OldEq
  <2>1. Callee.kind \in {"or", "isnull", "eq"}
    BY <1>10 DEF OldOr, OldIsnull, OldEq, Begin, After, Returned
  <2>2. Answered = Holds.to
    BY <2>1 DEF Answered
  <2>3. Left = Put(ret'.v)
    BY <1>3, <2>1 DEF Left, ComparesDecimals
  <2> QED
    BY <1>1, <2>2, <2>3, PutRight
<1>11. CASE OldCoalesce
  <2>1. Returned("coalesce") /\ ~ArgNull /\ Return(ret) /\ KeepNull
    BY <1>4, <1>6, <1>11 DEF OldCoalesce
  <2>2. Callee.kind = "coalesce" /\ mode = "ret"
    BY <2>1 DEF Returned
  <2>3. res \in DOMAIN mem /\ mem[res] = ret.v
    BY <1>1, <1>2, <2>1, <2>2, AsksDecimal, AnswerTaken
  <2>4. Answered = res /\ Left = mem
    BY <2>2 DEF Answered, Left
  <2>5. ret'.v = ret.v
    BY <1>5, <2>1
  <2> QED
    BY <2>3, <2>4, <2>5 DEF RightPlace
<1>12. CASE OldLastValue
  <2>1. Returned("last_value") /\ Top.i = Last /\ ReturnFlag(ret.v, ArgNull)
    BY <1>6, <1>12 DEF OldLastValue
  <2>2. Callee.kind = "last_value" /\ mode = "ret"
    BY <2>1 DEF Returned
  <2>3. ArgNull \in BOOLEAN
    BY <1>1, <2>2, OldHanded DEF PtrInv
  <2>4. ~ArgNull
    BY <1>1, <2>1, <2>3, FlagsDiffer DEF ReturnFlag, IsNull
  <2>5. ArgType(Callee, Top.t, Top.i) = "decimal"
    <3>1. Last = Len(Callee.args) /\ Last \in Nat
      BY <1>1, AtWork DEF PtrInv, OldInv, Last
    <3> QED
      BY <2>1, <2>2, <3>1 DEF ArgType
  <2>6. res \in DOMAIN mem /\ mem[res] = ret.v
    BY <1>1, <2>2, <2>4, <2>5, AnswerTaken
  <2>7. Answered = res /\ Left = mem
    BY <2>2 DEF Answered, Left
  <2>8. ret'.v = ret.v
    BY <1>5, <2>1, DecimalNumbers DEF ReturnFlag
  <2> QED
    BY <2>6, <2>7, <2>8 DEF RightPlace
<1> QED
  BY <1>1, <1>7, <1>8, <1>9, <1>10, <1>11, <1>12 DEF OldStep

(* A pointer that is lent or kept below the frame that returns stays.      *)
LEMMA MemoryReturn == PtrInv /\ MemoryInv /\ Returning => MemoryInv'
<1> SUFFICES ASSUME PtrInv, MemoryInv, Returning PROVE MemoryInv'
  OBVIOUS
<1>1. PICK L \in Nat \ {0} : L = Len(stack)
  BY StepFrames DEF Returning
<1>2. /\ OldStep /\ stack # <<>>
      /\ Len(calls) = L
      /\ DOMAIN stack = 1 .. L
      /\ stack[L] = Top /\ Holds = calls[L]
      /\ Callee = items[Top.n]
      /\ \A k \in DOMAIN stack : calls[k] \in Holdings
  BY <1>1, StepFrames, AtPointers DEF Returning
<1>3. /\ PtrInv' /\ OldInv'
      /\ ret' \in Results
  BY ReturnKeeps DEF PtrInv, OldInv, MachineInv, TypeInv, MachineTypeOK
<1>4. PICK r : Return(r) /\ r \in Results
  <2>1. \A j, i, a : ~CallAgain(j, i, a)
    BY <1>1, <1>2, CallPushes DEF Returning
  <2>2. \E r : Return(r)
    BY <1>2, <2>1 DEF OldStep, OldLeaf, OldAdd, OldUminus, OldOr, OldIsnull, OldCoalesce,
                      OldLastValue, OldEq, SecondOperand, ReturnFlag, CallArg
  <2> QED
    BY <1>3, <2>2 DEF Return
<1>5. /\ mode' = "ret" /\ UNCHANGED <<items, req>>
      /\ DOMAIN stack' = 1 .. L - 1 /\ Len(stack') = L - 1
      /\ \A k \in 1 .. L - 1 : stack'[k] = stack[k]
      /\ stack' = <<>> <=> L = 1
      /\ stack' = <<>> => req.n = Top.n
      /\ AnswerType' = Top.t
      /\ stack' = <<>> \/ ~ComparesDecimals(Callee') => Answering' = Top.n
  BY <1>1, <1>2, <1>4, ReturnMove DEF PtrInv, OldInv
<1>6. \A k \in 1 .. L - 1 : calls'[k] = calls[k]
  <2>1. calls' = SubSeq(calls, 1, Len(calls) - 1)
    BY DEF Returning
  <2>2. \A k \in 1 .. L - 1 : calls[k] \in Holdings
    BY <1>2
  <2> QED
    BY <1>1, <1>2, <2>1, <2>2, SubSeqProperties
<1>7. /\ DOMAIN mem' = {a \in DOMAIN mem : a[1] <= L}
      /\ \A a \in DOMAIN mem' :
           /\ a # Holds.to => mem'[a] = mem[a]
           /\ Top.t = "decimal" => mem'[a] = Left[a]
  BY <1>1, ReturnMemory
<1>8. Free(DecimalComparisons)' = Free(DecimalComparisons)
  BY <1>5, OldScopeKept DEF OldScope
<1>9. \A k \in 0 .. L - 1 : Lent(k)' = Lent(k)
  <2> SUFFICES ASSUME NEW k \in 0 .. L - 1 PROVE Lent(k)' = Lent(k)
    OBVIOUS
  <2>1. CASE k = 0
    BY <2>1 DEF Lent
  <2>2. CASE k # 0
    <3>1. k \in 1 .. L - 1
      BY <2>2
    <3>2. stack'[k] = stack[k] /\ calls'[k] = calls[k] /\ items' = items
      BY <1>5, <1>6, <3>1
    <3> QED
      BY <3>2, Zenon DEF Lent
  <2> QED
    BY <2>1, <2>2
<1>10. \A k \in 1 .. L - 1 : Lending(k) /\ Keeping(k)
  BY <1>2 DEF MemoryInv
<1>11. ASSUME NEW k \in 1 .. L - 1 PROVE Lending(k)'
  <2>1. Lending(k) /\ calls[k] \in Holdings
    BY <1>2, <1>10
  <2>2. stack'[k] = stack[k] /\ calls'[k] = calls[k] /\ Lent(k - 1)' = Lent(k - 1)
    BY <1>5, <1>6, <1>9
  <2>3. ASSUME calls[k].to # NULL
        PROVE  /\ calls[k].to \in DOMAIN mem'
               /\ calls[k].to[1] \in 1 .. k
               /\ calls[k].to[1] > 1 => calls[k].to[2] = stack'[calls[k].to[1] - 1].i
    <3>1. /\ calls[k].to \in DOMAIN mem
          /\ calls[k].to[1] \in 1 .. k
          /\ calls[k].to[1] > 1 => calls[k].to[2] = stack[calls[k].to[1] - 1].i
      BY <2>1, <2>3 DEF Lending
    <3>2. calls[k].to[1] > 1 => calls[k].to[1] - 1 \in 1 .. L - 1
      BY <3>1
    <3> QED
      BY <1>5, <1>7, <3>1, <3>2
  <2> QED
    BY <2>1, <2>2, <2>3 DEF Lending
<1>12. ASSUME NEW k \in 1 .. L - 1 PROVE Keeping(k)'
  <2>1. Keeping(k)
    BY <1>10
  <2>2. stack'[k] = stack[k] /\ calls'[k] = calls[k] /\ items' = items
    BY <1>5, <1>6
  <2>3. calls[k].val0 # NULL => calls[k].val0 \in DOMAIN mem' /\ calls[k].val0[1] <= k + 1
    <3>1. ASSUME calls[k].val0 # NULL
          PROVE  calls[k].val0 \in DOMAIN mem /\ calls[k].val0[1] <= k + 1
      BY <2>1, <3>1 DEF Keeping
    <3>2. ASSUME calls[k].val0 # NULL PROVE calls[k].val0[1] <= L
      <4>1. calls[k].val0[1] \in Nat
        BY <1>2 DEF Holdings, Addresses
      <4> QED
        BY <3>1, <3>2, <4>1
    <3> QED
      BY <1>7, <3>1, <3>2
  <2> QED
    BY <2>1, <2>2, <2>3 DEF Keeping
<1>13. FirstOnly'
  <2> SUFFICES ASSUME NEW k \in 1 .. Len(stack') - 1, ComparesDecimals(items'[stack'[k].n])
               PROVE  stack'[k + 1].n = items'[stack'[k].n].args[1]
    BY Zenon DEF FirstOnly, ComparesDecimals
  <2>1. k \in 1 .. L - 1 /\ k + 1 \in 1 .. L - 1 /\ k \in 1 .. Len(stack) - 1
    BY <1>1, <1>5
  <2>2. stack'[k] = stack[k] /\ stack'[k + 1] = stack[k + 1] /\ items' = items
    BY <1>5, <2>1
  <2> QED
    BY <2>1, <2>2 DEF MemoryInv, FirstOnly
<1>14. AnswerPlaced'
  <2>1. res' = IF Top.t = "decimal" THEN Answered ELSE NULL
    BY DEF Returning
  <2>2. ASSUME Top.t = "decimal"
        PROVE  /\ res' \in {NULL, Lent(L - 1)} \cup Constants
               /\ res' \in DOMAIN mem' \cup {NULL}
    <3>1. /\ Answered \in {NULL, Holds.to} \cup Constants
          /\ Answered \in DOMAIN mem \cup {NULL}
          /\ Answered[1] <= L
      BY <1>1, <1>2, <2>2, AnsweredWhere
    <3>2. Holds.to = Lent(L - 1)
      <4>1. Lending(L)
        BY <1>2 DEF MemoryInv
      <4> QED
        BY <1>2, <2>2, <4>1 DEF Lending
    <3> QED
      BY <1>7, <2>1, <2>2, <3>1, <3>2
  <2>3. Lent(Len(stack))' = Lent(L - 1)
    <3>1. L - 1 \in 0 .. L - 1 /\ Len(stack') = L - 1
      BY <1>5
    <3>2. Lent(Len(stack))' = Lent(L - 1)'
      BY <3>1 DEF Lent
    <3> QED
      BY <1>9, <3>1, <3>2
  <2>4. Constants' = Constants
    BY DEF Constants, NULL
  <2> QED
    BY <1>5, <2>1, <2>2, <2>3, <2>4 DEF AnswerPlaced
<1>15. Answerer' = Top.n
  <2>1. CASE stack' = <<>>
    BY <1>5, <2>1 DEF Answerer
  <2>2. CASE stack' # <<>> /\ ~ComparesDecimals(Callee')
    <3>1. Answering' = Top.n
      BY <1>5, <2>2
    <3> QED
      BY <2>2, <3>1 DEF Answerer, Answering
  <2>3. CASE stack' # <<>> /\ ComparesDecimals(Callee')
    <3>1. L - 1 \in 1 .. Len(stack) - 1 /\ L - 1 \in 1 .. L - 1 /\ L - 1 + 1 = L
      BY <1>1, <1>5, <2>3
    <3>2. Callee' = items[stack[L - 1].n]
      <4>1. Callee' = items'[stack'[Len(stack')].n]
        BY DEF Callee, Top
      <4> QED
        BY <1>5, <3>1, <4>1
    <3>3. stack[L].n = Callee'.args[1]
      BY <2>3, <3>1, <3>2 DEF MemoryInv, FirstOnly
    <3>4. Answerer' = Callee'.args[1]
      BY <2>3 DEF Answerer, Arg
    <3> QED
      BY <1>2, <3>3, <3>4
  <2> QED
    BY <2>1, <2>2, <2>3
<1>16. PointerIsAnswer'
  <2> SUFFICES ASSUME Top.t = "decimal", ~null_value'[Top.n],
                      Top.n \in Free(DecimalComparisons)
               PROVE  res' \in DOMAIN mem' /\ mem'[res'] = ret'.v
    BY <1>5, <1>8, <1>15 DEF PointerIsAnswer
  <2>1. RightPlace
    BY AnswerRight DEF IsNull
  <2>2. res' = Answered /\ Answered[1] <= L
    BY <1>1, <1>2, AnsweredWhere DEF Returning
  <2> QED
    BY <1>7, <2>1, <2>2 DEF RightPlace
<1>17. OperandsKept'
  <2> SUFFICES ASSUME NEW d \in DOMAIN stack', Remembers(stack[d])'
               PROVE  /\ calls'[d].val0 \in DOMAIN mem'
                      /\ mem'[calls'[d].val0] = stack'[d].acc.v
    BY DEF OperandsKept
  <2>1. d \in 1 .. L - 1 /\ stack'[d] = stack[d] /\ calls'[d] = calls[d] /\ d \in DOMAIN stack
    BY <1>2, <1>5, <1>6
  <2>2. Remembers(stack[d])
    BY <1>5, <1>8, <2>1, Zenon DEF Remembers, ComparesDecimals
  <2> DEFINE a == calls[d].val0
  <2>3. a \in DOMAIN mem /\ mem[a] = stack[d].acc.v
    BY <2>1, <2>2 DEF MemoryInv, OperandsKept
  <2>4. a # NULL
    BY <2>3 DEF MemoryInv
  <2>5. Keeping(d) /\ items[stack[d].n].kind \in {"add", "eq"} /\ stack[d].i = 2
    BY <1>10, <2>1, <2>2 DEF Remembers, ComparesDecimals
  <2>6. a \in {<<d + 1, 1>>} \cup Constants
    BY <2>4, <2>5 DEF Keeping
  <2>7. a[1] <= L
    BY <2>1, <2>6 DEF Constants
  <2>8. a # Holds.to
    <3> SUFFICES ASSUME a = Holds.to PROVE FALSE
      OBVIOUS
    <3>1. /\ a[1] \in 1 .. L
          /\ a[1] > 1 => a[2] = stack[a[1] - 1].i
      <4>1. Lending(L)
        BY <1>2 DEF MemoryInv
      <4> QED
        BY <1>2, <2>4, <4>1 DEF Lending
    <3>2. a = <<d + 1, 1>>
      BY <2>6, <3>1 DEF Constants
    <3>3. a[1] = d + 1 /\ a[2] = 1
      BY <3>2
    <3>4. stack[a[1] - 1].i = 1
      BY <2>1, <3>1, <3>3
    <3> QED
      BY <2>1, <2>5, <3>3, <3>4
  <2> QED
    BY <1>7, <2>1, <2>3, <2>7, <2>8
<1>18. DOMAIN mem' \subseteq Addresses' /\ NULL' \notin DOMAIN mem'
  BY <1>7 DEF MemoryInv, Addresses, NULL
<1> QED
  BY <1>5, <1>11, <1>12, <1>13, <1>14, <1>16, <1>17, <1>18 DEF MemoryInv

-----------------------------------------------------------------------------
(* Calling. *)

(* A call is of the next argument, but for the comparator's second; an     *)
(* addition and a comparison call again after an answer that is not NULL,  *)
(* which they remember.                                                    *)
LEMMA CallsNext ==
    ASSUME PtrInv, Call
    PROVE  \E i \in 1 .. Last, a \in Results :
             /\ CallAgain(IF ComparesDecimals(Callee) THEN 1 ELSE i, i, a)
             /\ i = 2 => mode = "ret" /\ Top.i = 1
             /\ i = 2 /\ Callee.kind \in {"add", "eq"} => a = ret /\ ~ArgNull
<1>1. /\ OldStep /\ stack # <<>> /\ Len(stack) \in Nat
      /\ Len(stack') > Len(stack)
  BY StepFrames DEF Call
<1>2. \A r : ~Return(r)
  BY <1>1, ReturnPops
<1>3. /\ Callee.kind \in FuncKinds => 1 \in 1 .. Last
      /\ Callee.kind \in {"add", "eq"} => Last = 2
      /\ Last \in Nat /\ Top.i \in Nat /\ ret \in Results
      /\ mode = "ret" => Top.i \in 1 .. Last
  BY <1>1, AtWork DEF PtrInv, OldInv
<1>4. SqlNull \in Results
  BY AnswerTypes
<1> DEFINE Next(i, a) ==
             /\ CallAgain(IF ComparesDecimals(Callee) THEN 1 ELSE i, i, a)
             /\ i = 2 => mode = "ret" /\ Top.i = 1
             /\ i = 2 /\ Callee.kind \in {"add", "eq"} => a = ret /\ ~ArgNull
<1> SUFFICES \E i \in 1 .. Last, a \in Results : Next(i, a)
  OBVIOUS
<1>5. CASE OldLeaf
  BY <1>2, <1>5 DEF OldLeaf
<1>6. ASSUME Callee.kind \in FuncKinds, CallArg(1, SqlNull)
      PROVE  \E i \in 1 .. Last, a \in Results : Next(i, a)
  <2>1. Next(1, SqlNull)
    BY <1>6 DEF CallArg
  <2> QED
    BY <1>3, <1>4, <1>6, <2>1
<1>7. ASSUME Callee.kind \in {"or", "coalesce", "last_value"}, mode = "ret",
             Top.i < Last, CallArg(Top.i + 1, SqlNull)
      PROVE  \E i \in 1 .. Last, a \in Results : Next(i, a)
  <2>1. Top.i + 1 \in 1 .. Last
    BY <1>3, <1>7
  <2>2. Next(Top.i + 1, SqlNull)
    BY <1>3, <1>7 DEF CallArg, ComparesDecimals
  <2> QED
    BY <1>4, <2>1, <2>2
<1>8. ASSUME Callee.kind \in {"add", "eq"}, mode = "ret", Top.i = 1, ~ArgNull,
             CallAgain(IF ComparesDecimals(Callee) THEN 1 ELSE 2, 2, ret)
      PROVE  \E i \in 1 .. Last, a \in Results : Next(i, a)
  <2>1. Next(2, ret)
    BY <1>8
  <2>2. 2 \in 1 .. Last
    BY <1>3, <1>8
  <2> QED
    BY <1>3, <2>1, <2>2
<1> HIDE DEF Next
<1>9. CASE OldAdd
  <2>1. Callee.kind = "add"
    BY <1>9 DEF OldAdd, Begin, After, Returned
  <2>2. CASE CallArg(1, SqlNull)
    BY <1>6, <2>1, <2>2 DEF FuncKinds
  <2>3. CASE After("add", 1) /\ ~ArgNull /\ CallArg(2, ret)
    BY <1>8, <2>1, <2>3 DEF After, Returned, CallArg, ComparesDecimals
  <2> QED
    BY <1>2, <1>9, <2>2, <2>3 DEF OldAdd, ReturnFlag
<1>10. CASE OldUminus
  <2>1. Callee.kind = "uminus"
    BY <1>10 DEF OldUminus, Begin, After, Returned
  <2>2. CallArg(1, SqlNull)
    BY <1>2, <1>10 DEF OldUminus, ReturnFlag
  <2> QED
    BY <1>6, <2>1, <2>2 DEF FuncKinds
<1>11. CASE OldOr
  <2>1. Callee.kind = "or"
    BY <1>11 DEF OldOr, Begin, After, Returned
  <2>2. CASE CallArg(1, SqlNull)
    BY <1>6, <2>1, <2>2 DEF FuncKinds
  <2>3. CASE Returned("or") /\ Top.i < Last /\ CallArg(Top.i + 1, SqlNull)
    BY <1>7, <2>1, <2>3 DEF Returned
  <2> QED
    BY <1>2, <1>11, <2>2, <2>3 DEF OldOr, ReturnFlag
<1>12. CASE OldIsnull
  <2>1. Callee.kind = "isnull"
    BY <1>12 DEF OldIsnull, Begin, After, Returned
  <2>2. CallArg(1, SqlNull)
    BY <1>2, <1>12 DEF OldIsnull, ReturnFlag
  <2> QED
    BY <1>6, <2>1, <2>2 DEF FuncKinds
<1>13. CASE OldCoalesce
  <2>1. Callee.kind = "coalesce"
    BY <1>13 DEF OldCoalesce, Begin, After, Returned
  <2>2. CASE CallArg(1, SqlNull)
    BY <1>6, <2>1, <2>2 DEF FuncKinds
  <2>3. CASE Returned("coalesce") /\ Top.i < Last /\ CallArg(Top.i + 1, SqlNull)
    BY <1>7, <2>1, <2>3 DEF Returned
  <2> QED
    BY <1>2, <1>13, <2>2, <2>3 DEF OldCoalesce, ReturnFlag
<1>14. CASE OldLastValue
  <2>1. Callee.kind = "last_value"
    BY <1>14 DEF OldLastValue, Begin, After, Returned
  <2>2. CASE CallArg(1, SqlNull)
    BY <1>6, <2>1, <2>2 DEF FuncKinds
  <2>3. CASE Returned("last_value") /\ Top.i < Last /\ CallArg(Top.i + 1, SqlNull)
    BY <1>7, <2>1, <2>3 DEF Returned
  <2> QED
    BY <1>2, <1>14, <2>2, <2>3 DEF OldLastValue, ReturnFlag
<1>15. CASE OldEq
  <2>1. Callee.kind = "eq"
    BY <1>15 DEF OldEq, Begin, After, Returned
  <2>2. CASE CallArg(1, SqlNull)
    BY <1>6, <2>1, <2>2 DEF FuncKinds
  <2>3. CASE After("eq", 1) /\ ~ArgNull /\ SecondOperand
    <3>1. CallAgain(IF ComparesDecimals(Callee) THEN 1 ELSE 2, 2, ret)
      BY <2>1, <2>3 DEF SecondOperand, CallArg, ComparesDecimals
    <3> QED
      BY <1>8, <2>1, <2>3, <3>1 DEF After, Returned
  <2> QED
    BY <1>2, <1>15, <2>2, <2>3 DEF OldEq, ReturnFlag
<1> QED
  BY <1>1, <1>5, <1>9, <1>10, <1>11, <1>12, <1>13, <1>14, <1>15 DEF OldStep

(* The pointers of the frame that calls, and of the call. *)
LEMMA MemoryCall == PtrInv /\ MemoryInv /\ Call => MemoryInv'
<1> SUFFICES ASSUME PtrInv, MemoryInv, Call PROVE MemoryInv'
  OBVIOUS
<1>1. PICK i \in 1 .. Last, a \in Results :
        /\ CallAgain(IF ComparesDecimals(Callee) THEN 1 ELSE i, i, a)
        /\ i = 2 => mode = "ret" /\ Top.i = 1
        /\ i = 2 /\ Callee.kind \in {"add", "eq"} => a = ret /\ ~ArgNull
  BY CallsNext
<1>2. PICK L \in Nat \ {0} : L = Len(stack)
  BY StepFrames DEF Call
<1>3. /\ stack # <<>>
      /\ Len(calls) = L
      /\ DOMAIN stack = 1 .. L /\ L \in DOMAIN stack
      /\ stack[L] = Top /\ Holds = calls[L]
      /\ Callee = items[Top.n] /\ Callee \in ItemRecord /\ Top.t \in ValueTypes
      /\ Top.n \in DOMAIN items
      /\ \A k \in DOMAIN stack : calls[k] \in Holdings
      /\ Top.t = "decimal" =>
            Holds.to # NULL /\ Holds.to \in DOMAIN mem /\ Holds.to[1] \in 1 .. L
      /\ Top.t # "decimal" => Holds.to = NULL
  BY <1>2, StepFrames, AtPointers DEF Call
<1>4. PICK j \in 1 .. Last :
        /\ j = IF ComparesDecimals(Callee) THEN 1 ELSE i
        /\ CallAgain(j, i, a)
  <2>1. Last \in Nat
    BY <1>3, AtWork DEF PtrInv, OldInv
  <2> QED
    BY <1>1, <2>1
<1>5. /\ mode' = "call" /\ UNCHANGED <<items, req>>
      /\ Len(stack') = L + 1
      /\ DOMAIN stack' = 1 .. L + 1
      /\ \A k \in 1 .. L - 1 : stack'[k] = stack[k]
      /\ stack'[L].n = Top.n /\ stack'[L].t = Top.t
      /\ stack'[L].i = i /\ stack'[L].acc = a
      /\ stack'[L + 1].n = Arg(j) /\ stack'[L + 1].i = 0
      /\ stack'[L + 1].t = ArgType(Callee, Top.t, j)
  <2>1. j = i \/ ComparesDecimals(Callee)
    BY <1>4
  <2> QED
    BY <1>2, <1>3, <1>4, <2>1, CallMove DEF PtrInv, OldInv
<1> DEFINE p == IF stack'[L + 1].t = "decimal" THEN Passed(i) ELSE NULL
           v == IF i = 2 THEN res ELSE calls[L].val0
<1>6. /\ calls' = Append([calls EXCEPT ![L].val0 = v], Held(p))
      /\ mem' = Declared(p)
      /\ res' = NULL
  BY <1>2, <1>3, <1>5, Zenon DEF Call
<1>7. /\ \A k \in 1 .. L - 1 : calls'[k] = calls[k]
      /\ calls'[L].to = calls[L].to /\ calls'[L].val0 = v
      /\ calls'[L + 1].to = p /\ calls'[L + 1].val0 = NULL
  <2> DEFINE c == [calls EXCEPT ![L].val0 = v]
             q == Held(p)
  <2>1. calls \in Seq(Holdings) /\ DOMAIN calls = 1 .. L
    BY <1>3, LenProperties DEF PtrInv
  <2>2. /\ \A k \in 1 .. L - 1 : c[k] = calls[k]
        /\ c[L] = [calls[L] EXCEPT !.val0 = v]
    BY <2>1
  <2>3. c[L].to = calls[L].to /\ c[L].val0 = v
    BY <1>3, <2>2 DEF Holdings
  <2>4. q.to = p /\ q.val0 = NULL
    BY DEF Held
  <2> DEFINE S == Holdings \cup {[calls[L] EXCEPT !.val0 = v], q}
  <2>5. c \in Seq(S) /\ Len(c) = L
    <3>1. calls \in Seq(S)
      BY <2>1
    <3>2. [calls[L] EXCEPT !.val0 = v] \in S
      OBVIOUS
    <3> HIDE DEF S, v, p
    <3> QED
      BY <1>3, <2>1, <3>1, <3>2, ExceptSeq
  <2>6. calls' = Append(c, q) /\ q \in S
    BY <1>6
  <2> HIDE DEF c, q, S
  <2>7. /\ \A k \in 1 .. L : calls'[k] = c[k]
        /\ calls'[L + 1] = q
    BY <2>5, <2>6
  <2> HIDE DEF v, p
  <2>8. \A k \in 1 .. L - 1 : calls'[k] = calls[k]
    BY <2>2, <2>7
  <2>9. calls'[L] = c[L]
    BY <2>7
  <2> QED
    BY <2>3, <2>4, <2>7, <2>8, <2>9, Zenon
<1>8. /\ DOMAIN mem' = DOMAIN mem \cup ({p} \ {NULL})
      /\ \A b \in DOMAIN mem : b \in DOMAIN mem' /\ mem'[b] = mem[b]
  BY <1>6 DEF Declared
<1>9. Free(DecimalComparisons)' = Free(DecimalComparisons)
  BY <1>5, OldScopeKept DEF OldScope
<1>10. \A k \in 0 .. L - 1 : Lent(k)' = Lent(k)
  <2> SUFFICES ASSUME NEW k \in 0 .. L - 1 PROVE Lent(k)' = Lent(k)
    OBVIOUS
  <2>1. CASE k = 0
    BY <2>1 DEF Lent
  <2>2. CASE k # 0
    <3>1. k \in 1 .. L - 1
      BY <2>2
    <3>2. stack'[k] = stack[k] /\ calls'[k] = calls[k] /\ items' = items
      BY <1>5, <1>7, <3>1
    <3> QED
      BY <3>2, Zenon DEF Lent
  <2> QED
    BY <2>1, <2>2
<1>11. Lent(L)' = Passed(i)
  <2>1. Lent(L)' = IF Callee.kind \in {"add", "eq", "isnull"} THEN <<L + 1, i>> ELSE Holds.to
    <3>1. L # 0 /\ items'[stack'[L].n].kind = Callee.kind /\ calls'[L].to = Holds.to
          /\ stack'[L].i = i
      BY <1>3, <1>5, <1>7
    <3> QED
      BY <3>1 DEF Lent
  <2> QED
    BY <1>2, <2>1 DEF Passed, Local
<1>12. ASSUME stack'[L + 1].t = "decimal"
       PROVE  /\ p = Passed(i) /\ p # NULL
              /\ p \in Addresses
              /\ p[1] \in 1 .. L + 1
              /\ p[1] > 1 => p[2] = stack'[p[1] - 1].i
  <2>1. p = Passed(i)
    BY <1>12
  <2>2. CASE Callee.kind \in {"add", "eq", "isnull"}
    <3>1. p = <<L + 1, i>>
      BY <1>2, <2>1, <2>2 DEF Passed, Local
    <3>2. p[1] = L + 1 /\ p[2] = i /\ stack'[L].i = i
      BY <1>5, <3>1
    <3>3. p # NULL /\ p \in Addresses
      BY <3>1 DEF NULL, Addresses
    <3>4. p[1] - 1 = L /\ p[1] \in 1 .. L + 1
      BY <3>2
    <3>5. p[2] = stack'[p[1] - 1].i
      BY <3>2, <3>4
    <3> HIDE DEF p
    <3> QED
      BY <2>1, <3>3, <3>4, <3>5
  <2>3. CASE Callee.kind \notin {"add", "eq", "isnull"}
    <3>1. p = Holds.to
      BY <2>1, <2>3 DEF Passed
    <3>2. Top.t = "decimal"
      <4>1. Callee \in ItemRecord /\ Top.t \in ValueTypes
        BY <1>3
      <4>2. ArgType(Callee, Top.t, j) = "decimal"
        BY <1>5, <1>12
      <4> QED
        BY <2>3, <4>1, <4>2, AsksDecimal
    <3>3. Holds.to # NULL /\ Holds.to \in Addresses /\ Holds.to[1] \in 1 .. L
      BY <1>3, <3>2 DEF MemoryInv
    <3>4. ASSUME Holds.to[1] > 1 PROVE Holds.to[2] = stack'[Holds.to[1] - 1].i
      <4>1. Holds.to[1] - 1 \in 1 .. L - 1
        BY <3>3, <3>4
      <4>2. Lending(L)
        BY <1>3 DEF MemoryInv
      <4>3. Holds.to[2] = stack[Holds.to[1] - 1].i
        BY <1>3, <3>3, <3>4, <4>2 DEF Lending
      <4> QED
        BY <1>5, <4>1, <4>3
    <3> HIDE DEF p
    <3> QED
      BY <2>1, <3>1, <3>3, <3>4
  <2> QED
    BY <2>2, <2>3
<1>13. stack'[L + 1].t # "decimal" => p = NULL
  OBVIOUS
<1> HIDE DEF p
<1>14. \A k \in 1 .. L : Lending(k) /\ Keeping(k)
  BY <1>3 DEF MemoryInv
<1>15. ASSUME NEW k \in 1 .. L PROVE Lending(k)'
  <2>1. Lending(k) /\ calls[k] \in Holdings
    BY <1>3, <1>14
  <2>2. stack'[k].t = stack[k].t /\ calls'[k].to = calls[k].to /\ Lent(k - 1)' = Lent(k - 1)
    <3>1. k - 1 \in 0 .. L - 1 /\ (k \in 1 .. L - 1 \/ k = L)
      OBVIOUS
    <3> QED
      BY <1>3, <1>5, <1>7, <1>10, <3>1
  <2>3. ASSUME calls[k].to # NULL
        PROVE  /\ calls[k].to \in DOMAIN mem'
               /\ calls[k].to[1] \in 1 .. k
               /\ calls[k].to[1] > 1 => calls[k].to[2] = stack'[calls[k].to[1] - 1].i
    <3>1. /\ calls[k].to \in DOMAIN mem
          /\ calls[k].to[1] \in 1 .. k
          /\ calls[k].to[1] > 1 => calls[k].to[2] = stack[calls[k].to[1] - 1].i
      BY <2>1, <2>3 DEF Lending
    <3>2. calls[k].to[1] > 1 => calls[k].to[1] - 1 \in 1 .. L - 1
      BY <3>1
    <3> QED
      BY <1>5, <1>8, <3>1, <3>2
  <2> QED
    BY <2>1, <2>2, <2>3 DEF Lending
<1>16. Lending(L + 1)'
  <2>1. /\ p \in Addresses /\ p # NULL => p \in DOMAIN mem'
        /\ L + 1 - 1 = L /\ calls'[L + 1].to = p /\ Lent(L)' = Passed(i)
    BY <1>7, <1>8, <1>11
  <2>2. stack'[L + 1].t = "decimal" => p = Lent(L + 1 - 1)'
    BY <1>12, <2>1, Zenon
  <2> QED
    BY <1>12, <1>13, <2>1, <2>2 DEF Lending
<1>17. ASSUME NEW k \in 1 .. L - 1 PROVE Keeping(k)'
  <2>1. Keeping(k) /\ stack'[k] = stack[k] /\ calls'[k] = calls[k] /\ items' = items
    BY <1>5, <1>7, <1>14
  <2>2. calls[k].val0 # NULL => calls[k].val0 \in DOMAIN mem'
    BY <1>8, <2>1 DEF Keeping
  <2> QED
    BY <2>1, <2>2 DEF Keeping
<1>18. Keeping(L)'
  <2>1. items'[stack'[L].n].kind = Callee.kind
    BY <1>3, <1>5
  <2>2. CASE i # 2
    <3>1. Keeping(L) /\ calls'[L].val0 = calls[L].val0
      BY <1>7, <1>14, <2>2
    <3>2. calls[L].val0 # NULL =>
            calls[L].val0 \in DOMAIN mem' /\ calls[L].val0[1] <= L + 1
      BY <1>8, <3>1 DEF Keeping
    <3>3. Callee.kind \in {"add", "eq"} =>
            calls[L].val0 \in {NULL, <<L + 1, 1>>} \cup Constants
      BY <1>3, <3>1 DEF Keeping
    <3> QED
      BY <2>1, <3>1, <3>2, <3>3 DEF Keeping
  <2>3. CASE i = 2
    <3>1. calls'[L].val0 = res /\ mode = "ret" /\ Top.i = 1
      BY <1>1, <1>7, <2>3
    <3>2. res \in {NULL, Lent(L)} \cup Constants /\ res \in DOMAIN mem \cup {NULL}
      BY <1>2 DEF MemoryInv, AnswerPlaced
    <3>3. Callee.kind \in {"add", "eq"} => Lent(L) = <<L + 1, 1>>
      BY <1>3, <3>1 DEF Lent
    <3>4. res # NULL => res \in DOMAIN mem' /\ res[1] <= L + 1
      <4>1. CASE res \in Constants
        BY <1>8, <3>2, <4>1 DEF Constants
      <4>2. CASE res = Lent(L) /\ Callee.kind \in {"add", "eq", "isnull"}
        <5>1. res = <<L + 1, 1>>
          BY <1>3, <3>1, <4>2 DEF Lent
        <5> QED
          BY <1>8, <3>2, <5>1
      <4>3. CASE res = Lent(L) /\ Callee.kind \notin {"add", "eq", "isnull"}
        <5>1. res = Holds.to
          BY <1>3, <4>3 DEF Lent
        <5>2. res # NULL => res[1] \in 1 .. L
          BY <1>3, <5>1
        <5> QED
          BY <1>8, <3>2, <5>2
      <4> QED
        BY <3>2, <4>1, <4>2, <4>3
    <3> QED
      BY <2>1, <3>1, <3>2, <3>3, <3>4 DEF Keeping
  <2> QED
    BY <2>2, <2>3
<1>19. Keeping(L + 1)'
  BY <1>7 DEF Keeping
<1>20. FirstOnly'
  <2> SUFFICES ASSUME NEW k \in 1 .. Len(stack') - 1, ComparesDecimals(items'[stack'[k].n])
               PROVE  stack'[k + 1].n = items'[stack'[k].n].args[1]
    BY Zenon DEF FirstOnly, ComparesDecimals
  <2>1. k \in 1 .. L - 1 \/ k = L
    BY <1>5
  <2>2. CASE k = L
    <3>1. ComparesDecimals(Callee)
      BY <1>3, <1>5, <2>2
    <3>2. j = 1
      BY <1>4, <3>1
    <3> QED
      BY <1>3, <1>5, <2>2, <3>2 DEF Arg
  <2>3. CASE k \in 1 .. L - 1
    <3>1. stack'[k] = stack[k] /\ items' = items /\ k \in 1 .. Len(stack) - 1
      BY <1>2, <1>5, <2>3
    <3>2. stack'[k + 1].n = stack[k + 1].n
      <4>1. k + 1 = L \/ k + 1 \in 1 .. L - 1
        BY <2>3
      <4> QED
        BY <1>3, <1>5, <4>1
    <3> QED
      BY <3>1, <3>2 DEF MemoryInv, FirstOnly
  <2> QED
    BY <2>1, <2>2, <2>3
<1>21. AnswerPlaced' /\ PointerIsAnswer'
  BY <1>5, <1>6 DEF AnswerPlaced, PointerIsAnswer, NULL
<1>22. OperandsKept'
  <2> SUFFICES ASSUME NEW d \in DOMAIN stack', Remembers(stack[d])'
               PROVE  /\ calls'[d].val0 \in DOMAIN mem'
                      /\ mem'[calls'[d].val0] = stack'[d].acc.v
    BY DEF OperandsKept
  <2>1. d \in 1 .. L - 1 \/ d = L \/ d = L + 1
    BY <1>5
  <2>2. d # L + 1
    <3>1. stack'[d].i = 2
      BY DEF Remembers
    <3> QED
      BY <1>5, <3>1
  <2>3. CASE d \in 1 .. L - 1
    <3>1. stack'[d] = stack[d] /\ calls'[d] = calls[d] /\ d \in DOMAIN stack
      BY <1>3, <1>5, <1>7, <2>3
    <3>2. Remembers(stack[d])
      BY <1>5, <1>9, <3>1, Zenon DEF Remembers, ComparesDecimals
    <3> QED
      BY <1>8, <3>1, <3>2 DEF MemoryInv, OperandsKept
  <2>4. CASE d = L
    <3>1. /\ i = 2
          /\ \/ Callee.kind = "add" /\ Top.t = "decimal"
             \/ ComparesDecimals(Callee)
          /\ Callee.args[1] \in Free(DecimalComparisons)
      <4>1. Callee = items'[stack'[d].n] /\ stack'[d].t = Top.t /\ stack'[d].i = i
        BY <1>3, <1>5, <2>4
      <4> QED
        BY <1>9, <4>1, Zenon DEF Remembers, ComparesDecimals
    <3>2. mode = "ret" /\ Top.i = 1 /\ a = ret /\ ~ArgNull
      BY <1>1, <3>1 DEF ComparesDecimals
    <3>3. Answerer = Arg(1) /\ ~null_value[Arg(1)]
      BY <1>3, <3>2 DEF Answerer, ArgNull
    <3>4. AnswerType = "decimal"
      BY <1>3, <3>1, AsksDecimal DEF AnswerType, ComparesDecimals
    <3>5. res \in DOMAIN mem /\ mem[res] = ret.v
      BY <3>1, <3>2, <3>3, <3>4 DEF MemoryInv, PointerIsAnswer, Arg
    <3>6. calls'[L].val0 = res /\ stack'[L].acc = ret
      BY <1>5, <1>7, <3>1, <3>2
    <3> QED
      BY <1>8, <2>4, <3>5, <3>6
  <2> QED
    BY <2>1, <2>2, <2>3, <2>4
<1>23. DOMAIN mem' \subseteq Addresses' /\ NULL' \notin DOMAIN mem'
  <2>1. p = NULL \/ p \in Addresses
    BY <1>12, <1>13
  <2> QED
    BY <1>8, <2>1 DEF MemoryInv, Addresses, NULL
<1>24. \A k \in DOMAIN stack' : k \in 1 .. L - 1 \/ k = L \/ k = L + 1
  BY <1>5
<1>25. \A k \in DOMAIN stack' : Lending(k)' /\ Keeping(k)'
  BY <1>15, <1>16, <1>17, <1>18, <1>19, <1>24
<1> QED
  BY <1>20, <1>21, <1>22, <1>23, <1>25 DEF MemoryInv

-----------------------------------------------------------------------------
(* The driver. *)

LEMMA NoPointers ==
    ASSUME stack = <<>>, mode # "ret", res = NULL, NULL \notin DOMAIN mem,
           DOMAIN mem \subseteq Addresses
    PROVE  MemoryInv
<1>1. DOMAIN stack = {} /\ \A k \in 1 .. Len(stack) - 1 : FALSE
  BY EmptySeq
<1> QED
  BY <1>1 DEF MemoryInv, FirstOnly, AnswerPlaced, PointerIsAnswer, OperandsKept

LEMMA MemoryBuild == MemoryInv /\ PtrInv /\ PtrBuild => MemoryInv'
<1> SUFFICES ASSUME MemoryInv, PtrInv, PtrBuild PROVE MemoryInv'
  OBVIOUS
<1>1. mode = "idle" /\ UNCHANGED <<stack, mode, mem, res>>
  BY DEF PtrBuild, OldBuild, Build, machineVars
<1>2. stack = <<>> /\ res = NULL
  BY <1>1 DEF MemoryInv, AnswerPlaced, PtrInv, OldInv, MachineInv, InOrder, CallsMatchMode
<1>3. DOMAIN stack' = {} /\ \A k \in 1 .. Len(stack') - 1 : FALSE
  BY <1>1, <1>2, EmptySeq
<1>4. /\ DOMAIN mem' \subseteq Addresses' /\ NULL' \notin DOMAIN mem'
      /\ mode' # "ret" /\ res' = NULL'
  BY <1>1, <1>2 DEF MemoryInv, Addresses, NULL
<1> QED
  BY <1>3, <1>4 DEF MemoryInv, FirstOnly, AnswerPlaced, PointerIsAnswer, OperandsKept

LEMMA MemoryInvoke == MemoryInv /\ PtrInv /\ PtrInvoke => MemoryInv'
<1> SUFFICES ASSUME MemoryInv, PtrInv, PtrInvoke PROVE MemoryInv'
  OBVIOUS
<1>1. PICK n \in DOMAIN items, T \in ValueTypes :
        /\ Enter(n, T)
        /\ mem' = Declared(DriverBuf(T))
        /\ calls' = <<Held(DriverBuf(T))>>
  BY DEF PtrInvoke
<1>2. /\ mode = "idle" /\ mode' = "call" /\ res' = res
      /\ stack' = <<Frame(n, T)>>
  BY <1>1 DEF PtrInvoke, Enter, Ask
<1>3. res' = NULL
  BY <1>2 DEF MemoryInv, AnswerPlaced
<1>4. /\ DOMAIN stack' = {1} /\ Len(stack') = 1
      /\ stack'[1].t = T /\ stack'[1].i = 0
  BY <1>2 DEF Frame
<1>5. calls'[1].to = DriverBuf(T) /\ calls'[1].val0 = NULL
  BY <1>1 DEF Held
<1>6. /\ DOMAIN mem' \subseteq Addresses' /\ NULL' \notin DOMAIN mem'
      /\ T = "decimal" => DriverBuf(T) = <<1, 1>> /\ <<1, 1>> \in DOMAIN mem'
      /\ T # "decimal" => DriverBuf(T) = NULL
  BY <1>1 DEF MemoryInv, Declared, DriverBuf, NULL, Addresses
<1>7. Lending(1)'
  <2>1. Lent(1 - 1)' = <<1, 1>>
    BY DEF Lent
  <2>2. <<1, 1>>[1] = 1 /\ <<1, 1>> # NULL
    BY DEF NULL
  <2> QED
    BY <1>4, <1>5, <1>6, <2>1, <2>2 DEF Lending
<1>8. Keeping(1)'
  BY <1>5 DEF Keeping
<1>9. FirstOnly' /\ AnswerPlaced' /\ PointerIsAnswer' /\ OperandsKept'
  <2>1. \A k \in 1 .. Len(stack') - 1 : FALSE
    BY <1>4
  <2>2. FirstOnly'
    BY <2>1 DEF FirstOnly
  <2>3. OperandsKept'
    <3> SUFFICES ASSUME NEW d \in DOMAIN stack', Remembers(stack[d])' PROVE FALSE
      BY DEF OperandsKept
    <3>1. stack'[d].i = 2
      BY DEF Remembers
    <3> QED
      BY <1>4, <3>1
  <2> QED
    BY <1>2, <1>3, <2>2, <2>3 DEF AnswerPlaced, PointerIsAnswer, NULL
<1> QED
  BY <1>4, <1>6, <1>7, <1>8, <1>9 DEF MemoryInv

LEMMA MemoryLeave == MemoryInv /\ PtrInv /\ PtrLeave => MemoryInv'
<1> SUFFICES ASSUME MemoryInv, PtrInv, PtrLeave PROVE MemoryInv'
  OBVIOUS
<1>1. /\ stack' = <<>> /\ mode' = "idle"
      /\ mem' = Below(mem, 0) /\ res' = NULL
  BY DEF PtrLeave, Leave
<1>2. DOMAIN mem' \subseteq Addresses' /\ NULL' \notin DOMAIN mem'
  BY <1>1 DEF MemoryInv, Below, Addresses, NULL
<1>3. DOMAIN stack' = {} /\ \A k \in 1 .. Len(stack') - 1 : FALSE
  BY <1>1, EmptySeq
<1> QED
  BY <1>1, <1>2, <1>3
     DEF MemoryInv, FirstOnly, AnswerPlaced, PointerIsAnswer, OperandsKept, NULL

LEMMA MemoryStart == PtrInit => MemoryInv
<1> SUFFICES ASSUME PtrInit PROVE MemoryInv
  OBVIOUS
<1>1. stack = <<>> /\ mode # "ret" /\ res = NULL
  BY DEF PtrInit, OldInit, MachineInit
<1>2. \A n \in DOMAIN LeafPool : n \in Nat \ {0}
  BY TreeAssumption, LenProperties
<1>3. \A a \in DOMAIN mem : \E n \in DOMAIN LeafPool : a = <<0, n>>
  BY DEF PtrInit
<1>4. DOMAIN mem \subseteq Addresses /\ NULL \notin DOMAIN mem
  BY <1>2, <1>3 DEF Addresses, NULL
<1> QED
  BY <1>1, <1>4, NoPointers

LEMMA MemoryStutter == MemoryInv /\ UNCHANGED ptrVars => MemoryInv'
<1> SUFFICES ASSUME MemoryInv, UNCHANGED ptrVars PROVE MemoryInv'
  OBVIOUS
<1>1. /\ items' = items /\ stack' = stack /\ mode' = mode /\ ret' = ret /\ req' = req
      /\ null_value' = null_value /\ mem' = mem /\ calls' = calls /\ res' = res
  BY DEF ptrVars
<1>2. \A k : Lent(k)' = Lent(k)
  BY <1>1, Zenon DEF Lent
<1>3. \A k : Lending(k) /\ Keeping(k) => Lending(k)' /\ Keeping(k)'
  BY <1>1, <1>2, Zenon DEF Lending, Keeping, NULL, Constants, Addresses
<1>4. FirstOnly'
  BY <1>1, Zenon DEF MemoryInv, FirstOnly, ComparesDecimals
<1>5. Callee' = Callee /\ Top' = Top
  BY <1>1, Zenon DEF Callee, Top
<1>6. AnswerType' = AnswerType /\ Answerer' = Answerer
  BY <1>1, <1>5, Zenon DEF AnswerType, Answerer, Arg, ComparesDecimals
<1>7. Free(DecimalComparisons)' = Free(DecimalComparisons)
  BY <1>1, OldScopeKept DEF OldScope
<1>8. AnswerPlaced'
  <2>1. Lent(Len(stack))' = Lent(Len(stack))
    BY <1>1, <1>2, Zenon DEF Lent
  <2> QED
    BY <1>1, <1>6, <2>1, Zenon DEF MemoryInv, AnswerPlaced, NULL, Constants, Addresses
<1>9. PointerIsAnswer'
  BY <1>1, <1>6, <1>7, Zenon DEF MemoryInv, PointerIsAnswer
<1>10. OperandsKept'
  BY <1>1, <1>7, Zenon DEF MemoryInv, OperandsKept, Remembers, ComparesDecimals
<1> QED
  BY <1>1, <1>3, <1>4, <1>8, <1>9, <1>10, Zenon DEF MemoryInv, NULL, Addresses

LEMMA MemoryKept == PtrInv /\ MemoryInv /\ [PtrNext]_ptrVars => MemoryInv'
BY MemoryBuild, MemoryInvoke, MemoryCall, MemoryReturn, MemoryLeave, MemoryStutter
   DEF PtrNext

(* Every reachable state of the memory and of the pointers into it         *)
(* satisfies the invariant.                                                *)
THEOREM MemoryInvariance == PtrSpec => [](PtrInv /\ MemoryInv)
BY PtrInitInv, PtrNextInv, MemoryStart, MemoryKept, PTL DEF PtrSpec

(* No pointer that the program holds points into a call that has returned. *)
LEMMA PointersAlive == PtrInv /\ MemoryInv => NoDangling
<1> SUFFICES ASSUME PtrInv, MemoryInv PROVE NoDangling
  OBVIOUS
<1>1. Len(calls) = Len(stack) /\ DOMAIN mem \subseteq Addresses
  BY DEF PtrInv, MemoryInv
<1>2. res \in DOMAIN mem \cup {NULL}
  BY DEF MemoryInv, AnswerPlaced
<1>3. DOMAIN calls = DOMAIN stack
  <2>1. calls \in Seq(Holdings) /\ stack \in Seq(Frames)
    BY DEF PtrInv, OldInv, MachineInv, TypeInv, MachineTypeOK
  <2> QED
    BY <1>1, <2>1, LenProperties
<1>4. \A d \in DOMAIN calls : {calls[d].to, calls[d].val0} \subseteq DOMAIN mem \cup {NULL}
  BY <1>3 DEF MemoryInv, Lending, Keeping
<1> QED
  BY <1>1, <1>2, <1>4 DEF NoDangling

(* No call of val_decimal() ever changes a literal that expressions share, *)
(* although it answers by the literal's address and its caller negates and *)
(* adds in place.                                                          *)
THEOREM LiteralsTheorem == PtrSpec => []LiteralsConstant
<1>1. PtrInv => LiteralsConstant
  BY DEF PtrInv, LiteralsConstant
<1> QED
  BY <1>1, PtrInitInv, PtrNextInv, PTL DEF PtrSpec

(* val_decimal() answers no pointer that dangles; one that its item's flag *)
(* says is there leads to the number to answer, and a sum's or a           *)
(* comparison's first operand is alive and unchanged while the second is   *)
(* evaluated, whatever literals and sub-expressions the two share.         *)
THEOREM PointersTheorem == PtrSpec => [](NoDangling /\ PointerIsAnswer /\ OperandsKept)
<1>1. PtrInv /\ MemoryInv => NoDangling /\ PointerIsAnswer /\ OperandsKept
  BY PointersAlive DEF MemoryInv
<1> QED
  BY <1>1, MemoryInvariance, PTL

-----------------------------------------------------------------------------
(* The driver: once it has picked a group, the behaviour is one of the     *)
(* module of that group.                                                   *)

LEMMA OldGroup == GroupsSpec /\ group = "old" => PtrSpec
<1>1. GroupsInit => PtrInit
  BY DEF GroupsInit
<1>2. group = "old" /\ [GroupsNext]_groupsVars => [PtrNext]_ptrVars /\ (group = "old")'
  BY DEF GroupsNext, GroupsBuild, EvaluateOld, EvaluatePrm, EvaluateNew,
         EvaluateVariant, PtrNext, groupsVars
<1> QED
  BY <1>1, <1>2, PTL DEF GroupsSpec, PtrSpec

LEMMA PrmGroup == GroupsSpec /\ group = "prm" => PrmSpec
<1>1. GroupsInit => PrmInit
  BY DEF GroupsInit, PtrInit, OldInit, PrmInit
<1>2. group = "prm" /\ [GroupsNext]_groupsVars => [PrmNext]_prmVars /\ (group = "prm")'
  BY DEF GroupsNext, GroupsBuild, EvaluateOld, EvaluatePrm, EvaluateNew,
         EvaluateVariant, PrmNext, PrmBuild, KeepFlags, groupsVars, ptrVars, prmVars
<1> QED
  BY <1>1, <1>2, PTL DEF GroupsSpec, PrmSpec

LEMMA NewGroup == GroupsSpec /\ group = "new" => NewSpec
<1>1. GroupsInit => NewInit
  BY DEF GroupsInit, PtrInit, OldInit, NewInit
<1>2. group = "new" /\ [GroupsNext]_groupsVars => [NewNext]_newVars /\ (group = "new")'
  BY DEF GroupsNext, GroupsBuild, EvaluateOld, EvaluatePrm, EvaluateNew,
         EvaluateVariant, NewNext, groupsVars, ptrVars, newVars
<1> QED
  BY <1>1, <1>2, PTL DEF GroupsSpec, NewSpec

LEMMA VariantGroup == GroupsSpec /\ group = "variant" => VariantSpec
<1>1. GroupsInit => VariantInit
  BY DEF GroupsInit, PtrInit, OldInit, VariantInit
<1>2. group = "variant" /\ [GroupsNext]_groupsVars => [VariantNext]_variantVars /\ (group = "variant")'
  BY DEF GroupsNext, GroupsBuild, EvaluateOld, EvaluatePrm, EvaluateNew,
         EvaluateVariant, VariantNext, groupsVars, ptrVars, variantVars
<1> QED
  BY <1>1, <1>2, PTL DEF GroupsSpec, VariantSpec

(* The modules' promises. *)

(* val_xxx() is right, unless decimals are compared, in any order of calls *)
(* over garbage and over what earlier calls left in null_value; whoever    *)
(* answers NULL to an OR by val_bool() answers FALSE.                      *)
THEOREM OldGroupAnswers == GroupsSpec => []OldAnswers
<1>1. GroupsSpec /\ group = "old" => []OldAnswerCorrect /\ []NullIsFalse
  BY OldGroup, PtrImplements, OldIsCorrect, NullAnswersAreFalse, PTL
<1>2. ~(group = "old") /\ [GroupsNext]_groupsVars => (~(group = "old"))'
  BY DEF GroupsNext, groupsVars
<1>3. ~(group = "old") \/ (OldAnswerCorrect /\ NullIsFalse) => OldAnswers
  BY DEF OldAnswers
<1> QED
  BY <1>1, <1>2, <1>3, PTL DEF GroupsSpec

(* val_decimal() returns no address of its own locals; what it points to,  *)
(* if null_value is clear, is the number to answer; and the second operand *)
(* of an addition or of a comparison leaves the first what it was, in the  *)
(* caller's buffer, a local or a literal.                                  *)
THEOREM OldGroupPointers == GroupsSpec => []OldPointers
<1>1. GroupsSpec /\ group = "old" => [](NoDangling /\ PointerIsAnswer /\ OperandsKept)
  BY OldGroup, PointersTheorem, PTL
<1>2. ~(group = "old") /\ [GroupsNext]_groupsVars => (~(group = "old"))'
  BY DEF GroupsNext, groupsVars
<1>3. ~(group = "old") \/ (NoDangling /\ PointerIsAnswer /\ OperandsKept) => OldPointers
  BY DEF OldPointers
<1> QED
  BY <1>1, <1>2, <1>3, PTL DEF GroupsSpec

(* val_xxx_null() is right whatever the flags held, but for OR, IS NULL    *)
(* and comparisons of integers; OR can lose a number and never invents     *)
(* one; the flags alive are the driver's and those of the calls that wait  *)
(* with a local of their own.                                              *)
THEOREM PrmGroupAnswers == GroupsSpec => []PrmAnswers
<1>1. GroupsSpec /\ group = "prm" =>
        []PrmAnswerCorrect /\ []NumbersAreRight /\ []OneFlagPerLocal
  BY PrmGroup, PrmIsCorrect, PrmNumbersAreRight, PrmOneFlagPerLocal, PTL
<1>2. ~(group = "prm") /\ [GroupsNext]_groupsVars => (~(group = "prm"))'
  BY DEF GroupsNext, groupsVars
<1>3. ~(group = "prm") \/ (PrmAnswerCorrect /\ NumbersAreRight /\ OneFlagPerLocal) => PrmAnswers
  BY DEF PrmAnswers
<1> QED
  BY <1>1, <1>2, <1>3, PTL DEF GroupsSpec

(* to_xxx_null() is right unless OR meets NULL. *)
THEOREM NewGroupAnswers == GroupsSpec => []NewAnswers
<1>1. GroupsSpec /\ group = "new" => []NewAnswerCorrect
  BY NewGroup, NewIsCorrect, PTL
<1>2. ~(group = "new") /\ [GroupsNext]_groupsVars => (~(group = "new"))'
  BY DEF GroupsNext, groupsVars
<1>3. ~(group = "new") \/ NewAnswerCorrect => NewAnswers
  BY DEF NewAnswers
<1> QED
  BY <1>1, <1>2, <1>3, PTL DEF GroupsSpec

(* The variant items answer as the virtual ones, in every type, unless     *)
(* they negate; they are never asked to resolve any but the integer types. *)
THEOREM VariantGroupAnswers == GroupsSpec => []VariantAnswers
<1>1. GroupsSpec /\ group = "variant" => []VariantAnswerCorrect /\ []OnlyIntegerTypes
  BY VariantGroup, VariantIsCorrect, VariantTypesAreIntegers, PTL
<1>2. ~(group = "variant") /\ [GroupsNext]_groupsVars => (~(group = "variant"))'
  BY DEF GroupsNext, groupsVars
<1>3. ~(group = "variant") \/ (VariantAnswerCorrect /\ OnlyIntegerTypes) => VariantAnswers
  BY DEF VariantAnswers
<1> QED
  BY <1>1, <1>2, <1>3, PTL DEF GroupsSpec
=============================================================================
