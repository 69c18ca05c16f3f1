--------------------------- MODULE RandomTreeProofs ---------------------------
(***************************************************************************)
(* generate_node() never fails its assertion, whatever the depth and the   *)
(* draws, every item is held once by the vector of unique_ptr and pointed  *)
(* to once, and the tree is one that ItemTree constructs.                  *)
(***************************************************************************)
EXTENDS RandomTree, ItemTreeProofs, FiniteSetTheorems

(* A call draws a class that node_factory() has, and the arguments it has  *)
(* are among the N items.                                                  *)
CallOK(c, N) ==
    /\ c \in Calls
    /\ c.kind = "none" => c.args = <<>>
    /\ c.kind # "none" => c.kind \in Kinds /\ Len(c.args) \in Arities[c.kind] \cap (1 .. MaxArity)
    /\ \A j \in DOMAIN c.args : c.args[j] \in 0 .. N

(* The call at place i of the stack has MaxDepth - i + 1 levels left: one  *)
(* that has a single level calls nothing.  Each call but the innermost     *)
(* waits for one of its arguments.                                         *)
StackInv ==
    /\ stack \in Seq(Calls)
    /\ \A i \in DOMAIN stack :
         CallOK(stack[i], Len(items)) /\ stack[i].depth = MaxDepth - i + 1 /\ stack[i].depth > 0
    /\ \A i \in 1 .. Len(stack) - 1 : stack[i].at \in DOMAIN stack[i].args

(* The items are stored in the order in which they are created, and what   *)
(* generate_tree() returns is the last of them.                            *)
StorageInv ==
    /\ storage \in Seq(Nat)
    /\ Len(storage) = Len(items)
    /\ \A i \in 1 .. Len(items) : storage[i] = i
    /\ root \in 0 .. Len(items)
    /\ root # 0 => stack = <<>> /\ root = Len(items)

RandomInv == TreeInv /\ StackInv /\ StorageInv

(* The stack is a sequence, and the innermost call one of its elements. *)
LEMMA StackFacts ==
    ASSUME StackInv, stack # <<>>
    PROVE  /\ Len(stack) \in Nat \ {0}
           /\ DOMAIN stack = 1 .. Len(stack)
           /\ Len(stack) \in 1 .. Len(stack)
           /\ CallOK(Caller, Len(items))
           /\ Caller.depth = MaxDepth - Len(stack) + 1
           /\ Caller.depth > 0
<1>1. Len(stack) \in Nat \ {0} /\ DOMAIN stack = 1 .. Len(stack)
  BY LenProperties, EmptySeq DEF StackInv
<1>2. Len(stack) \in 1 .. Len(stack)
  BY <1>1
<1> QED
  BY <1>1, <1>2 DEF StackInv, Caller

(* An argument of a call is set to an item that is there by then. *)
LEMMA ArgumentSet ==
    ASSUME NEW c, CallOK(c, Len(items)), NEW a \in DOMAIN c.args, Len(items) \in Nat,
           Len(items') = Len(items) + 1, NEW n \in 0 .. Len(items'),
           NEW d, d = [c EXCEPT !.args = [@ EXCEPT ![a] = n]]
    PROVE  CallOK(d, Len(items')) /\ d.depth = c.depth /\ d.at = c.at /\ DOMAIN d.args = DOMAIN c.args
<1> DEFINE as == [c.args EXCEPT ![a] = n]
<1>1. c \in Calls /\ c.args \in Seq(Nat)
  BY DEF CallOK, Calls
<1>2. DOMAIN c.args = 1 .. Len(c.args) /\ a \in 1 .. Len(c.args) /\ n \in Nat
  BY <1>1, LenProperties
<1>3. as \in Seq(Nat) /\ Len(as) = Len(c.args) /\ DOMAIN as = DOMAIN c.args
  BY <1>1, <1>2, ExceptSeq
<1>4. \A j \in DOMAIN as : as[j] \in 0 .. Len(items')
  <2>1. \A j \in DOMAIN c.args : c.args[j] \in 0 .. Len(items')
    BY DEF CallOK
  <2> QED
    BY <1>2, <1>3, <2>1
<1> HIDE DEF as
<1>5. d = [c EXCEPT !.args = as]
  BY DEF as
<1>6. d \in Calls /\ d.args = as /\ d.kind = c.kind /\ d.depth = c.depth /\ d.at = c.at
  BY <1>1, <1>3, <1>5 DEF Calls
<1>7. c.args # <<>>
  BY <1>2
<1>8. d.kind # "none"
  BY <1>1, <1>6, <1>7 DEF CallOK
<1>9. Len(c.args) \in Arities[d.kind] \cap (1 .. MaxArity) /\ d.kind \in Kinds
  BY <1>6, <1>8 DEF CallOK
<1> QED
  BY <1>3, <1>4, <1>6, <1>8, <1>9 DEF CallOK

(* A call that waits is as good as it was when an item is added. *)
LEMMA CallKept ==
    ASSUME NEW c, NEW m \in Nat, NEW n \in Nat, m <= n, CallOK(c, m)
    PROVE  CallOK(c, n)
BY DEF CallOK

(* The innermost call goes on, at the same depth. *)
LEMMA TopReplaced ==
    ASSUME StackInv, stack # <<>>, NEW c, CallOK(c, Len(items)), c.depth = Caller.depth,
           stack' = [stack EXCEPT ![Len(stack)] = c], items' = items
    PROVE  StackInv'
<1> DEFINE m == Len(stack)
<1>1. m \in Nat \ {0} /\ DOMAIN stack = 1 .. m /\ m \in 1 .. m
      /\ Caller.depth = MaxDepth - m + 1 /\ Caller.depth > 0
  BY StackFacts
<1>2. c \in Calls
  BY DEF CallOK
<1>3. /\ stack' \in Seq(Calls) /\ Len(stack') = m /\ DOMAIN stack' = 1 .. m
      /\ \A i \in 1 .. m : stack'[i] = IF i = m THEN c ELSE stack[i]
  BY <1>1, <1>2, ExceptSeq, LenProperties DEF StackInv
<1>4. ASSUME NEW i \in 1 .. m
      PROVE  /\ CallOK(stack'[i], Len(items')) /\ stack'[i].depth = MaxDepth - i + 1
             /\ stack'[i].depth > 0
  <2>1. CASE i = m
    BY <1>1, <1>3, <2>1
  <2>2. CASE i # m
    BY <1>1, <1>3, <2>2 DEF StackInv
  <2> QED
    BY <2>1, <2>2
<1>5. ASSUME NEW i \in 1 .. m - 1
      PROVE  stack'[i].at \in DOMAIN stack'[i].args
  <2>1. i \in 1 .. Len(stack) - 1
    OBVIOUS
  <2>2. i \in 1 .. m /\ i # m
    <3> HIDE DEF m
    <3> QED
      BY <1>1
  <2>3. stack'[i] = stack[i]
    BY <1>3, <2>2
  <2> QED
    BY <2>1, <2>3 DEF StackInv
<1> QED
  BY <1>3, <1>4, <1>5 DEF StackInv

(* It calls for an argument, if it has more than one level left. *)
LEMMA CallPushed ==
    ASSUME StackInv, stack # <<>>, Caller.depth # 1,
           NEW j \in DOMAIN Caller.args,
           stack' = Append([stack EXCEPT ![Len(stack)].at = j], Call(Caller.depth - 1)),
           Len(items) \in Nat, items' = items
    PROVE  StackInv'
<1> DEFINE m == Len(stack)
<1>1. m \in Nat \ {0} /\ DOMAIN stack = 1 .. m /\ m \in 1 .. m /\ CallOK(Caller, Len(items))
      /\ Caller.depth = MaxDepth - m + 1 /\ Caller.depth > 0
  BY StackFacts
<1> HIDE DEF m
<1>2. PICK c : c = [Caller EXCEPT !.at = j]
  OBVIOUS
<1>3. /\ c \in Calls /\ CallOK(c, Len(items)) /\ c.depth = Caller.depth
      /\ c.at = j /\ c.args = Caller.args
  <2>1. Caller \in Calls /\ Caller.args \in Seq(Nat)
    BY <1>1 DEF CallOK, Calls
  <2>2. j \in Nat
    BY <2>1, LenProperties
  <2>3. c \in Calls /\ c.depth = Caller.depth /\ c.at = j /\ c.args = Caller.args
        /\ c.kind = Caller.kind
    BY <1>2, <2>1, <2>2 DEF Calls
  <2> QED
    BY <1>1, <2>3 DEF CallOK
<1>4. PICK d : d = Call(Caller.depth - 1)
  OBVIOUS
<1>5. d.depth = MaxDepth - m /\ d.depth > 0 /\ CallOK(d, Len(items)) /\ d \in Calls
  <2>1. Caller.depth - 1 = MaxDepth - m /\ Caller.depth - 1 > 0 /\ Caller.depth - 1 \in Int
    BY <1>1, GeneratorAssumption
  <2>2. d \in Calls /\ d.depth = Caller.depth - 1 /\ d.args = <<>> /\ d.kind = "none"
    BY <1>4, <2>1, EmptySeq DEF Call, Calls
  <2> QED
    BY <2>1, <2>2 DEF CallOK
<1>6. PICK below : below = [stack EXCEPT ![m] = c]
  OBVIOUS
<1>7. stack' = Append(below, d)
  BY <1>2, <1>4, <1>6 DEF m, Caller
<1>8. /\ below \in Seq(Calls) /\ Len(below) = m
      /\ \A i \in 1 .. m : below[i] = IF i = m THEN c ELSE stack[i]
  BY <1>1, <1>3, <1>6, ExceptSeq DEF StackInv, m
<1>9. /\ stack' \in Seq(Calls) /\ Len(stack') = m + 1 /\ DOMAIN stack' = 1 .. m + 1
      /\ stack'[m + 1] = d /\ \A i \in 1 .. m : stack'[i] = below[i]
  <2>1. /\ stack' \in Seq(Calls) /\ Len(stack') = m + 1 /\ stack'[m + 1] = d
        /\ \A i \in 1 .. m : stack'[i] = below[i]
    <3> HIDE <1>7
    <3>1. /\ Append(below, d) \in Seq(Calls) /\ Len(Append(below, d)) = Len(below) + 1
          /\ Append(below, d)[Len(below) + 1] = d
          /\ \A i \in 1 .. Len(below) : Append(below, d)[i] = below[i]
      BY <1>5, <1>8, AppendProperties
    <3> QED
      BY <1>7, <1>8, <3>1
  <2> QED
    BY <2>1, LenProperties
<1>10. ASSUME NEW i \in 1 .. m
       PROVE  /\ CallOK(stack'[i], Len(items')) /\ stack'[i].depth = MaxDepth - i + 1
              /\ stack'[i].depth > 0 /\ stack'[i].at \in DOMAIN stack'[i].args
  <2>1. CASE i = m
    BY <1>1, <1>3, <1>8, <1>9, <2>1
  <2>2. CASE i # m
    <3>1. i \in 1 .. m - 1 /\ i \in DOMAIN stack
      BY <1>1, <2>2
    <3>2. stack'[i] = stack[i]
      BY <1>8, <1>9, <2>2
    <3> QED
      BY <3>1, <3>2 DEF StackInv, m
  <2> QED
    BY <2>1, <2>2
<1>11. \A i \in 1 .. m + 1 : i \in 1 .. m \/ i = m + 1
  BY <1>1
<1>12. d.depth = MaxDepth - (m + 1) + 1 /\ m + 1 - 1 = m
  BY <1>1, <1>5, GeneratorAssumption
<1>13. ASSUME NEW i \in DOMAIN stack'
       PROVE  /\ CallOK(stack'[i], Len(items')) /\ stack'[i].depth = MaxDepth - i + 1
              /\ stack'[i].depth > 0
  <2>1. CASE i = m + 1
    BY <1>5, <1>9, <1>12, <2>1
  <2> QED
    BY <1>9, <1>10, <1>11, <2>1
<1>14. Len(stack') - 1 = m
  BY <1>1, <1>9
<1>15. \A i \in 1 .. m : stack'[i].at \in DOMAIN stack'[i].args
  BY <1>10
<1>16. \A i \in 1 .. Len(stack') - 1 : stack'[i].at \in DOMAIN stack'[i].args
  BY <1>14, <1>15
<1> QED
  BY <1>9, <1>13, <1>16 DEF StackInv

(* The new item is returned to the innermost call or to generate_tree(). *)
LEMMA ReturnKeepsStack ==
    ASSUME StackInv, stack # <<>>, Len(items) \in Nat, Len(items') = Len(items) + 1,
           NEW n, n = Len(items'), Return(n)
    PROVE  StackInv'
<1> DEFINE m == Len(stack) - 1
<1>1. Len(stack) \in Nat \ {0} /\ DOMAIN stack = 1 .. Len(stack)
  BY StackFacts
<1>2. CASE m = 0
  <2>1. stack' = <<>>
    BY <1>2 DEF Return
  <2> QED
    BY <2>1 DEF StackInv
<1>3. CASE m # 0
  <2>1. m \in 1 .. Len(stack) /\ m \in Nat /\ m < Len(stack)
    BY <1>1, <1>3
  <2> HIDE DEF m
  <2>2. PICK below : below = SubSeq(stack, 1, m)
    OBVIOUS
  <2>3. /\ below \in Seq(Calls) /\ Len(below) = m
        /\ \A i \in 1 .. m : below[i] = stack[i]
    <3>1. \A i \in 1 .. m : stack[i] \in Calls
      BY <1>1, <2>1, ElementOfSeq DEF StackInv
    <3> QED
      BY <2>1, <2>2, <3>1, SubSeqProperties
  <2>4. DOMAIN below = 1 .. m /\ m \in 1 .. Len(below)
    BY <2>1, <2>3, LenProperties
  <2>5. PICK c : c = stack[m]
    OBVIOUS
  <2>6. CallOK(c, Len(items)) /\ c.at \in DOMAIN c.args /\ c.depth = MaxDepth - m + 1 /\ c.depth > 0
    <3>1. m \in 1 .. Len(stack) - 1
      BY <1>1, <2>1
    <3> QED
      BY <1>1, <2>1, <2>5, <3>1 DEF StackInv
  <2>7. PICK d : d = [c EXCEPT !.args = [@ EXCEPT ![c.at] = n]]
    OBVIOUS
  <2>8. n \in 0 .. Len(items')
    OBVIOUS
  <2>9. CallOK(d, Len(items')) /\ d.depth = c.depth
    BY <2>6, <2>7, <2>8, ArgumentSet
  <2>10. stack' = [below EXCEPT ![m] = d]
    <3>1. stack' = [SubSeq(stack, 1, m) EXCEPT ![m].args[stack[m].at] = n]
      BY <1>3 DEF Return, m
    <3>2. stack' = [below EXCEPT ![m] = [below[m] EXCEPT !.args = [@ EXCEPT ![c.at] = n]]]
      BY <2>2, <2>5, <3>1
    <3>3. below[m] = c
      BY <2>3, <2>4, <2>5
    <3> QED
      BY <2>7, <3>2, <3>3
  <2>11. stack' \in Seq(Calls) /\ Len(stack') = m
    <3>1. d \in Calls
      BY <2>9 DEF CallOK
    <3> QED
      BY <2>3, <2>4, <2>10, <3>1, ExceptSeq
  <2>12. DOMAIN stack' = 1 .. m
    BY <2>11, LenProperties
  <2>13. stack'[m] = d /\ \A i \in 1 .. m - 1 : stack'[i] = stack[i]
    BY <2>1, <2>3, <2>4, <2>10
  <2>14. ASSUME NEW i \in 1 .. m - 1
         PROVE  /\ CallOK(stack'[i], Len(items')) /\ stack'[i].depth = MaxDepth - i + 1 /\ stack'[i].depth > 0
                /\ stack'[i].at \in DOMAIN stack'[i].args
    <3>1. i \in DOMAIN stack /\ i \in 1 .. Len(stack) - 1 /\ stack'[i] = stack[i]
      BY <1>1, <2>1, <2>13
    <3>2. CallOK(stack[i], Len(items))
      BY <3>1 DEF StackInv
    <3>3. CallOK(stack[i], Len(items'))
      BY <3>2, CallKept
    <3> QED
      BY <3>1, <3>3 DEF StackInv
  <2>15. \A i \in 1 .. m : i = m \/ i \in 1 .. m - 1
    BY <2>1
  <2> QED
    BY <2>6, <2>9, <2>11, <2>12, <2>13, <2>14, <2>15 DEF StackInv
<1> QED
  BY <1>2, <1>3

(* The item that is created is stored behind the others. *)
LEMMA OwnKeepsInv ==
    ASSUME RandomInv, stack # <<>>, NEW it, Own(it), TreeInv'
    PROVE  RandomInv'
<1> DEFINE n == Len(items) + 1
<1>1. Len(items) \in Nat /\ Len(storage) = Len(items) /\ n \in Nat
  BY LenProperties DEF RandomInv, TreeInv, TreeTypeOK, StorageInv
<1>2. Len(items') = n
  <2>1. items \in Seq(ItemRecord) /\ items' \in Seq(ItemRecord)
    BY DEF RandomInv, TreeInv, TreeTypeOK
  <2>2. items' = Append(items, it)
    BY DEF Own
  <2> QED
    BY <2>1, <2>2, NewItemKeeps, LenProperties DEF RandomInv, Own
<1>3. StackInv'
  BY <1>1, <1>2, ReturnKeepsStack DEF RandomInv, Own
<1>4. /\ storage' \in Seq(Nat)
      /\ Len(storage') = n
      /\ \A i \in 1 .. n : storage'[i] = i
  <2>1. storage' = Append(storage, n)
    BY DEF Own
  <2>2. storage \in Seq(Nat) /\ \A i \in 1 .. Len(items) : storage[i] = i
    BY DEF RandomInv, StorageInv
  <2> QED
    BY <1>1, <2>1, <2>2, AppendProperties
<1>5. root = 0
  BY DEF RandomInv, StorageInv
<1>6. root' \in {0, n} /\ (root' # 0 => stack' = <<>>)
  BY <1>5 DEF Own, Return
<1>7. root' \in 0 .. n
  BY <1>1, <1>6
<1> QED
  BY <1>2, <1>3, <1>4, <1>6, <1>7 DEF RandomInv, StorageInv

(* A literal that is created is an item of its own. *)
LEMMA LiteralKeeps ==
    ASSUME RandomInv, stack # <<>>, NEW l \in DOMAIN LeafPool, Own(Leaf(LeafPool[l]))
    PROVE  RandomInv'
<1>1. Added(Leaf(LeafPool[l]))
  BY DEF Own, Added
<1>2. TreeInv'
  BY <1>1, LeafKeeps DEF RandomInv
<1> QED
  BY <1>2, OwnKeepsInv

(* A call that has its arguments creates the function drawn over items     *)
(* that exist.                                                             *)
LEMMA NewFunctionAdds ==
    ASSUME RandomInv, NewFunction
    PROVE  \E k \in Kinds, as \in ArgLists :
             k \in FuncKinds /\ Len(as) \in Arities[k] /\ Added(FuncItem(k, as))
             /\ Own(FuncItem(k, as))
<1>1. stack # <<>> /\ Generated(Caller) /\ Own(FuncItem(Caller.kind, Caller.args))
  BY DEF NewFunction
<1>2. PICK k, as : k = Caller.kind /\ as = Caller.args
  OBVIOUS
<1>3. CallOK(Caller, Len(items))
  BY <1>1, StackFacts DEF RandomInv
<1>4. as # <<>> /\ \A j \in DOMAIN as : as[j] # 0
  BY <1>1, <1>2 DEF Generated
<1>5. /\ k \in Kinds /\ Len(as) \in Arities[k] /\ Len(as) \in 1 .. MaxArity
      /\ as \in Seq(Nat) /\ \A j \in DOMAIN as : as[j] \in 0 .. Len(items)
  BY <1>2, <1>3, <1>4 DEF CallOK, Calls
<1>6. DOMAIN items = 1 .. Len(items) /\ Len(items) \in Nat
  BY LenProperties DEF RandomInv, TreeInv, TreeTypeOK
<1>7. as \in [1 .. Len(as) -> DOMAIN items]
  <2>1. as \in [1 .. Len(as) -> Nat]
    BY <1>5, LenProperties
  <2>2. DOMAIN as = 1 .. Len(as)
    BY <1>5, LenProperties
  <2>3. \A j \in 1 .. Len(as) : as[j] \in DOMAIN items
    <3>1. \A n \in 0 .. Len(items) : n # 0 => n \in DOMAIN items
      BY <1>6
    <3> QED
      BY <1>4, <1>5, <2>2, <3>1
  <2> QED
    BY <2>1, <2>3
<1>8. as \in ArgLists /\ k \in FuncKinds
  BY <1>5, <1>7, TreeAssumption DEF ArgLists
<1>9. Added(FuncItem(k, as))
  BY <1>1, <1>2 DEF Own, Added
<1> QED
  BY <1>1, <1>2, <1>5, <1>8, <1>9

-----------------------------------------------------------------------------
(* The initial states. *)
LEMMA RandomInit == Init => RandomInv
<1> SUFFICES ASSUME Init PROVE RandomInv
  OBVIOUS
<1>1. Len(items) = 0 /\ DOMAIN items = {}
  BY DEF Init
<1>2. TreeInv
  <2>1. items \in Seq(ItemRecord) /\ sem \in Seq([ValueTypes -> Results])
    BY EmptySeq DEF Init
  <2>2. Len(sem) = Len(items)
    BY DEF Init
  <2> QED
    BY <1>1, <2>1, <2>2 DEF TreeInv, TreeTypeOK, NullTypeIsNull
<1>3. StackInv
  <2>1. Call(MaxDepth) \in Calls /\ Call(MaxDepth).depth = MaxDepth
    BY EmptySeq, GeneratorAssumption DEF Calls, Call
  <2>2. CallOK(Call(MaxDepth), Len(items))
    BY <2>1 DEF CallOK, Call
  <2>3. stack = <<Call(MaxDepth)>>
    BY DEF Init
  <2>4. stack \in Seq(Calls) /\ Len(stack) = 1 /\ DOMAIN stack = {1} /\ stack[1] = Call(MaxDepth)
    BY <2>1, <2>3
  <2> QED
    BY <2>1, <2>2, <2>4, GeneratorAssumption DEF StackInv
<1>4. StorageInv
  BY <1>1, EmptySeq DEF Init, StorageInv
<1> QED
  BY <1>2, <1>3, <1>4 DEF RandomInv

(* Every step of generate_node(). *)
LEMMA RandomStep == RandomInv /\ [Next]_randomVars => RandomInv'
<1> SUFFICES ASSUME RandomInv, [Next]_randomVars
             PROVE  RandomInv'
  OBVIOUS
<1>1. CASE Bottom
  <2>1. PICK i \in DOMAIN LeafPool : LeafPool[i].kind = "int"
    BY GeneratorAssumption
  <2>2. PICK l \in DOMAIN LeafPool : Literal("int") = Leaf(LeafPool[l])
    BY <2>1 DEF Literal, LiteralPlace
  <2> QED
    BY <1>1, <2>2, LiteralKeeps DEF Bottom
<1>2. CASE DrawLiteral
  BY <1>2, LiteralKeeps DEF DrawLiteral
<1>3. CASE DrawFunction
  <2>1. stack # <<>> /\ ~Deepest(Caller.depth) /\ UNCHANGED <<items, sem, storage, root>>
    BY <1>3 DEF DrawFunction
  <2>2. PICK draw \in Draws :
          stack' = [stack EXCEPT ![Len(stack)] =
                      [@ EXCEPT !.kind = draw[1], !.args = [j \in 1 .. draw[2] |-> 0]]]
    BY <1>3 DEF DrawFunction
  <2>3. PICK k \in Kinds, n \in 0 .. MaxArity :
          n \in Arities[k] /\ draw[1] = k /\ draw[2] = n
    BY <2>2 DEF Draws
  <2>4. PICK as : as = [j \in 1 .. n |-> 0]
    OBVIOUS
  <2>5. PICK c : c = [Caller EXCEPT !.kind = k, !.args = as]
    OBVIOUS
  <2>6. stack' = [stack EXCEPT ![Len(stack)] = c]
    BY <2>2, <2>3, <2>4, <2>5 DEF Caller
  <2>7. as \in Seq(Nat) /\ Len(as) = n /\ DOMAIN as = 1 .. n /\ \A j \in 1 .. n : as[j] = 0
    BY <2>4, TreeAssumption
  <2>8. k \in FuncKinds /\ k # "none" /\ n \in 1 .. MaxArity
    BY <2>3, TreeAssumption DEF FuncKinds, Arities
  <2>9. CallOK(Caller, Len(items)) /\ Caller.depth = MaxDepth - Len(stack) + 1 /\ Caller.depth > 0
    BY <2>1, StackFacts DEF RandomInv
  <2>10. c \in Calls /\ c.kind = k /\ c.args = as /\ c.depth = Caller.depth
    BY <2>5, <2>7, <2>8, <2>9 DEF CallOK, Calls
  <2>11. Len(items) \in Nat
    BY LenProperties DEF RandomInv, TreeInv, TreeTypeOK
  <2>12. CallOK(c, Len(items))
    <3>1. \A j \in DOMAIN as : as[j] \in 0 .. Len(items)
      <4>1. 0 \in 0 .. Len(items)
        BY <2>11
      <4> QED
        BY <2>7, <4>1
    <3>2. k \in Kinds /\ Len(as) \in Arities[k] \cap (1 .. MaxArity)
      BY <2>3, <2>7, <2>8
    <3> QED
      BY <2>8, <2>10, <3>1, <3>2 DEF CallOK
  <2>13. TreeInv' /\ StorageInv'
    BY <2>1, UnchangedInv DEF RandomInv, StorageInv, treeVars
  <2>14. StackInv'
    BY <2>1, <2>6, <2>9, <2>10, <2>12, TopReplaced DEF RandomInv
  <2> QED
    BY <2>13, <2>14 DEF RandomInv
<1>4. CASE GenerateArgument
  <2>1. stack # <<>> /\ Caller.depth # 1 /\ UNCHANGED <<items, sem, storage, root>>
    BY <1>4 DEF GenerateArgument, Deepest
  <2>2. PICK j \in DOMAIN Caller.args :
          stack' = Append([stack EXCEPT ![Len(stack)].at = j], Call(Caller.depth - 1))
    BY <1>4 DEF GenerateArgument
  <2>3. Len(items) \in Nat
    BY LenProperties DEF RandomInv, TreeInv, TreeTypeOK
  <2>4. StackInv'
    BY <2>1, <2>2, <2>3, CallPushed DEF RandomInv
  <2>5. TreeInv' /\ StorageInv'
    BY <2>1, UnchangedInv DEF RandomInv, StorageInv, treeVars
  <2> QED
    BY <2>4, <2>5 DEF RandomInv
<1>5. CASE NewFunction
  <2>1. PICK k \in Kinds, as \in ArgLists :
          k \in FuncKinds /\ Len(as) \in Arities[k] /\ Added(FuncItem(k, as))
          /\ Own(FuncItem(k, as))
    BY <1>5, NewFunctionAdds
  <2>2. TreeInv'
    BY <2>1, FunctionKeeps DEF RandomInv
  <2>3. stack # <<>>
    BY <1>5 DEF NewFunction
  <2>4. PICK it : it = FuncItem(k, as)
    OBVIOUS
  <2>5. Own(it)
    BY <2>1, <2>4
  <2> QED
    BY <2>2, <2>3, <2>5, OwnKeepsInv
<1>6. CASE UNCHANGED randomVars
  <2>1. TreeInv'
    BY <1>6, UnchangedInv DEF RandomInv, randomVars, treeVars
  <2>2. StackInv' /\ StorageInv'
    BY <1>6 DEF RandomInv, StackInv, StorageInv, CallOK, randomVars
  <2> QED
    BY <2>1, <2>2 DEF RandomInv
<1> QED
  BY <1>1, <1>2, <1>3, <1>4, <1>5, <1>6 DEF Next

-----------------------------------------------------------------------------
(* The assertion of generate_node() holds in every call, and the stack is  *)
(* never deeper than the depth asked for, whatever that is and whichever   *)
(* classes and orders of arguments are drawn.                              *)
THEOREM AssertionTheorem == Spec => []AssertionHolds
<1>1. RandomInv => AssertionHolds
  <2> SUFFICES ASSUME RandomInv PROVE AssertionHolds
    OBVIOUS
  <2>1. Len(stack) \in Nat /\ DOMAIN stack = 1 .. Len(stack)
    BY LenProperties DEF RandomInv, StackInv
  <2>2. Len(stack) <= MaxDepth
    <3>1. CASE Len(stack) = 0
      BY <3>1, GeneratorAssumption
    <3>2. CASE Len(stack) # 0
      <4>1. Len(stack) \in DOMAIN stack
        BY <2>1, <3>2
      <4>2. MaxDepth - Len(stack) + 1 > 0
        BY <4>1 DEF RandomInv, StackInv
      <4> QED
        BY <2>1, <4>2, GeneratorAssumption
    <3> QED
      BY <3>1, <3>2
  <2> QED
    BY <2>2 DEF AssertionHolds, RandomInv, StackInv
<1> QED
  BY <1>1, RandomInit, RandomStep, PTL DEF Spec

(* Whatever tree is drawn, its items are well formed, each points only to  *)
(* items that were there before it, and a call only to items that exist.   *)
THEOREM RandomTypes == Spec => []TypeOK
<1>1. RandomInv => TypeOK
  <2> SUFFICES ASSUME RandomInv PROVE TypeOK
    OBVIOUS
  <2>1. Len(items) \in Nat /\ DOMAIN items = 1 .. Len(items)
    BY LenProperties DEF RandomInv, TreeInv, TreeTypeOK
  <2>2. storage \in Seq(DOMAIN items)
    <3>1. storage \in [1 .. Len(items) -> Nat]
      BY LenProperties DEF RandomInv, StorageInv
    <3>2. storage \in [1 .. Len(items) -> DOMAIN items]
      BY <2>1, <3>1 DEF RandomInv, StorageInv
    <3> QED
      BY <2>1, <3>2, FunctionIsSeq
  <2>3. root \in {0} \cup DOMAIN items
    BY <2>1 DEF RandomInv, StorageInv
  <2> QED
    BY <2>2, <2>3 DEF TypeOK, RandomInv, TreeInv, StackInv
<1> QED
  BY <1>1, RandomInit, RandomStep, PTL DEF Spec

(* The vector of unique_ptr owns every item exactly once, and what         *)
(* generate_tree() returns is the last item it owns.                       *)
THEOREM StorageTheorem == Spec => []StorageInv
BY RandomInit, RandomStep, PTL DEF Spec, RandomInv

-----------------------------------------------------------------------------
(* One place points to item n: an argument of one of the items its or an   *)
(* argument of one of the calls st.                                        *)
OnePlace(its, st, n) ==
    \/ (\E p : Uses(its, n) = {p}) /\ Uses(st, n) = {}
    \/ Uses(its, n) = {} /\ \E p : Uses(st, n) = {p}

(* Or it is what generate_tree() returns. *)
UsedOnce(n) ==
    IF root = n THEN Uses(items, n) = {} /\ Uses(stack, n) = {}
    ELSE OnePlace(items, stack, n)

(* The argument a call waits for is not there yet, and a call with one     *)
(* level left has drawn nothing: what it creates has its arguments.        *)
UseInv ==
    /\ \A i \in 1 .. Len(stack) - 1 : stack[i].args[stack[i].at] = 0
    /\ \A i \in DOMAIN stack : stack[i].depth = 1 => stack[i].kind = "none"
    /\ \A n \in 1 .. Len(items) : UsedOnce(n)

(* A use is a pair of places. *)
LEMMA UsePairs ==
    \A ps, n :
        /\ \A p \in Uses(ps, n) : p = <<p[1], p[2]>>
        /\ \A i, j : <<i, j>> \in Uses(ps, n) <=>
                       /\ i \in DOMAIN ps /\ j \in 1 .. MaxArity
                       /\ j \in DOMAIN ps[i].args /\ ps[i].args[j] = n
BY DEF Uses

(* Two sets of uses are the same if they are the same pairs. *)
LEMMA SameUses ==
    \A ps, qs, n :
        (\A i, j : <<i, j>> \in Uses(ps, n) <=> <<i, j>> \in Uses(qs, n))
          => Uses(ps, n) = Uses(qs, n)
<1> SUFFICES ASSUME NEW ps, NEW qs, NEW n,
                    \A i, j : <<i, j>> \in Uses(ps, n) <=> <<i, j>> \in Uses(qs, n)
             PROVE  Uses(ps, n) = Uses(qs, n)
  OBVIOUS
<1>1. \A p \in Uses(ps, n) : p \in Uses(qs, n)
  BY UsePairs
<1>2. \A p \in Uses(qs, n) : p \in Uses(ps, n)
  BY UsePairs
<1> QED
  BY <1>1, <1>2

(* The k - 1 calls below the innermost of st are those of ts, but for the  *)
(* argument the last of them waits for, which is n.                        *)
ReturnedTo(st, ts, k, n) ==
    /\ DOMAIN ts = 1 .. k - 1
    /\ \A i \in 1 .. k - 1 :
         /\ ts[i].kind = st[i].kind /\ ts[i].at = st[i].at /\ ts[i].depth = st[i].depth
         /\ DOMAIN ts[i].args = DOMAIN st[i].args
         /\ \A j \in DOMAIN st[i].args :
              ts[i].args[j] = IF i = k - 1 /\ j = st[i].at THEN n ELSE st[i].args[j]

LEMMA ReturnIsThat ==
    ASSUME StackInv, stack # <<>>, NEW n, Return(n)
    PROVE  /\ ReturnedTo(stack, stack', Len(stack), n)
           /\ Len(stack') = Len(stack) - 1
           /\ root' = IF Len(stack) = 1 THEN n ELSE root
<1> DEFINE m == Len(stack) - 1
<1>1. Len(stack) \in Nat \ {0} /\ DOMAIN stack = 1 .. Len(stack)
  BY StackFacts
<1>2. CASE m = 0
  <2>1. stack' = <<>> /\ root' = n
    BY <1>2 DEF Return
  <2>2. 1 .. m = {} /\ Len(stack) = 1
    <3>1. 1 .. 0 = {} /\ \A k \in Nat \ {0} : k - 1 = 0 => k = 1
      OBVIOUS
    <3>2. Len(stack) = 1
      BY <1>1, <1>2, <3>1
    <3> HIDE DEF m
    <3> QED
      BY <1>2, <3>1, <3>2
  <2>3. DOMAIN stack' = {} /\ Len(stack') = 0
    BY <2>1
  <2> QED
    BY <1>2, <2>1, <2>2, <2>3 DEF ReturnedTo
<1>3. CASE m # 0
  <2>1. m \in 1 .. Len(stack) /\ m \in Nat /\ m < Len(stack)
    BY <1>1, <1>3
  <2> HIDE DEF m
  <2>2. PICK below : below = SubSeq(stack, 1, m)
    OBVIOUS
  <2>3. below \in Seq(Calls) /\ Len(below) = m /\ \A i \in 1 .. m : below[i] = stack[i]
    <3>1. \A i \in 1 .. m : stack[i] \in Calls
      BY <1>1, <2>1, ElementOfSeq DEF StackInv
    <3> QED
      BY <2>1, <2>2, <3>1, SubSeqProperties
  <2>4. DOMAIN below = 1 .. m /\ m \in 1 .. m
    BY <2>1, <2>3, LenProperties
  <2>5. PICK c : c = stack[m]
    OBVIOUS
  <2>6. PICK d : d = [c EXCEPT !.args = [@ EXCEPT ![c.at] = n]]
    OBVIOUS
  <2>7. stack' = [below EXCEPT ![m] = d] /\ root' = root
    <3>1. stack' = [SubSeq(stack, 1, m) EXCEPT ![m].args[stack[m].at] = n] /\ root' = root
      BY <1>3 DEF Return, m
    <3>2. stack' = [below EXCEPT ![m] = [below[m] EXCEPT !.args = [@ EXCEPT ![c.at] = n]]]
      BY <2>2, <2>5, <3>1
    <3>3. below[m] = c
      BY <2>3, <2>4, <2>5
    <3> QED
      BY <2>6, <3>1, <3>2, <3>3
  <2>8. c \in Calls
    BY <1>1, <2>1, <2>5, ElementOfSeq DEF StackInv
  <2>9. /\ d.kind = c.kind /\ d.at = c.at /\ d.depth = c.depth
        /\ d.args = [c.args EXCEPT ![c.at] = n]
    BY <2>6, <2>8 DEF Calls
  <2>10. /\ DOMAIN d.args = DOMAIN c.args
         /\ \A j \in DOMAIN c.args : d.args[j] = IF j = c.at THEN n ELSE c.args[j]
    BY <2>9
  <2>11. DOMAIN stack' = 1 .. m /\ \A i \in 1 .. m : stack'[i] = IF i = m THEN d ELSE stack[i]
    BY <2>3, <2>4, <2>7
  <2>12. Len(stack') = m
    <3>1. stack' \in [1 .. m -> {stack'[i] : i \in 1 .. m}]
      BY <2>4, <2>7, <2>11
    <3>2. stack' \in Seq({stack'[i] : i \in 1 .. m})
      BY <2>1, <3>1, FunctionIsSeq
    <3> QED
      BY <2>1, <2>11, <3>2, LenProperties
  <2>13. \A i \in 1 .. m : /\ stack'[i].kind = stack[i].kind /\ stack'[i].at = stack[i].at
                            /\ stack'[i].depth = stack[i].depth
                            /\ DOMAIN stack'[i].args = DOMAIN stack[i].args
                            /\ \A j \in DOMAIN stack[i].args :
                                 stack'[i].args[j] = IF i = m /\ j = stack[i].at THEN n
                                                     ELSE stack[i].args[j]
    BY <2>5, <2>9, <2>10, <2>11
  <2>14. Len(stack) # 1
    BY <1>1, <1>3 DEF m
  <2> QED
    BY <2>7, <2>11, <2>12, <2>13, <2>14 DEF ReturnedTo, m
<1> QED
  BY <1>2, <1>3

(* The uses of n when the last call of st is gone and item N is new. *)
UsesMoved(its, jts, N, st, ts, k, n) ==
    /\ \A i, j : <<i, j>> \in Uses(jts, n) <=>
                     \/ <<i, j>> \in Uses(its, n)
                     \/ i = N /\ <<k, j>> \in Uses(st, n)
    /\ \A i, j : <<i, j>> \in Uses(ts, n) <=> i # k /\ <<i, j>> \in Uses(st, n)

(* The last call of st is gone and its arguments are those of item N: what *)
(* used an item there uses it in item N, and no other use has changed.     *)
LEMMA UsesMove ==
    ASSUME NEW N \in Nat \ {0}, NEW its, DOMAIN its = 1 .. N - 1,
           NEW jts, DOMAIN jts = 1 .. N, \A i \in 1 .. N - 1 : jts[i] = its[i],
           NEW k \in Nat \ {0}, NEW st, DOMAIN st = 1 .. k, NEW ts, ReturnedTo(st, ts, k, N),
           jts[N].args = st[k].args,
           k # 1 => st[k - 1].args[st[k - 1].at] = 0,
           NEW n \in 1 .. N - 1
    PROVE  UsesMoved(its, jts, N, st, ts, k, n)
<1>1. ASSUME NEW i, NEW j
      PROVE  <<i, j>> \in Uses(jts, n) <=>
                \/ <<i, j>> \in Uses(its, n)
                \/ i = N /\ <<k, j>> \in Uses(st, n)
  <2>1. CASE i \in 1 .. N - 1
    BY <2>1, UsePairs
  <2>2. CASE i = N
    BY <2>2, UsePairs
  <2>3. CASE i \notin 1 .. N
    BY <2>3, UsePairs
  <2> QED
    BY <2>1, <2>2, <2>3
<1>2. ASSUME NEW i, NEW j
      PROVE  <<i, j>> \in Uses(ts, n) <=> i # k /\ <<i, j>> \in Uses(st, n)
  <2>1. CASE i \in 1 .. k - 1
    <3>1. /\ i \in DOMAIN st /\ i \in DOMAIN ts /\ i # k
          /\ DOMAIN ts[i].args = DOMAIN st[i].args
          /\ \A l \in DOMAIN st[i].args :
               ts[i].args[l] = IF i = k - 1 /\ l = st[i].at THEN N ELSE st[i].args[l]
      BY <2>1 DEF ReturnedTo
    <3>2. k # 1 /\ n # N /\ n # 0
      BY <2>1
    <3>3. \A l \in DOMAIN st[i].args : ts[i].args[l] = n <=> st[i].args[l] = n
      BY <3>1, <3>2
    <3> QED
      BY <3>1, <3>3, UsePairs
  <2>2. CASE i \notin 1 .. k - 1
    <3>1. i \notin DOMAIN ts
      BY <2>2 DEF ReturnedTo
    <3>2. i = k \/ i \notin DOMAIN st
      BY <2>2
    <3> QED
      BY <3>1, <3>2, UsePairs
  <2> QED
    BY <2>1, <2>2
<1> QED
  BY <1>1, <1>2 DEF UsesMoved

(* The one use that was, whether it moved or not, is the one that is. *)
LEMMA OldUsedOnce ==
    ASSUME NEW N, NEW its, NEW jts, NEW k, NEW st, NEW ts, NEW n,
           UsesMoved(its, jts, N, st, ts, k, n), OnePlace(its, st, n)
    PROVE  OnePlace(jts, ts, n)
<1>1. CASE (\E p : Uses(its, n) = {p}) /\ Uses(st, n) = {}
  <2>1. \A i, j : <<i, j>> \notin Uses(ts, n)
    BY <1>1 DEF UsesMoved
  <2>2. \A i, j : <<i, j>> \in Uses(jts, n) <=> <<i, j>> \in Uses(its, n)
    BY <1>1 DEF UsesMoved
  <2>3. Uses(ts, n) = {}
    BY <2>1, UsePairs
  <2>4. Uses(jts, n) = Uses(its, n)
    BY <2>2, SameUses
  <2> QED
    BY <1>1, <2>3, <2>4 DEF OnePlace
<1>2. CASE Uses(its, n) = {} /\ \E p : Uses(st, n) = {p}
  <2>1. PICK p : Uses(st, n) = {p}
    BY <1>2
  <2>2. PICK a, b : p = <<a, b>>
    BY <2>1, UsePairs
  <2>3. \A i, j : <<i, j>> \in Uses(st, n) <=> i = a /\ j = b
    BY <2>1, <2>2
  <2>4. CASE a = k
    <3>1. \A i, j : <<i, j>> \notin Uses(ts, n)
      BY <2>3, <2>4 DEF UsesMoved
    <3>2. \A i, j : <<i, j>> \in Uses(jts, n) <=> i = N /\ j = b
      BY <1>2, <2>3, <2>4 DEF UsesMoved
    <3>3. Uses(ts, n) = {}
      BY <3>1, UsePairs
    <3>4. \A q \in Uses(jts, n) : q = <<N, b>>
      BY <3>2, UsePairs
    <3>5. Uses(jts, n) = {<<N, b>>}
      BY <3>2, <3>4
    <3> QED
      BY <3>3, <3>5 DEF OnePlace
  <2>5. CASE a # k
    <3>1. \A i, j : <<i, j>> \in Uses(ts, n) <=> <<i, j>> \in Uses(st, n)
      BY <2>3, <2>5 DEF UsesMoved
    <3>2. \A i, j : <<i, j>> \notin Uses(jts, n)
      BY <1>2, <2>3, <2>5 DEF UsesMoved
    <3>3. Uses(ts, n) = Uses(st, n)
      BY <3>1, SameUses
    <3>4. Uses(jts, n) = {}
      BY <3>2, UsePairs
    <3> QED
      BY <2>1, <3>3, <3>4 DEF OnePlace
  <2> QED
    BY <2>4, <2>5
<1> QED
  BY <1>1, <1>2 DEF OnePlace

(* An item that is new is used where it is returned to and nowhere else. *)
LEMMA NewUses ==
    ASSUME NEW n \in Nat, NEW k \in Nat \ {0}, NEW st, NEW ts, ReturnedTo(st, ts, k, n),
           \A i \in 1 .. k - 1 : \A j \in DOMAIN st[i].args : st[i].args[j] # n,
           k # 1 => st[k - 1].at \in DOMAIN st[k - 1].args \cap (1 .. MaxArity)
    PROVE  Uses(ts, n) = IF k = 1 THEN {} ELSE {<<k - 1, st[k - 1].at>>}
<1>1. \A i, j : <<i, j>> \in Uses(ts, n) <=> k # 1 /\ i = k - 1 /\ j = st[k - 1].at
  <2> SUFFICES ASSUME NEW i, NEW j
               PROVE  <<i, j>> \in Uses(ts, n) <=> k # 1 /\ i = k - 1 /\ j = st[k - 1].at
    OBVIOUS
  <2>1. CASE i \in 1 .. k - 1
    <3>1. /\ i \in DOMAIN ts /\ k # 1 /\ DOMAIN ts[i].args = DOMAIN st[i].args
          /\ \A l \in DOMAIN st[i].args :
               ts[i].args[l] = IF i = k - 1 /\ l = st[i].at THEN n ELSE st[i].args[l]
      BY <2>1 DEF ReturnedTo
    <3>2. \A l \in DOMAIN st[i].args : ts[i].args[l] = n <=> i = k - 1 /\ l = st[i].at
      BY <2>1, <3>1
    <3> QED
      BY <3>1, <3>2, UsePairs
  <2>2. CASE i \notin 1 .. k - 1
    <3>1. i \notin DOMAIN ts
      BY <2>2 DEF ReturnedTo
    <3>2. k # 1 => i # k - 1
      BY <2>2
    <3> QED
      BY <3>1, <3>2, UsePairs
  <2> QED
    BY <2>1, <2>2
<1>2. CASE k = 1
  BY <1>1, <1>2, UsePairs
<1>3. CASE k # 1
  <2>1. \A p \in Uses(ts, n) : p = <<k - 1, st[k - 1].at>>
    BY <1>1, UsePairs
  <2> QED
    BY <1>1, <1>3, <2>1
<1> QED
  BY <1>2, <1>3

(* An item is created from the arguments of the innermost call, which      *)
(* returns it: what pointed from the call points from the item, and one    *)
(* place that was empty points to the item.                                *)
LEMMA OwnKeepsUses ==
    ASSUME RandomInv, RandomInv', UseInv, stack # <<>>,
           NEW it, Own(it), it.args = Caller.args
    PROVE  UseInv'
<1>1. PICK N : N = Len(items) + 1
  OBVIOUS
<1>2. PICK k : k = Len(stack)
  OBVIOUS
<1>3. /\ N \in Nat \ {0} /\ DOMAIN items = 1 .. N - 1 /\ Len(items) = N - 1
      /\ k \in Nat \ {0} /\ DOMAIN stack = 1 .. k /\ root = 0
  BY <1>1, <1>2, LenProperties, StackFacts DEF RandomInv, TreeInv, TreeTypeOK, StorageInv
<1>4. /\ Len(items') = N /\ DOMAIN items' = 1 .. N
      /\ items'[N] = it /\ \A n \in 1 .. N - 1 : items'[n] = items[n]
  <2>1. items \in Seq(ItemRecord) /\ items' \in Seq(ItemRecord)
    BY DEF RandomInv, TreeInv, TreeTypeOK
  <2>2. items' = Append(items, it)
    BY DEF Own
  <2> QED
    BY <1>1, <1>3, <2>1, <2>2, NewItemKeeps, LenProperties DEF RandomInv, Own
<1>5. /\ ReturnedTo(stack, stack', k, N) /\ Len(stack') = k - 1
      /\ root' = IF k = 1 THEN N ELSE 0
  <2>1. Return(N) /\ StackInv
    BY <1>1 DEF Own, RandomInv
  <2> QED
    BY <1>2, <1>3, <2>1, ReturnIsThat
<1>6. \A i \in 1 .. k - 1 : stack[i].at \in DOMAIN stack[i].args /\ stack[i].args[stack[i].at] = 0
  BY <1>2 DEF RandomInv, StackInv, UseInv
<1>7. \A i \in 1 .. Len(stack') - 1 : stack'[i].args[stack'[i].at] = 0
  <2>1. \A i \in 1 .. Len(stack') - 1 : i \in 1 .. k - 1 /\ i # k - 1
    BY <1>3, <1>5
  <2> QED
    BY <1>5, <1>6, <2>1 DEF ReturnedTo
<1>8. \A i \in DOMAIN stack' : stack'[i].depth = 1 => stack'[i].kind = "none"
  <2>1. \A i \in 1 .. k - 1 : i \in DOMAIN stack
    BY <1>3
  <2> QED
    BY <1>5, <2>1 DEF UseInv, ReturnedTo
<1>9. PICK its, jts, st, ts : its = items /\ jts = items' /\ st = stack /\ ts = stack'
  OBVIOUS
<1>10. /\ DOMAIN its = 1 .. N - 1 /\ DOMAIN jts = 1 .. N /\ DOMAIN st = 1 .. k
       /\ \A i \in 1 .. N - 1 : jts[i] = its[i]
       /\ ReturnedTo(st, ts, k, N) /\ jts[N].args = st[k].args
       /\ \A i \in 1 .. k - 1 : st[i].at \in DOMAIN st[i].args /\ st[i].args[st[i].at] = 0
  BY <1>2, <1>3, <1>4, <1>5, <1>6, <1>9 DEF Caller
<1>11. k # 1 => k - 1 \in 1 .. k - 1
  BY <1>3
<1>12. ASSUME NEW n \in 1 .. N - 1
       PROVE  UsedOnce(n)'
  <2>1. UsesMoved(its, jts, N, st, ts, k, n)
    <3>1. k # 1 => st[k - 1].args[st[k - 1].at] = 0
      BY <1>10, <1>11
    <3> QED
      BY <1>3, <1>10, <3>1, UsesMove
  <2>2. n # 0 /\ n # N
    BY <1>3
  <2>3. UsedOnce(n) /\ root # n
    BY <1>3, <2>2 DEF UseInv
  <2>4. OnePlace(its, st, n)
    BY <1>9, <2>3 DEF UsedOnce
  <2>5. OnePlace(jts, ts, n)
    BY <2>1, <2>4, OldUsedOnce
  <2>6. root' # n
    BY <1>5, <2>2
  <2> QED
    BY <1>9, <2>5, <2>6 DEF UsedOnce
<1>13. UsedOnce(N)'
  <2>1. \A i \in 1 .. N : \A j \in DOMAIN jts[i].args : jts[i].args[j] # N
    <3>1. \A i \in 1 .. N : ItemOK(jts[i], i)
      BY <1>4, <1>9 DEF RandomInv, TreeInv, TreeTypeOK
    <3>2. \A i \in 1 .. N : N \notin 1 .. i - 1
      BY <1>3
    <3>3. ASSUME NEW i \in 1 .. N, NEW j \in DOMAIN jts[i].args
          PROVE  jts[i].args[j] # N
      <4>1. jts[i].kind \in LeafKinds \/ jts[i].kind \in FuncKinds
        BY <3>1 DEF ItemOK, ItemRecord
      <4>2. CASE jts[i].kind \in LeafKinds
        BY <3>1, <4>2 DEF ItemOK
      <4>3. CASE jts[i].kind \in FuncKinds
        BY <3>1, <3>2, <4>3 DEF ItemOK
      <4> QED
        BY <4>1, <4>2, <4>3
    <3> QED
      BY <3>3
  <2>2. Uses(jts, N) = {}
    <3>1. \A i, j : <<i, j>> \notin Uses(jts, N)
      BY <1>10, <2>1 DEF Uses
    <3> QED
      BY <3>1, UsePairs
  <2>3. \A i \in 1 .. k - 1 : CallOK(st[i], N - 1)
    <3>1. \A i \in 1 .. k - 1 : i \in DOMAIN stack
      BY <1>3
    <3> QED
      BY <1>3, <1>9, <3>1 DEF RandomInv, StackInv
  <2>4. \A i \in 1 .. k - 1 : \A j \in DOMAIN st[i].args : st[i].args[j] # N
    <3>1. N \notin 0 .. N - 1
      BY <1>3
    <3> QED
      BY <2>3, <3>1 DEF CallOK
  <2>5. \A i \in 1 .. k - 1 : st[i].at \in 1 .. MaxArity
    <3> SUFFICES ASSUME NEW i \in 1 .. k - 1
                 PROVE  st[i].at \in 1 .. MaxArity
      OBVIOUS
    <3>1. CallOK(st[i], N - 1) /\ st[i].at \in DOMAIN st[i].args
      BY <1>10, <2>3
    <3>2. st[i].args \in Seq(Nat) /\ st[i].args # <<>>
      BY <3>1 DEF CallOK, Calls
    <3>3. Len(st[i].args) \in 1 .. MaxArity
      BY <3>1, <3>2 DEF CallOK
    <3>4. DOMAIN st[i].args = 1 .. Len(st[i].args)
      BY <3>2, LenProperties
    <3> QED
      BY <3>1, <3>3, <3>4, TreeAssumption
  <2>6. Uses(ts, N) = IF k = 1 THEN {} ELSE {<<k - 1, st[k - 1].at>>}
    <3>1. k # 1 => st[k - 1].at \in DOMAIN st[k - 1].args \cap (1 .. MaxArity)
      BY <1>10, <1>11, <2>5
    <3> QED
      BY <1>3, <1>10, <2>4, <3>1, NewUses
  <2>7. N # 0
    BY <1>3
  <2>8. CASE k = 1
    BY <1>5, <1>9, <2>2, <2>6, <2>8 DEF UsedOnce
  <2>9. CASE k # 1
    BY <1>5, <1>9, <2>2, <2>6, <2>7, <2>9 DEF UsedOnce, OnePlace
  <2> QED
    BY <2>8, <2>9
<1>14. \A n \in 1 .. N : n = N \/ n \in 1 .. N - 1
  BY <1>3
<1>15. \A n \in 1 .. N : UsedOnce(n)'
  BY <1>12, <1>13, <1>14
<1> QED
  BY <1>4, <1>7, <1>8, <1>15 DEF UseInv

(* A step that creates nothing and leaves every use where it is. *)
LEMMA UsesKept ==
    ASSUME RandomInv, UseInv, items' = items, root' = root,
           \A n \in Nat \ {0} : \A i, j : <<i, j>> \in Uses(stack', n) <=> <<i, j>> \in Uses(stack, n)
    PROVE  \A n \in 1 .. Len(items') : UsedOnce(n)'
<1>1. Len(items) \in Nat
  BY LenProperties DEF RandomInv, TreeInv, TreeTypeOK
<1>2. ASSUME NEW n \in 1 .. Len(items')
      PROVE  UsedOnce(n)'
  <2>1. n \in 1 .. Len(items) /\ n \in Nat \ {0}
    BY <1>1
  <2>2. UsedOnce(n)
    BY <2>1 DEF UseInv
  <2>3. PICK st, ts : st = stack /\ ts = stack'
    OBVIOUS
  <2>4. \A i, j : <<i, j>> \in Uses(ts, n) <=> <<i, j>> \in Uses(st, n)
    BY <2>1, <2>3
  <2>5. Uses(ts, n) = Uses(st, n)
    BY <2>4, SameUses
  <2> QED
    BY <2>2, <2>3, <2>5 DEF UsedOnce, OnePlace
<1> QED
  BY <1>2

(* Every step moves uses and makes one for the item it creates. *)
LEMMA RandomUses == RandomInv /\ RandomInv' /\ UseInv /\ [Next]_randomVars => UseInv'
<1> SUFFICES ASSUME RandomInv, RandomInv', UseInv, [Next]_randomVars
             PROVE  UseInv'
  OBVIOUS
<1>1. stack # <<>> => /\ Len(stack) \in Nat \ {0} /\ DOMAIN stack = 1 .. Len(stack)
                      /\ Len(stack) \in DOMAIN stack /\ CallOK(Caller, Len(items))
                      /\ Caller.depth > 0
  BY StackFacts DEF RandomInv
<1>2. CASE Bottom
  <2>1. Caller.kind = "none" /\ stack # <<>> /\ Own(Literal("int"))
    BY <1>1, <1>2 DEF Bottom, Deepest, UseInv, Caller
  <2>2. Caller.args = <<>> /\ Literal("int").args = <<>>
    BY <1>1, <2>1 DEF CallOK, Literal, Leaf
  <2> QED
    BY <2>1, <2>2, OwnKeepsUses
<1>3. CASE DrawLiteral
  <2>1. PICK i \in DOMAIN LeafPool : Own(Leaf(LeafPool[i]))
    BY <1>3 DEF DrawLiteral
  <2>2. Caller.args = <<>> /\ stack # <<>> /\ Leaf(LeafPool[i]).args = <<>>
    BY <1>1, <1>3 DEF DrawLiteral, CallOK, Leaf
  <2> QED
    BY <2>1, <2>2, OwnKeepsUses
<1>4. CASE NewFunction
  <2>1. stack # <<>> /\ Own(FuncItem(Caller.kind, Caller.args))
    BY <1>4 DEF NewFunction
  <2>2. FuncItem(Caller.kind, Caller.args).args = Caller.args
    BY DEF FuncItem
  <2> QED
    BY <2>1, <2>2, OwnKeepsUses
<1>5. CASE DrawFunction
  <2>1. PICK k : k = Len(stack)
    OBVIOUS
  <2>2. /\ stack # <<>> /\ Caller.depth # 1 /\ Caller.kind = "none"
        /\ items' = items /\ root' = root
    BY <1>5 DEF DrawFunction, Deepest
  <2>3. PICK draw \in Draws :
          stack' = [stack EXCEPT ![Len(stack)] =
                      [@ EXCEPT !.kind = draw[1], !.args = [j \in 1 .. draw[2] |-> 0]]]
    BY <1>5 DEF DrawFunction
  <2>4. PICK as, c : as = [j \in 1 .. draw[2] |-> 0] /\ c = [Caller EXCEPT !.kind = draw[1], !.args = as]
    OBVIOUS
  <2>5. stack' = [stack EXCEPT ![k] = c]
    BY <2>1, <2>3, <2>4 DEF Caller
  <2>6. k \in Nat /\ DOMAIN stack = 1 .. k /\ k \in 1 .. k
    BY <1>1, <2>1, <2>2
  <2>7. /\ DOMAIN stack' = 1 .. k /\ Len(stack') = k
        /\ \A i \in 1 .. k : stack'[i] = IF i = k THEN c ELSE stack[i]
    <3>1. DOMAIN stack' = 1 .. k /\ \A i \in 1 .. k : stack'[i] = IF i = k THEN c ELSE stack[i]
      BY <2>5, <2>6
    <3>2. stack' \in Seq(Calls)
      BY DEF RandomInv, StackInv
    <3> QED
      BY <2>6, <3>1, <3>2, LenProperties
  <2>8. Caller \in Calls /\ Caller.args = <<>> /\ Caller = stack[k]
    BY <1>1, <2>1, <2>2 DEF CallOK, Caller
  <2>9. c.args = as /\ c.depth = Caller.depth /\ \A j \in DOMAIN as : as[j] = 0
    BY <2>4, <2>8 DEF Calls
  <2>10. \A i \in 1 .. Len(stack') - 1 : stack'[i].args[stack'[i].at] = 0
    BY <2>1, <2>6, <2>7 DEF UseInv
  <2>11. \A i \in DOMAIN stack' : stack'[i].depth = 1 => stack'[i].kind = "none"
    BY <2>2, <2>6, <2>7, <2>9 DEF UseInv
  <2>12. ASSUME NEW n \in Nat \ {0}, NEW i, NEW j
         PROVE  <<i, j>> \in Uses(stack', n) <=> <<i, j>> \in Uses(stack, n)
    <3>1. PICK st, ts : st = stack /\ ts = stack'
      OBVIOUS
    <3>2. CASE i = k
      <4>1. ts[i] = c /\ st[i] = Caller
        BY <2>6, <2>7, <2>8, <3>1, <3>2
      <4>2. DOMAIN st[i].args = {}
        BY <2>8, <4>1
      <4>3. \A l \in DOMAIN ts[i].args : ts[i].args[l] # n
        BY <2>9, <4>1
      <4>4. <<i, j>> \notin Uses(st, n) /\ <<i, j>> \notin Uses(ts, n)
        BY <4>2, <4>3 DEF Uses
      <4> QED
        BY <3>1, <4>4
    <3>3. CASE i # k
      <4>1. /\ i \in DOMAIN ts <=> i \in DOMAIN st
            /\ i \in DOMAIN st => ts[i] = st[i]
        BY <2>6, <2>7, <3>1, <3>3
      <4>2. <<i, j>> \in Uses(ts, n) <=> <<i, j>> \in Uses(st, n)
        BY <4>1 DEF Uses
      <4> QED
        BY <3>1, <4>2
    <3> QED
      BY <3>2, <3>3
  <2>13. \A n \in 1 .. Len(items') : UsedOnce(n)'
    BY <2>2, <2>12, UsesKept
  <2> QED
    BY <2>10, <2>11, <2>13 DEF UseInv
<1>6. CASE GenerateArgument
  <2>1. PICK k : k = Len(stack)
    OBVIOUS
  <2>2. stack # <<>> /\ items' = items /\ root' = root
    BY <1>6 DEF GenerateArgument
  <2>3. PICK a \in DOMAIN Caller.args :
          /\ Caller.args[a] = 0
          /\ stack' = Append([stack EXCEPT ![Len(stack)].at = a], Call(Caller.depth - 1))
    BY <1>6 DEF GenerateArgument
  <2>4. PICK c, d : c = [Caller EXCEPT !.at = a] /\ d = Call(Caller.depth - 1)
    OBVIOUS
  <2>5. PICK below : below = [stack EXCEPT ![k] = c]
    OBVIOUS
  <2>6. stack' = Append(below, d)
    BY <2>1, <2>3, <2>4, <2>5 DEF Caller
  <2>7. /\ k \in Nat \ {0} /\ DOMAIN stack = 1 .. k /\ k \in 1 .. k
        /\ Caller \in Calls /\ Caller = stack[k]
    BY <1>1, <2>1, <2>2 DEF CallOK, Caller
  <2>8. /\ c.args = Caller.args /\ c.at = a /\ c.kind = Caller.kind /\ c.depth = Caller.depth
        /\ d.args = <<>> /\ d.kind = "none"
    BY <2>4, <2>7 DEF Calls, Call
  <2>9. /\ DOMAIN below = 1 .. k /\ Len(below) = k
        /\ \A i \in 1 .. k : below[i] = IF i = k THEN c ELSE stack[i]
    <3>1. c \in Calls
      <4>1. a \in Nat
        BY <2>3, <2>7, LenProperties DEF Calls
      <4> QED
        BY <2>4, <2>7, <4>1 DEF Calls
    <3>2. below \in Seq(Calls) /\ Len(below) = k
      BY <2>1, <2>5, <2>7, <3>1, ExceptSeq DEF RandomInv, StackInv
    <3> QED
      BY <2>5, <2>7, <3>2, LenProperties
  <2>10. /\ DOMAIN stack' = 1 .. k + 1 /\ Len(stack') = k + 1 /\ stack'[k + 1] = d
         /\ \A i \in 1 .. k : stack'[i] = below[i]
    BY <2>6, <2>7, <2>9
  <2>11. \A i \in 1 .. Len(stack') - 1 : stack'[i].args[stack'[i].at] = 0
    <3>1. \A i \in 1 .. k : i = k \/ i \in 1 .. k - 1
      BY <2>7
    <3>2. Len(stack') - 1 = k
      BY <2>7, <2>10
    <3>3. \A i \in 1 .. k - 1 : i \in 1 .. k /\ i # k /\ stack[i].args[stack[i].at] = 0
      BY <2>1, <2>7 DEF UseInv
    <3>4. stack'[k] = c /\ c.args[c.at] = 0
      BY <2>3, <2>7, <2>8, <2>9, <2>10
    <3>5. \A i \in 1 .. k - 1 : stack'[i] = stack[i]
      BY <2>9, <2>10, <3>3
    <3>6. \A i \in 1 .. k : stack'[i].args[stack'[i].at] = 0
      BY <3>1, <3>3, <3>4, <3>5
    <3> QED
      BY <3>2, <3>6
  <2>12. \A i \in DOMAIN stack' : stack'[i].depth = 1 => stack'[i].kind = "none"
    <3>1. \A i \in 1 .. k + 1 : i = k + 1 \/ i \in 1 .. k
      BY <2>7
    <3> QED
      BY <2>7, <2>8, <2>9, <2>10, <3>1 DEF UseInv
  <2>13. ASSUME NEW n \in Nat \ {0}, NEW i, NEW j
         PROVE  <<i, j>> \in Uses(stack', n) <=> <<i, j>> \in Uses(stack, n)
    <3>1. PICK st, ts : st = stack /\ ts = stack'
      OBVIOUS
    <3>2. CASE i = k + 1
      <4>1. i \notin DOMAIN st /\ DOMAIN ts[i].args = {}
        BY <2>7, <2>8, <2>10, <3>1, <3>2
      <4>2. <<i, j>> \notin Uses(st, n) /\ <<i, j>> \notin Uses(ts, n)
        BY <4>1 DEF Uses
      <4> QED
        BY <3>1, <4>2
    <3>3. CASE i # k + 1
      <4>1. /\ i \in DOMAIN ts <=> i \in DOMAIN st
            /\ i \in DOMAIN st => ts[i].args = st[i].args
        BY <2>7, <2>8, <2>9, <2>10, <3>1, <3>3
      <4>2. <<i, j>> \in Uses(ts, n) <=> <<i, j>> \in Uses(st, n)
        BY <4>1 DEF Uses
      <4> QED
        BY <3>1, <4>2
    <3> QED
      BY <3>2, <3>3
  <2>14. \A n \in 1 .. Len(items') : UsedOnce(n)'
    BY <2>2, <2>13, UsesKept
  <2> QED
    BY <2>11, <2>12, <2>14 DEF UseInv
<1>7. CASE UNCHANGED randomVars
  <2>1. items' = items /\ stack' = stack /\ root' = root
    BY <1>7 DEF randomVars
  <2>2. \A n \in 1 .. Len(items') : UsedOnce(n)'
    BY <2>1 DEF UseInv, UsedOnce
  <2> QED
    BY <2>1, <2>2 DEF UseInv
<1> QED
  BY <1>2, <1>3, <1>4, <1>5, <1>6, <1>7 DEF Next

(* Every item is owned once and used once: the vector frees each exactly   *)
(* once and leaves nothing that points to a freed one, whatever is drawn   *)
(* and in whatever order arguments are generated.                          *)
THEOREM OwnershipTheorem == Spec => []OwnedOnce
<1>1. Init => UseInv
  <2> SUFFICES ASSUME Init PROVE UseInv
    OBVIOUS
  <2>1. Len(items) = 0 /\ stack = <<Call(MaxDepth)>>
    BY DEF Init
  <2>2. Len(stack) = 1 /\ DOMAIN stack = {1} /\ stack[1].kind = "none"
    BY <2>1 DEF Call
  <2> QED
    BY <2>1, <2>2 DEF UseInv
<1>2. RandomInv /\ UseInv => OwnedOnce
  <2> SUFFICES ASSUME RandomInv, UseInv PROVE OwnedOnce
    OBVIOUS
  <2>1. Len(items) \in Nat /\ DOMAIN items = 1 .. Len(items)
    BY LenProperties DEF RandomInv, TreeInv, TreeTypeOK
  <2>2. DOMAIN storage = DOMAIN items /\ \A i \in DOMAIN storage : storage[i] = i
    BY <2>1, LenProperties DEF RandomInv, StorageInv
  <2>3. {storage[i] : i \in DOMAIN storage} = DOMAIN items
    BY <2>2
  <2>4. ASSUME NEW n \in DOMAIN items
        PROVE  Cardinality(Uses(items, n)) + Cardinality(Uses(stack, n))
                 + (IF root = n THEN 1 ELSE 0) = 1
    <3>1. UsedOnce(n)
      BY <2>1 DEF UseInv
    <3>2. Cardinality({}) = 0 /\ \A p : Cardinality({p}) = 1
      BY FS_EmptySet, FS_Singleton
    <3>3. CASE root = n
      BY <3>1, <3>2, <3>3 DEF UsedOnce
    <3>4. CASE root # n
      <4>1. OnePlace(items, stack, n)
        BY <3>1, <3>4 DEF UsedOnce
      <4>2. \/ Cardinality(Uses(items, n)) = 1 /\ Cardinality(Uses(stack, n)) = 0
            \/ Cardinality(Uses(items, n)) = 0 /\ Cardinality(Uses(stack, n)) = 1
        BY <3>2, <4>1 DEF OnePlace
      <4> QED
        BY <3>4, <4>2
    <3> QED
      BY <3>3, <3>4
  <2> QED
    BY <2>3, <2>4 DEF OwnedOnce, RandomInv, StorageInv
<1> QED
  BY <1>1, <1>2, RandomInit, RandomStep, RandomUses, PTL DEF Spec

-----------------------------------------------------------------------------
(* The trees are those of ItemTree.  Literals of a class are shared there, *)
(* so that an item's place follows from the functions created before it.   *)

(* ItemTree's functions of values are the same for the shared items. *)
LEMMA SameSem ==
    ASSUME NEW it, NEW sm
    PROVE  Tree!ItemSem(it, sm) = ItemSem(it, sm)
BY DEF Tree!ItemSem, ItemSem, Tree!SemOf, SemOf, Tree!LeafKinds, LeafKinds,
       Tree!ValueTypes, ValueTypes, Tree!ArgType, ArgType, Tree!ArithType, ArithType,
       Tree!NativeType, NativeType, Tree!MYSQL_TYPE_NULL, MYSQL_TYPE_NULL,
       Tree!MYSQL_TYPE_BOOL, MYSQL_TYPE_BOOL, Tree!MYSQL_TYPE_LONGLONG, MYSQL_TYPE_LONGLONG,
       Tree!MYSQL_TYPE_DOUBLE, MYSQL_TYPE_DOUBLE, Tree!LeafSem, LeafSem, Tree!Trunc, Trunc,
       Tree!AddSem, AddSem, Tree!FromArith, FromArith, Tree!Plus, Plus, Tree!Fit, Fit,
       Tree!Num, Num, Tree!ToInt32, ToInt32, Tree!ToBool, ToBool, Tree!BoolValue, BoolValue,
       Tree!Value, Value, Tree!SqlNull, SqlNull, Tree!UminusSem, UminusSem, Tree!Neg, Neg,
       Tree!OrSem, OrSem, Tree!IsTrue, IsTrue, Tree!CoalesceSem, CoalesceSem, Tree!EqSem, EqSem

(* Its leaves are, too, and the types of a function are those its          *)
(* arguments have among the shared items.                                  *)
LEMMA SameTypes ==
    /\ \A l : Tree!Leaf(l) = Leaf(l)
    /\ \A k, ts : Tree!FuncType(k, ts) = FuncType(k, ts)
    /\ \A ts : Tree!Hybrid_field_type(ts) = Hybrid_field_type(ts)
<1>1. \A l : Tree!Leaf(l) = Leaf(l)
  BY DEF Tree!Leaf, Leaf, Tree!LeafType, LeafType, Tree!MYSQL_TYPE_NULL, MYSQL_TYPE_NULL,
         Tree!MYSQL_TYPE_BOOL, MYSQL_TYPE_BOOL, Tree!MYSQL_TYPE_LONGLONG, MYSQL_TYPE_LONGLONG,
         Tree!MYSQL_TYPE_DOUBLE, MYSQL_TYPE_DOUBLE, Tree!MYSQL_TYPE_NEWDECIMAL,
         MYSQL_TYPE_NEWDECIMAL
<1>2. \A t, u : Tree!Hybrid2(t, u) = Hybrid2(t, u)
  BY DEF Tree!Hybrid2, Hybrid2, Tree!MYSQL_TYPE_NULL, MYSQL_TYPE_NULL,
         Tree!MYSQL_TYPE_LONGLONG, MYSQL_TYPE_LONGLONG, Tree!MYSQL_TYPE_DOUBLE,
         MYSQL_TYPE_DOUBLE, Tree!MYSQL_TYPE_NEWDECIMAL, MYSQL_TYPE_NEWDECIMAL
<1>3. \A ts : Tree!Hybrid_field_type(ts) = Hybrid_field_type(ts)
  BY <1>2 DEF Tree!Hybrid_field_type, Hybrid_field_type
<1>4. \A k, ts : Tree!FuncType(k, ts) = FuncType(k, ts)
  BY <1>3 DEF Tree!FuncType, FuncType, Tree!MYSQL_TYPE_BOOL, MYSQL_TYPE_BOOL
<1> QED
  BY <1>1, <1>3, <1>4

(* The functions among the items are counted by place, and each has its    *)
(* own number.                                                             *)
Ranked ==
    /\ \A n \in DOMAIN items :
         items[n].kind \in FuncKinds => Funcs(n) \in 1 .. Funcs(Len(items))
    /\ \A i \in 1 .. Funcs(Len(items)) :
         \E n \in DOMAIN items : items[n].kind \in FuncKinds /\ Funcs(n) = i
    /\ \A m, n \in DOMAIN items :
         items[m].kind \in FuncKinds /\ items[n].kind \in FuncKinds /\ Funcs(m) = Funcs(n) => m = n

(* One item more. *)
LEMMA CountsKept ==
    ASSUME TreeInv, NEW it, NEW v, items' = Append(items, it), sem' = Append(sem, v)
    PROVE  /\ Funcs(Len(items)) \in Nat
           /\ \A n \in DOMAIN items : Funcs(n)' = Funcs(n)
           /\ \A n : n = Len(items) + 1 =>
                Funcs(n)' = Funcs(Len(items)) + IF it.kind \in FuncKinds THEN 1 ELSE 0
           /\ Len(items') = Len(items) + 1
<1>0. PICK N : N = Len(items)
  OBVIOUS
<1> DEFINE F(n) == {m \in 1 .. n : items[m].kind \in FuncKinds}
           G(n) == {m \in 1 .. n : items'[m].kind \in FuncKinds}
<1>1. /\ N \in Nat /\ DOMAIN items = 1 .. N /\ DOMAIN items' = 1 .. N + 1
      /\ \A n \in 1 .. N : items'[n] = items[n]
      /\ items'[N + 1] = it
  BY <1>0, NewItemKeeps
<1>2. Len(items') = N + 1
  BY <1>1, LenProperties DEF TreeInv, TreeTypeOK
<1>3. IsFiniteSet(F(N)) /\ Cardinality(F(N)) \in Nat
  <2>1. IsFiniteSet(1 .. N)
    BY <1>1, FS_Interval
  <2>2. F(N) \in SUBSET (1 .. N)
    OBVIOUS
  <2> HIDE DEF F
  <2>3. IsFiniteSet(F(N))
    BY <2>1, <2>2, FS_Subset
  <2> QED
    BY <2>3, FS_CardinalityType
<1>4. ASSUME NEW n \in 1 .. N
      PROVE  G(n) = F(n)
  <2>1. \A m \in 1 .. n : items'[m] = items[m]
    BY <1>1
  <2> QED
    BY <2>1
<1>5. \A m : m \in 1 .. N + 1 <=> m \in 1 .. N \/ m = N + 1
  BY <1>1
<1>6. N + 1 \notin 1 .. N
  BY <1>1
<1>7. Cardinality(G(N + 1)) = Cardinality(F(N)) + IF it.kind \in FuncKinds THEN 1 ELSE 0
  <2>1. \A m : m \in G(N + 1) <=> m \in F(N) \/ (m = N + 1 /\ it.kind \in FuncKinds)
    BY <1>1, <1>5, <1>6, Zenon
  <2>2. N + 1 \notin F(N)
    BY <1>6
  <2> HIDE DEF F, G
  <2>3. CASE it.kind \in FuncKinds
    <3>1. G(N + 1) = F(N) \cup {N + 1}
      BY <2>1, <2>3, Zenon
    <3>2. Cardinality(F(N) \cup {N + 1}) = Cardinality(F(N)) + 1
      BY <1>3, <2>2, FS_AddElement
    <3> QED
      BY <2>3, <3>1, <3>2
  <2>4. CASE it.kind \notin FuncKinds
    <3>1. G(N + 1) = F(N)
      BY <2>1, <2>4, Zenon
    <3> QED
      BY <1>3, <2>4, <3>1
  <2> QED
    BY <2>3, <2>4
<1>8. \A n \in DOMAIN items : Funcs(n)' = Funcs(n)
  BY <1>1, <1>4 DEF Funcs
<1>9. Funcs(N + 1)' = Cardinality(G(N + 1)) /\ Funcs(N) = Cardinality(F(N))
  BY DEF Funcs
<1> HIDE DEF F, G
<1> QED
  BY <1>0, <1>2, <1>3, <1>7, <1>8, <1>9

(* The numbers stay as they are when an item is added. *)
LEMMA RankedKept ==
    ASSUME TreeInv, Ranked, NEW it, NEW v, items' = Append(items, it), sem' = Append(sem, v)
    PROVE  Ranked'
<1> DEFINE f == it.kind \in FuncKinds
<1>1. PICK N, c : N = Len(items) /\ c = Funcs(N)
  OBVIOUS
<1>2. /\ N \in Nat /\ DOMAIN items = 1 .. N /\ DOMAIN items' = 1 .. N + 1
      /\ \A n \in 1 .. N : items'[n] = items[n]
      /\ items'[N + 1] = it
  BY <1>1, NewItemKeeps
<1>3. /\ c \in Nat /\ \A n \in 1 .. N : Funcs(n)' = Funcs(n)
      /\ Len(items') = N + 1
      /\ Funcs(N + 1)' = c + IF f THEN 1 ELSE 0
  BY <1>1, <1>2, CountsKept
<1>4. \A n \in 1 .. N + 1 : n = N + 1 \/ n \in 1 .. N
  BY <1>2
<1>5. /\ \A n \in 1 .. N : items[n].kind \in FuncKinds => Funcs(n) \in 1 .. c
      /\ \A i \in 1 .. c : \E n \in 1 .. N : items[n].kind \in FuncKinds /\ Funcs(n) = i
      /\ \A m, n \in 1 .. N :
           items[m].kind \in FuncKinds /\ items[n].kind \in FuncKinds /\ Funcs(m) = Funcs(n)
             => m = n
  BY <1>1, <1>2 DEF Ranked
<1>6. PICK d : d = Funcs(N + 1)'
  OBVIOUS
<1>7. d \in {c, c + 1} /\ (f <=> d = c + 1)
  BY <1>3, <1>6
<1>8. ASSUME NEW n \in 1 .. N + 1, items'[n].kind \in FuncKinds
      PROVE  Funcs(n)' \in 1 .. d
  <2>1. CASE n = N + 1
    <3>1. f
      BY <1>1, <1>2, <1>8, <2>1
    <3> QED
      BY <1>3, <1>6, <1>7, <2>1, <3>1
  <2>2. CASE n \in 1 .. N
    <3>1. Funcs(n) \in 1 .. c /\ Funcs(n)' = Funcs(n)
      BY <1>2, <1>3, <1>5, <1>8, <2>2
    <3> QED
      BY <1>3, <1>7, <3>1
  <2> QED
    BY <1>4, <2>1, <2>2
<1>9. ASSUME NEW i \in 1 .. d
      PROVE  \E n \in 1 .. N + 1 : items'[n].kind \in FuncKinds /\ Funcs(n)' = i
  <2>1. N + 1 \in 1 .. N + 1 /\ \A n \in 1 .. N : n \in 1 .. N + 1
    BY <1>2
  <2>2. CASE i \in 1 .. c
    <3>1. PICK n \in 1 .. N : items[n].kind \in FuncKinds /\ Funcs(n) = i
      BY <1>5, <2>2
    <3> QED
      BY <1>2, <1>3, <2>1, <3>1
  <2>3. CASE i \notin 1 .. c
    <3>1. f /\ i = c + 1
      BY <1>3, <1>7, <2>3
    <3> QED
      BY <1>1, <1>2, <1>3, <2>1, <3>1
  <2> QED
    BY <2>2, <2>3
<1>10. ASSUME NEW m \in 1 .. N + 1, NEW n \in 1 .. N + 1, Funcs(m)' = Funcs(n)',
              items'[m].kind \in FuncKinds, items'[n].kind \in FuncKinds
       PROVE  m = n
  <2>1. ASSUME NEW k \in 1 .. N, items'[k].kind \in FuncKinds, f
        PROVE  Funcs(k)' # Funcs(N + 1)'
    <3>1. Funcs(k) \in 1 .. c /\ Funcs(k)' = Funcs(k)
      BY <1>2, <1>3, <1>5, <2>1
    <3> QED
      BY <1>3, <2>1, <3>1
  <2>2. CASE m \in 1 .. N /\ n \in 1 .. N
    BY <1>2, <1>3, <1>5, <1>10, <2>2
  <2>3. m = N + 1 \/ n = N + 1 => f
    BY <1>1, <1>2, <1>10
  <2> QED
    BY <1>4, <1>10, <2>1, <2>2, <2>3
<1> QED
  BY <1>2, <1>3, <1>6, <1>8, <1>9, <1>10 DEF Ranked

(* A function is found by its number. *)
FuncsFound ==
    \A i : \A n \in DOMAIN items :
      items[n].kind \in FuncKinds /\ Funcs(n) = i => Func(i) = n

LEMMA FuncIs == Ranked => FuncsFound
<1> SUFFICES ASSUME Ranked, NEW i, NEW n \in DOMAIN items, items[n].kind \in FuncKinds,
                    Funcs(n) = i
             PROVE  Func(i) = n
  BY DEF FuncsFound
<1>1. \A m \in DOMAIN items : items[m].kind \in FuncKinds /\ Funcs(m) = Funcs(n) => m = n
  BY DEF Ranked
<1> QED
  BY <1>1 DEF Func

(* Two sequences one behind the other. *)
IsJoined(u, s, m, t, n) ==
    /\ u = [i \in 1 .. m + n |-> u[i]]
    /\ \A i \in 1 .. m : u[i] = s[i]
    /\ \A i \in 1 .. n : u[m + i] = t[i]

LEMMA TwoParts ==
    ASSUME NEW S, NEW s \in Seq(S), NEW t \in Seq(S)
    PROVE  IsJoined(s \o t, s, Len(s), t, Len(t))
<1>1. PICK u, m, n : u = s \o t /\ m = Len(s) /\ n = Len(t)
  OBVIOUS
<1>2. /\ u \in Seq(S) /\ Len(u) = m + n
      /\ \A i \in 1 .. m + n : u[i] = IF i <= m THEN s[i] ELSE t[i - m]
  BY <1>1, ConcatProperties
<1>3. m \in Nat /\ n \in Nat
  BY <1>1, LenProperties
<1>4. u = [i \in 1 .. m + n |-> u[i]]
  BY <1>2, LenProperties
<1>5. \A i \in 1 .. m : u[i] = s[i]
  BY <1>2, <1>3
<1>6. ASSUME NEW i \in 1 .. n
      PROVE  u[m + i] = t[i]
  <2>1. m + i \in 1 .. m + n /\ ~ (m + i <= m) /\ (m + i) - m = i
    BY <1>3
  <2> QED
    BY <1>2, <2>1
<1> QED
  BY <1>1, <1>4, <1>5, <1>6, Zenon DEF IsJoined

(* What the sequence of shared items holds at its places. *)
Placed ==
    /\ Len(LeafPool) \in Nat /\ DOMAIN LeafPool = 1 .. Len(LeafPool)
    /\ SharedItems = [i \in 1 .. Len(LeafPool) + Funcs(Len(items)) |-> SharedItems[i]]
    /\ SharedSem = [i \in 1 .. Len(LeafPool) + Funcs(Len(items)) |-> SharedSem[i]]
    /\ \A i \in DOMAIN LeafPool :
         /\ SharedItems[i] = Leaf(LeafPool[i])
         /\ SharedSem[i] = ItemSem(Leaf(LeafPool[i]), <<>>)
    /\ \A i \in 1 .. Funcs(Len(items)) :
         /\ SharedItems[Len(LeafPool) + i] = SharedItem(Func(i))
         /\ SharedSem[Len(LeafPool) + i] = sem[Func(i)]

LEMMA SharedPlaces == Funcs(Len(items)) \in Nat => Placed
<1> SUFFICES ASSUME Funcs(Len(items)) \in Nat PROVE Placed
  OBVIOUS
<1>1. PICK L, c : L = Len(LeafPool) /\ c = Funcs(Len(items))
  OBVIOUS
<1>2. L \in Nat /\ c \in Nat /\ DOMAIN LeafPool = 1 .. L
  BY <1>1, TreeAssumption, LenProperties
<1>3. PICK s, t, v, w :
        /\ s = [i \in 1 .. L |-> Leaf(LeafPool[i])]
        /\ t = [i \in 1 .. c |-> SharedItem(Func(i))]
        /\ v = [i \in 1 .. L |-> ItemSem(Leaf(LeafPool[i]), <<>>)]
        /\ w = [i \in 1 .. c |-> sem[Func(i)]]
  OBVIOUS
<1>4. PICK si, ss : si = SharedItems /\ ss = SharedSem
  OBVIOUS
<1>5. si = s \o t /\ ss = v \o w
  BY <1>1, <1>2, <1>3, <1>4 DEF SharedItems, SharedSem
<1>6. /\ si = [i \in 1 .. L + c |-> si[i]]
      /\ \A i \in 1 .. L : si[i] = s[i]
      /\ \A i \in 1 .. c : si[L + i] = t[i]
  <2>1. PICK S : S = {s[i] : i \in 1 .. L} \cup {t[i] : i \in 1 .. c}
    OBVIOUS
  <2>2. s \in [1 .. L -> S] /\ t \in [1 .. c -> S]
    BY <1>3, <2>1
  <2>3. /\ s \in Seq(S) /\ Len(s) = L
        /\ t \in Seq(S) /\ Len(t) = c
    BY <1>2, <2>2, FunctionIsSeq
  <2>4. IsJoined(s \o t, s, Len(s), t, Len(t))
    BY <2>3, TwoParts
  <2>5. IsJoined(si, s, L, t, c)
    BY <1>5, <2>3, <2>4
  <2> QED
    BY <2>5 DEF IsJoined
<1>7. /\ ss = [i \in 1 .. L + c |-> ss[i]]
      /\ \A i \in 1 .. L : ss[i] = v[i]
      /\ \A i \in 1 .. c : ss[L + i] = w[i]
  <2>1. PICK S : S = {v[i] : i \in 1 .. L} \cup {w[i] : i \in 1 .. c}
    OBVIOUS
  <2>2. v \in [1 .. L -> S] /\ w \in [1 .. c -> S]
    BY <1>3, <2>1
  <2>3. /\ v \in Seq(S) /\ Len(v) = L
        /\ w \in Seq(S) /\ Len(w) = c
    BY <1>2, <2>2, FunctionIsSeq
  <2>4. IsJoined(v \o w, v, Len(v), w, Len(w))
    BY <2>3, TwoParts
  <2>5. IsJoined(ss, v, L, w, c)
    BY <1>5, <2>3, <2>4
  <2> QED
    BY <2>5 DEF IsJoined
<1>8. /\ \A i \in 1 .. L : s[i] = Leaf(LeafPool[i]) /\ v[i] = ItemSem(Leaf(LeafPool[i]), <<>>)
      /\ \A i \in 1 .. c : t[i] = SharedItem(Func(i)) /\ w[i] = sem[Func(i)]
  BY <1>3
<1>9. /\ \A i \in 1 .. L : si[i] = Leaf(LeafPool[i]) /\ ss[i] = ItemSem(Leaf(LeafPool[i]), <<>>)
      /\ \A i \in 1 .. c : si[L + i] = SharedItem(Func(i)) /\ ss[L + i] = sem[Func(i)]
  BY <1>6, <1>7, <1>8, Zenon
<1> QED
  BY <1>1, <1>2, <1>4, <1>6, <1>7, <1>9, Zenon DEF Placed

(* Every item has its place among the shared ones, with its type and value. *)
LEMMA SharedFacts ==
    ASSUME TreeInv, Ranked, Funcs(Len(items)) \in Nat, NEW n \in DOMAIN items
    PROVE  /\ Shared(n) \in 1 .. Len(LeafPool) + Funcs(Len(items))
           /\ SharedItems[Shared(n)].type = items[n].type
           /\ SharedSem[Shared(n)] = sem[n]
<1>1. PICK L, c : L = Len(LeafPool) /\ c = Funcs(Len(items))
  OBVIOUS
<1>2. L \in Nat /\ c \in Nat /\ DOMAIN LeafPool = 1 .. L
  BY <1>1, TreeAssumption, LenProperties
<1>3. Placed
  BY SharedPlaces
<1>4. Merged(n) /\ SemOK(n) /\ items[n] \in ItemRecord
  <2>1. ItemOK(items[n], n)
    BY DEF TreeInv, TreeTypeOK
  <2> QED
    BY <2>1 DEF TreeInv, ItemOK
<1>5. CASE \E i \in DOMAIN LeafPool : items[n] = Leaf(LeafPool[i])
  <2>1. PICK i \in DOMAIN LeafPool : items[n] = Leaf(LeafPool[i])
    BY <1>5
  <2>2. LeafPool[i].kind \in LeafKinds /\ items[n].kind = LeafPool[i].kind
    <3>1. LeafPool[i] \in [kind : LeafKinds, val : Int]
      BY <1>2, <2>1, TreeAssumption, LenProperties
    <3> QED
      BY <2>1, <3>1 DEF Leaf
  <2>3. \A j \in DOMAIN LeafPool : LeafPool[j].kind = items[n].kind => j = i
    BY <2>2, GeneratorAssumption
  <2>4. Shared(n) = i
    BY <2>2, <2>3 DEF Shared, LiteralPlace
  <2>5. SharedItems[i] = items[n] /\ SharedSem[i] = ItemSem(Leaf(LeafPool[i]), <<>>)
    BY <1>3, <2>1 DEF Placed
  <2>6. \A sm : ItemSem(Leaf(LeafPool[i]), sm)
                  = [T \in ValueTypes |-> LeafSem(Leaf(LeafPool[i]), T)]
    BY LeafOK DEF ItemSem
  <2>7. sem[n] = ItemSem(items[n], sem)
    BY <1>4 DEF SemOK
  <2>8. sem[n] = SharedSem[i]
    BY <2>1, <2>5, <2>6, <2>7
  <2>9. i \in 1 .. L + c
    BY <1>2
  <2> QED
    BY <1>1, <2>4, <2>5, <2>8, <2>9
<1>6. CASE items[n].kind \in FuncKinds
  <2>1. items[n].kind \notin LeafKinds
    BY <1>6 DEF FuncKinds, LeafKinds
  <2>2. PICK i : i = Funcs(n)
    OBVIOUS
  <2>3. i \in 1 .. c /\ Func(i) = n
    BY <1>1, <1>6, <2>2, FuncIs DEF Ranked, FuncsFound
  <2>4. Shared(n) = L + i
    BY <1>1, <2>1, <2>2 DEF Shared
  <2>5. SharedItems[L + i] = SharedItem(n) /\ SharedSem[L + i] = sem[n]
    BY <1>1, <1>3, <2>3 DEF Placed
  <2>6. SharedItem(n).type = items[n].type
    BY <1>4 DEF SharedItem, ItemRecord
  <2>7. L + i \in 1 .. L + c
    BY <1>2, <2>3
  <2> QED
    BY <1>1, <2>4, <2>5, <2>6, <2>7
<1> QED
  BY <1>4, <1>5, <1>6 DEF Merged

(* The shared items stay what they are when an item is added. *)
LEMMA SharedKept ==
    ASSUME TreeInv, Ranked, NEW it, NEW v, items' = Append(items, it), sem' = Append(sem, v)
    PROVE  /\ \A n \in DOMAIN items : Shared(n)' = Shared(n)
           /\ \A i \in 1 .. Len(LeafPool) + Funcs(Len(items)) :
                SharedItems'[i] = SharedItems[i] /\ SharedSem'[i] = SharedSem[i]
<1>1. PICK L, c, d : L = Len(LeafPool) /\ c = Funcs(Len(items)) /\ d = Funcs(Len(items))'
  OBVIOUS
<1>2. PICK N : N = Len(items)
  OBVIOUS
<1>3. /\ N \in Nat /\ DOMAIN items = 1 .. N /\ DOMAIN items' = 1 .. N + 1
      /\ \A n \in 1 .. N : items'[n] = items[n] /\ sem'[n] = sem[n]
  BY <1>2, NewItemKeeps
<1>4. /\ c \in Nat /\ d \in Nat /\ c <= d
      /\ \A n \in 1 .. N : Funcs(n)' = Funcs(n)
  <2>1. /\ Funcs(N) \in Nat /\ \A n \in 1 .. N : Funcs(n)' = Funcs(n)
        /\ Funcs(N + 1)' = Funcs(N) + IF it.kind \in FuncKinds THEN 1 ELSE 0
        /\ Len(items') = N + 1
    BY <1>2, <1>3, CountsKept
  <2>2. Funcs(Len(items))' = Funcs(N + 1)'
    BY <2>1 DEF Funcs
  <2>3. c = Funcs(N) /\ d = Funcs(N + 1)'
    BY <1>1, <1>2, <2>2, Zenon
  <2>4. d = c + IF it.kind \in FuncKinds THEN 1 ELSE 0
    BY <2>1, <2>3
  <2>5. c \in Nat
    BY <2>1, <2>3
  <2>6. d \in Nat /\ c <= d
    BY <2>4, <2>5
  <2> QED
    BY <2>1, <2>5, <2>6
<1>5. L \in Nat /\ DOMAIN LeafPool = 1 .. L
  BY <1>1, TreeAssumption, LenProperties
<1>6. ASSUME NEW n \in 1 .. N
      PROVE  Shared(n)' = Shared(n)
  <2>1. items'[n] = items[n] /\ Funcs(n)' = Funcs(n)
    BY <1>3, <1>4
  <2> QED
    BY <2>1, Zenon DEF Shared
<1>7. ASSUME NEW n \in 1 .. N
      PROVE  SharedItem(n)' = SharedItem(n)
  <2>1. \A j \in DOMAIN items[n].args : items[n].args[j] \in 1 .. N
    <3>1. n \in DOMAIN items /\ \A m \in 1 .. n - 1 : m \in 1 .. N
      BY <1>3
    <3> QED
      BY <3>1, Arguments
  <2> QED
    BY <1>3, <1>6, <2>1 DEF SharedItem
<1>8. ASSUME NEW i \in 1 .. c
      PROVE  Func(i) \in 1 .. N /\ Func(i)' = Func(i)
  <2>1. PICK n \in 1 .. N : items[n].kind \in FuncKinds /\ Funcs(n) = i
    BY <1>1, <1>3, <1>8 DEF Ranked
  <2>2. Func(i) = n
    BY <1>3, <2>1, FuncIs DEF FuncsFound
  <2>3. Ranked'
    BY RankedKept
  <2>4. (Ranked => FuncsFound)'
    BY FuncIs, PTL
  <2>5. n \in DOMAIN items' /\ items'[n].kind \in FuncKinds /\ Funcs(n)' = i
    BY <1>3, <1>4, <2>1
  <2>6. Func(i)' = n
    BY <2>3, <2>4, <2>5 DEF FuncsFound
  <2> QED
    BY <2>2, <2>6
<1>9. Placed /\ Placed'
  <2>1. Placed
    BY <1>1, <1>4, SharedPlaces
  <2>2. (Funcs(Len(items)) \in Nat => Placed)'
    BY SharedPlaces, PTL
  <2> QED
    BY <1>1, <1>4, <2>1, <2>2
<1>10. \A i \in 1 .. L : SharedItems'[i] = SharedItems[i] /\ SharedSem'[i] = SharedSem[i]
  BY <1>5, <1>9 DEF Placed
<1>11. ASSUME NEW i \in 1 .. c
       PROVE  SharedItems'[L + i] = SharedItems[L + i] /\ SharedSem'[L + i] = SharedSem[L + i]
  <2>1. i \in 1 .. d
    BY <1>4
  <2>2. /\ SharedItems[L + i] = SharedItem(Func(i)) /\ SharedSem[L + i] = sem[Func(i)]
        /\ SharedItems'[L + i] = SharedItem(Func(i))' /\ SharedSem'[L + i] = (sem[Func(i)])'
    BY <1>1, <1>9, <2>1 DEF Placed
  <2>3. PICK n : n = Func(i)
    OBVIOUS
  <2>4. n \in 1 .. N /\ Func(i)' = n
    BY <1>8, <2>3
  <2>5. SharedItem(Func(i))' = SharedItem(n)'
    BY <2>4 DEF SharedItem
  <2>6. SharedItem(n)' = SharedItem(n)
    BY <1>7, <2>4
  <2>7. (sem[Func(i)])' = sem[n]
    BY <1>3, <2>4
  <2> QED
    BY <2>2, <2>3, <2>5, <2>6, <2>7
<1>12. \A i \in 1 .. L + c : i \in 1 .. L \/ \E j \in 1 .. c : i = L + j
  <2>1. ASSUME NEW i \in 1 .. L + c, i \notin 1 .. L
        PROVE  i - L \in 1 .. c /\ i = L + (i - L)
    BY <1>4, <1>5, <2>1
  <2> QED
    BY <2>1
<1>13. \A i \in 1 .. L + c : SharedItems'[i] = SharedItems[i] /\ SharedSem'[i] = SharedSem[i]
  BY <1>10, <1>11, <1>12
<1> QED
  BY <1>1, <1>3, <1>6, <1>13

(* A new literal is shared already. *)
LEMMA LiteralIsShared ==
    ASSUME TreeInv, Ranked, NEW l \in DOMAIN LeafPool, NEW v,
           items' = Append(items, Leaf(LeafPool[l])), sem' = Append(sem, v)
    PROVE  SharedItems' = SharedItems /\ SharedSem' = SharedSem
<1>1. PICK L, N, c : L = Len(LeafPool) /\ N = Len(items) /\ c = Funcs(N)
  OBVIOUS
<1>2. Leaf(LeafPool[l]).kind \notin FuncKinds
  <2>1. LeafPool[l] \in [kind : LeafKinds, val : Int]
    BY TreeAssumption, LenProperties
  <2> QED
    BY <2>1 DEF Leaf, LeafKinds, FuncKinds
<1>3. c \in Nat /\ Len(items') = N + 1 /\ Funcs(N + 1)' = c
  BY <1>1, <1>2, CountsKept
<1>4. Funcs(Len(items))' = c
  <2>1. Funcs(Len(items))' = Funcs(N + 1)'
    BY <1>3 DEF Funcs
  <2> QED
    BY <1>3, <2>1
<1>5. Placed /\ Placed'
  <2>1. Placed
    BY <1>1, <1>3, SharedPlaces
  <2>2. (Funcs(Len(items)) \in Nat => Placed)'
    BY SharedPlaces, PTL
  <2> QED
    BY <1>3, <1>4, <2>1, <2>2
<1>6. /\ SharedItems = [i \in 1 .. L + c |-> SharedItems[i]]
      /\ SharedSem = [i \in 1 .. L + c |-> SharedSem[i]]
      /\ SharedItems' = [i \in 1 .. L + c |-> SharedItems'[i]]
      /\ SharedSem' = [i \in 1 .. L + c |-> SharedSem'[i]]
  BY <1>1, <1>4, <1>5 DEF Placed
<1>7. \A i \in 1 .. L + c : SharedItems'[i] = SharedItems[i] /\ SharedSem'[i] = SharedSem[i]
  BY <1>1, SharedKept
<1>8. PICK a, b, p, q : a = SharedItems /\ b = SharedItems' /\ p = SharedSem /\ q = SharedSem'
  OBVIOUS
<1>9. a = b /\ p = q
  BY <1>6, <1>7, <1>8
<1> QED
  BY <1>8, <1>9

(* The longer sequence is the shorter one with the last element appended. *)
Numbered(s, m) == s = [i \in 1 .. m |-> s[i]]

LEMMA OneLonger ==
    ASSUME NEW m \in Nat, NEW s, NEW t, NEW x, Numbered(s, m), Numbered(t, m + 1),
           \A i \in 1 .. m : t[i] = s[i], t[m + 1] = x
    PROVE  t = Append(s, x) /\ Len(s) = m /\ Len(t) = m + 1
<1>1. PICK S : S = {t[i] : i \in 1 .. m + 1}
  OBVIOUS
<1>2. m + 1 \in 1 .. m + 1 /\ \A i \in 1 .. m : i \in 1 .. m + 1
  OBVIOUS
<1>3. s \in [1 .. m -> S] /\ t \in [1 .. m + 1 -> S] /\ x \in S
  BY <1>1, <1>2 DEF Numbered
<1>4. s \in Seq(S) /\ Len(s) = m /\ t \in Seq(S) /\ Len(t) = m + 1
  BY <1>3, FunctionIsSeq
<1>5. /\ Append(s, x) \in Seq(S) /\ Len(Append(s, x)) = m + 1
      /\ \A i \in 1 .. m : Append(s, x)[i] = s[i]
      /\ Append(s, x)[m + 1] = x
  BY <1>3, <1>4, AppendProperties
<1>6. \A i \in 1 .. m + 1 : i = m + 1 \/ i \in 1 .. m
  OBVIOUS
<1>7. \A i \in 1 .. m + 1 : t[i] = Append(s, x)[i]
  BY <1>5, <1>6
<1>8. t = Append(s, x)
  BY <1>4, <1>5, <1>7, SeqEqual
<1> QED
  BY <1>4, <1>8

(* A new function is a function over the shared items that stand for its   *)
(* arguments, of the same types and the same value.                        *)
LEMMA FunctionIsShared ==
    ASSUME TreeInv, Ranked, NEW k \in FuncKinds, NEW as \in ArgLists, Len(as) \in Arities[k],
           Added(FuncItem(k, as))
    PROVE  \E bs \in Tree!ArgLists :
             /\ Len(bs) = Len(as)
             /\ SharedItems' = Append(SharedItems, Tree!FuncItem(k, bs))
             /\ SharedSem' = Append(SharedSem, Tree!ItemSem(Tree!FuncItem(k, bs), SharedSem))
             /\ SharedItems'[Len(SharedItems')] = Tree!FuncItem(k, bs)
             /\ Len(SharedItems) \in Nat /\ Len(SharedItems') = Len(SharedItems) + 1
<1>1. PICK L, N, c, it : L = Len(LeafPool) /\ N = Len(items) /\ c = Funcs(N) /\ it = FuncItem(k, as)
  OBVIOUS
<1>2. items' = Append(items, it) /\ sem' = Append(sem, ItemSem(it, sem))
  BY <1>1 DEF Added
<1>3. /\ N \in Nat /\ DOMAIN items = 1 .. N /\ DOMAIN items' = 1 .. N + 1
      /\ items'[N + 1] = it /\ sem'[N + 1] = ItemSem(it, sem)
  BY <1>1, <1>2, NewItemKeeps
<1>4. it.kind = k /\ it.args = as
  BY <1>1 DEF FuncItem
<1>5. c \in Nat /\ Len(items') = N + 1 /\ Funcs(N + 1)' = c + 1
  BY <1>1, <1>2, <1>4, CountsKept
<1>6. Funcs(Len(items))' = c + 1
  <2>1. Funcs(Len(items))' = Funcs(N + 1)'
    BY <1>5 DEF Funcs
  <2> QED
    BY <1>5, <2>1
<1>7. Placed /\ Placed'
  <2>1. Placed
    BY <1>1, <1>5, SharedPlaces
  <2>2. (Funcs(Len(items)) \in Nat => Placed)'
    BY SharedPlaces, PTL
  <2> QED
    BY <1>5, <1>6, <2>1, <2>2
<1>8. PICK a, b, p, q : a = SharedItems /\ b = SharedItems' /\ p = SharedSem /\ q = SharedSem'
  OBVIOUS
<1>9. L \in Nat /\ L + (c + 1) = (L + c) + 1 /\ L + c \in Nat
  BY <1>1, <1>5, <1>7 DEF Placed
<1>10. /\ a = [i \in 1 .. L + c |-> a[i]] /\ p = [i \in 1 .. L + c |-> p[i]]
       /\ b = [i \in 1 .. (L + c) + 1 |-> b[i]] /\ q = [i \in 1 .. (L + c) + 1 |-> q[i]]
  BY <1>1, <1>6, <1>7, <1>8, <1>9 DEF Placed
<1>11. \A i \in 1 .. L + c : b[i] = a[i] /\ q[i] = p[i]
  BY <1>1, <1>2, <1>8, SharedKept
<1>12. PICK bs : bs = [j \in DOMAIN as |-> Shared(as[j])]
  OBVIOUS
<1>13. /\ DOMAIN as = 1 .. Len(as) /\ Len(as) \in Nat /\ Len(as) \in 1 .. MaxArity
       /\ \A j \in DOMAIN as : as[j] \in DOMAIN items
  <2>1. PICK m \in 1 .. MaxArity : as \in [1 .. m -> DOMAIN items]
    BY DEF ArgLists
  <2>2. m \in Nat
    BY TreeAssumption
  <2>3. Len(as) = m /\ as \in Seq(DOMAIN items)
    BY <2>1, <2>2, FunctionIsSeq
  <2> QED
    BY <2>1, <2>2, <2>3
<1>14. \A j \in DOMAIN as : /\ bs[j] \in 1 .. L + c
                            /\ a[bs[j]].type = items[as[j]].type
                            /\ p[bs[j]] = sem[as[j]]
  BY <1>1, <1>5, <1>8, <1>12, <1>13, SharedFacts
<1>15. bs \in [1 .. Len(as) -> DOMAIN a] /\ Len(bs) = Len(as)
  <2>1. DOMAIN a = 1 .. L + c
    BY <1>10
  <2>2. bs \in [1 .. Len(as) -> DOMAIN a]
    BY <1>12, <1>13, <1>14, <2>1
  <2> QED
    BY <1>13, <2>2, FunctionIsSeq
<1>16. bs \in Tree!ArgLists
  BY <1>8, <1>13, <1>15 DEF Tree!ArgLists
<1>17. PICK jt : jt = [it EXCEPT !.args = bs]
  OBVIOUS
<1>18. Tree!FuncItem(k, bs) = jt
  <2>1. PICK ts : ts = [j \in DOMAIN as |-> items[as[j]].type]
    OBVIOUS
  <2>2. [j \in DOMAIN bs |-> a[bs[j]].type] = ts
    BY <1>12, <1>14, <2>1
  <2>3. it = [kind |-> k, val |-> 0, args |-> as, type |-> FuncType(k, ts),
              cmp |-> Hybrid_field_type(ts)]
    BY <1>1, <2>1 DEF FuncItem
  <2>4. Tree!FuncItem(k, bs) = [kind |-> k, val |-> 0, args |-> bs, type |-> FuncType(k, ts),
                                cmp |-> Hybrid_field_type(ts)]
    BY <1>8, <2>2, SameTypes DEF Tree!FuncItem
  <2> QED
    BY <1>17, <2>3, <2>4
<1>19. b[L + (c + 1)] = jt /\ q[L + (c + 1)] = ItemSem(it, sem)
  <2>1. c + 1 \in 1 .. c + 1
    BY <1>5
  <2>2. /\ b[L + (c + 1)] = SharedItem(Func(c + 1))'
        /\ q[L + (c + 1)] = (sem[Func(c + 1)])'
    BY <1>1, <1>6, <1>7, <1>8, <2>1 DEF Placed
  <2>3. Func(c + 1)' = N + 1
    <3>1. Ranked'
      BY <1>2, RankedKept
    <3>2. (Ranked => FuncsFound)'
      BY FuncIs, PTL
    <3>3. N + 1 \in DOMAIN items' /\ items'[N + 1].kind \in FuncKinds
      BY <1>3, <1>4
    <3> QED
      BY <1>5, <3>1, <3>2, <3>3 DEF FuncsFound
  <2>4. SharedItem(Func(c + 1))' = SharedItem(N + 1)'
    BY <2>3 DEF SharedItem
  <2>5. \A j \in DOMAIN as : Shared(as[j])' = Shared(as[j])
    BY <1>2, <1>13, SharedKept
  <2>6. SharedItem(N + 1)' = jt
    BY <1>3, <1>4, <1>12, <1>17, <2>5 DEF SharedItem
  <2>7. (sem[Func(c + 1)])' = ItemSem(it, sem)
    BY <1>3, <2>3
  <2> QED
    BY <2>2, <2>4, <2>6, <2>7
<1>20. Tree!ItemSem(jt, p) = ItemSem(it, sem)
  <2>1. /\ jt.kind = it.kind /\ jt.val = it.val /\ jt.cmp = it.cmp /\ jt.args = bs
    BY <1>1, <1>17 DEF FuncItem
  <2>2. \A T, j : ArgType(jt, T, j) = ArgType(it, T, j)
    BY <1>4, <1>15, <2>1 DEF ArgType
  <2>3. ASSUME NEW T
        PROVE  [j \in DOMAIN jt.args |-> p[jt.args[j]][ArgType(jt, T, j)]]
                 = [j \in DOMAIN it.args |-> sem[it.args[j]][ArgType(it, T, j)]]
    <3>1. \A j \in DOMAIN as : p[bs[j]][ArgType(jt, T, j)] = sem[as[j]][ArgType(it, T, j)]
      BY <1>14, <2>2
    <3>2. DOMAIN bs = DOMAIN as
      BY <1>12
    <3>3. [j \in DOMAIN bs |-> p[bs[j]][ArgType(jt, T, j)]]
            = [j \in DOMAIN as |-> sem[as[j]][ArgType(it, T, j)]]
      BY <3>1, <3>2
    <3> QED
      BY <1>4, <2>1, <3>3, Zenon
  <2>4. \A T : SemOf(jt, T, p) = SemOf(it, T, sem)
    BY <2>1, <2>3 DEF SemOf, LeafSem
  <2>5. ItemSem(jt, p) = ItemSem(it, sem)
    BY <2>4 DEF ItemSem
  <2> QED
    BY <2>5, SameSem
<1>21. /\ b = Append(a, jt) /\ Len(a) = L + c /\ Len(b) = (L + c) + 1
       /\ q = Append(p, ItemSem(it, sem))
  <2>1. PICK m : m = L + c
    OBVIOUS
  <2>2. /\ m \in Nat
        /\ Numbered(a, m) /\ Numbered(p, m) /\ Numbered(b, m + 1) /\ Numbered(q, m + 1)
        /\ \A i \in 1 .. m : b[i] = a[i] /\ q[i] = p[i]
    BY <1>9, <1>10, <1>11, <2>1 DEF Numbered
  <2>3. b[m + 1] = jt /\ q[m + 1] = ItemSem(it, sem)
    BY <1>9, <1>19, <2>1
  <2>4. b = Append(a, jt) /\ Len(a) = m /\ Len(b) = m + 1
    <3>1. PICK v : v = jt
      OBVIOUS
    <3>2. b[m + 1] = v
      BY <2>3, <3>1
    <3>3. m \in Nat /\ Numbered(a, m) /\ Numbered(b, m + 1) /\ \A i \in 1 .. m : b[i] = a[i]
      BY <2>2
    <3>4. b = Append(a, v)
      BY <3>2, <3>3, OneLonger
    <3>5. Len(a) = m /\ Len(b) = m + 1
      BY <3>2, <3>3, OneLonger
    <3> QED
      BY <3>1, <3>4, <3>5
  <2>5. q = Append(p, ItemSem(it, sem))
    <3>1. PICK v : v = ItemSem(it, sem)
      OBVIOUS
    <3>2. q[m + 1] = v
      BY <2>3, <3>1
    <3>3. m \in Nat /\ Numbered(p, m) /\ Numbered(q, m + 1) /\ \A i \in 1 .. m : q[i] = p[i]
      BY <2>2
    <3>4. q = Append(p, v)
      BY <3>2, <3>3, OneLonger
    <3> QED
      BY <3>1, <3>4
  <2> QED
    BY <2>1, <2>4, <2>5
<1>22. b[Len(b)] = jt
  BY <1>9, <1>19, <1>21
<1>23. Len(a) \in Nat /\ Len(b) = Len(a) + 1
  BY <1>9, <1>21
<1> QED
  BY <1>8, <1>15, <1>16, <1>18, <1>20, <1>21, <1>22, <1>23

(* No step makes more shared items than MaxItems allows ItemTree. *)
WithinItems == Len(SharedItems) <= MaxItems

SharedUnchanged == UNCHANGED <<SharedItems, SharedSem>>

LEMMA RankedInit == Init => Ranked
<1> SUFFICES ASSUME Init PROVE Ranked
  OBVIOUS
<1>1. items = <<>> /\ Len(items) = 0 /\ DOMAIN items = {}
  BY DEF Init
<1>2. Funcs(0) = 0
  <2>1. {m \in 1 .. 0 : items[m].kind \in FuncKinds} = {}
    OBVIOUS
  <2> QED
    BY <2>1, FS_EmptySet DEF Funcs
<1> QED
  BY <1>1, <1>2 DEF Ranked

LEMMA SharedInit == Init => Tree!TreeInit
<1> SUFFICES ASSUME Init PROVE Tree!TreeInit
  OBVIOUS
<1>1. items = <<>> /\ Len(items) = 0
  BY DEF Init
<1>2. Funcs(Len(items)) = 0
  <2>1. {m \in 1 .. 0 : items[m].kind \in FuncKinds} = {}
    OBVIOUS
  <2> QED
    BY <1>1, <2>1, FS_EmptySet DEF Funcs
<1>3. Placed
  BY <1>2, SharedPlaces
<1>4. PICK L, a, p : L = Len(LeafPool) /\ a = SharedItems /\ p = SharedSem
  OBVIOUS
<1>5. /\ L + 0 = L /\ DOMAIN LeafPool = 1 .. L
      /\ a = [i \in 1 .. L |-> a[i]] /\ p = [i \in 1 .. L |-> p[i]]
      /\ \A i \in 1 .. L : a[i] = Leaf(LeafPool[i]) /\ p[i] = ItemSem(Leaf(LeafPool[i]), <<>>)
  BY <1>2, <1>3, <1>4 DEF Placed
<1>6. /\ a = [i \in DOMAIN LeafPool |-> Leaf(LeafPool[i])]
      /\ p = [i \in DOMAIN LeafPool |-> ItemSem(Leaf(LeafPool[i]), <<>>)]
  BY <1>5
<1>7. /\ \A l : Tree!Leaf(l) = Leaf(l)
      /\ \A l : Tree!ItemSem(l, <<>>) = ItemSem(l, <<>>)
  BY SameTypes, SameSem
<1>8. /\ [i \in DOMAIN LeafPool |-> Tree!Leaf(LeafPool[i])]
           = [i \in DOMAIN LeafPool |-> Leaf(LeafPool[i])]
      /\ [i \in DOMAIN LeafPool |-> Tree!ItemSem(Tree!Leaf(LeafPool[i]), <<>>)]
           = [i \in DOMAIN LeafPool |-> ItemSem(Leaf(LeafPool[i]), <<>>)]
  BY <1>7
<1> QED
  BY <1>4, <1>6, <1>8 DEF Tree!TreeInit

(* A step creates an item, or none. *)
LEMMA SharedSteps ==
    RandomInv /\ Ranked /\ WithinItems' /\ [Next]_randomVars
      => Ranked' /\ (Construction \/ SharedUnchanged)
<1> SUFFICES ASSUME RandomInv, Ranked, WithinItems', [Next]_randomVars
             PROVE  Ranked' /\ (Construction \/ SharedUnchanged)
  OBVIOUS
<1>1. TreeInv
  BY DEF RandomInv
<1>2. ASSUME UNCHANGED <<items, sem>>
      PROVE  Ranked' /\ (Construction \/ SharedUnchanged)
  <2>1. items' = items /\ sem' = sem
    BY <1>2
  <2>2. Ranked'
    <3>1. /\ \A n : Funcs(n)' = Funcs(n)
          /\ Funcs(Len(items))' = Funcs(Len(items))
      BY <2>1 DEF Funcs
    <3> QED
      BY <2>1, <3>1 DEF Ranked
  <2>3. SharedItems' = SharedItems /\ SharedSem' = SharedSem
    BY <2>1 DEF SharedItems, SharedSem, SharedItem, Shared, Func, Funcs
  <2> QED
    BY <2>2, <2>3 DEF SharedUnchanged
<1>3. ASSUME NEW l \in DOMAIN LeafPool, Own(Leaf(LeafPool[l]))
      PROVE  Ranked' /\ (Construction \/ SharedUnchanged)
  <2>1. PICK v : v = ItemSem(Leaf(LeafPool[l]), sem)
    OBVIOUS
  <2>2. items' = Append(items, Leaf(LeafPool[l])) /\ sem' = Append(sem, v)
    BY <1>3, <2>1 DEF Own
  <2>3. SharedItems' = SharedItems /\ SharedSem' = SharedSem
    BY <1>1, <2>2, LiteralIsShared
  <2>4. Ranked'
    BY <1>1, <2>2, RankedKept
  <2> QED
    BY <2>3, <2>4 DEF SharedUnchanged
<1>4. CASE Bottom
  <2>1. PICK i \in DOMAIN LeafPool : LeafPool[i].kind = "int"
    BY GeneratorAssumption
  <2>2. PICK l \in DOMAIN LeafPool : Literal("int") = Leaf(LeafPool[l])
    BY <2>1 DEF Literal, LiteralPlace
  <2> QED
    BY <1>3, <1>4, <2>2 DEF Bottom
<1>5. CASE DrawLiteral
  BY <1>3, <1>5 DEF DrawLiteral
<1>6. CASE DrawFunction
  BY <1>2, <1>6 DEF DrawFunction
<1>7. CASE GenerateArgument
  BY <1>2, <1>7 DEF GenerateArgument
<1>8. CASE NewFunction
  <2>1. PICK k \in Kinds, as \in ArgLists :
          k \in FuncKinds /\ Len(as) \in Arities[k] /\ Added(FuncItem(k, as))
    BY <1>8, NewFunctionAdds
  <2>2. PICK bs \in Tree!ArgLists :
          /\ Len(bs) = Len(as)
          /\ SharedItems' = Append(SharedItems, Tree!FuncItem(k, bs))
          /\ SharedSem' = Append(SharedSem, Tree!ItemSem(Tree!FuncItem(k, bs), SharedSem))
          /\ SharedItems'[Len(SharedItems')] = Tree!FuncItem(k, bs)
          /\ Len(SharedItems) \in Nat /\ Len(SharedItems') = Len(SharedItems) + 1
    BY <1>1, <2>1, FunctionIsShared
  <2>3. Tree!FuncItem(k, bs).kind = k /\ Tree!FuncItem(k, bs).args = bs
    BY DEF Tree!FuncItem
  <2>4. Len(SharedItems) < MaxItems
    <3>1. PICK n, m : n = Len(SharedItems) /\ m = Len(SharedItems')
      OBVIOUS
    <3>2. n \in Nat /\ m = n + 1 /\ m <= MaxItems
      BY <2>2, <3>1 DEF WithinItems
    <3> QED
      BY <3>1, <3>2, TreeAssumption
  <2>5. Len(bs) \in Tree!Arities[k]
    BY <2>1, <2>2 DEF Tree!Arities, Arities
  <2>6. Tree!NewItem(k, bs)
    BY <2>2, <2>4, <2>5 DEF Tree!NewItem
  <2>7. Construction
    BY <2>2, <2>3, <2>6 DEF Construction
  <2>8. PICK v : v = ItemSem(FuncItem(k, as), sem)
    OBVIOUS
  <2>9. PICK it : it = FuncItem(k, as)
    OBVIOUS
  <2>10. items' = Append(items, it) /\ sem' = Append(sem, v)
    BY <2>1, <2>8, <2>9 DEF Added
  <2>11. Ranked'
    BY <1>1, <2>10, RankedKept
  <2> QED
    BY <2>7, <2>11
<1>9. CASE UNCHANGED randomVars
  BY <1>2, <1>9 DEF randomVars
<1> QED
  BY <1>4, <1>5, <1>6, <1>7, <1>8, <1>9 DEF Next

(* Every tree that is generated is one the modules of the value methods    *)
(* consider, for every depth and all draws, as long as it has no more      *)
(* items, the shared literals counted, than those modules let a tree have. *)
THEOREM TreesTheorem == Spec /\ []WithinItems => BuildsTrees
<1>1. Init => RandomInv /\ Ranked /\ Tree!TreeInit
  BY RandomInit, RankedInit, SharedInit
<1>2. RandomInv /\ [Next]_randomVars => RandomInv'
  BY RandomStep
<1>3. RandomInv /\ Ranked /\ WithinItems' /\ [Next]_randomVars
        => Ranked' /\ [Construction]_<<SharedItems, SharedSem>>
  BY SharedSteps DEF SharedUnchanged
<1> QED
  BY <1>1, <1>2, <1>3, PTL DEF Spec, BuildsTrees
=============================================================================
