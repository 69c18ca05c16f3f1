------------------------------ MODULE RandomTree ------------------------------
(***************************************************************************)
(* generate_tree(): a random expression, of a literal or a function for    *)
(* each call of generate_node(), no deeper than the depth it is given.     *)
(* The recursion is an explicit `stack' of calls.  `items' are the objects *)
(* in the order in which they are created, `storage' the vector of         *)
(* unique_ptr that owns them; an item points to its arguments without      *)
(* owning them.  C++ leaves open in which order the arguments of a         *)
(* constructor are generated.                                              *)
(***************************************************************************)
EXTENDS ItemTree, FiniteSetsExt

CONSTANT MaxDepth       \* max_depth of generate_tree()

(* assert(max_depth > 0); node_factory() has one literal of a class. *)
ASSUME GeneratorAssumption ==
    /\ MaxDepth \in Nat \ {0}
    /\ \A i, j \in DOMAIN LeafPool : LeafPool[i].kind = LeafPool[j].kind => i = j
    /\ \E i \in DOMAIN LeafPool : LeafPool[i].kind = "int"

VARIABLES
    stack,      \* the calls of generate_node() in progress, the last innermost
    storage,    \* the items owned
    root        \* what generate_node() returned to generate_tree(), or 0

randomVars == <<items, sem, stack, storage, root>>

(* A call has a depth left; it has drawn a class, or not; for which        *)
(* argument it has called itself; the items generated as arguments, or 0.  *)
Calls == [depth : Int, kind : FuncKinds \cup {"none"}, at : Nat, args : Seq(Nat)]

Call(depth) == [depth |-> depth, kind |-> "none", at |-> 0, args |-> <<>>]

Caller == stack[Len(stack)]

-----------------------------------------------------------------------------
(* The call returns item n to the one below. *)
Return(n) ==
    LET m == Len(stack) - 1
    IN  IF m = 0 THEN stack' = <<>> /\ root' = n
        ELSE /\ stack' = [SubSeq(stack, 1, m) EXCEPT ![m].args[stack[m].at] = n]
             /\ UNCHANGED root

\* Seeded fault: a function is not put into the storage.
FaultyOwn(it) ==
    /\ items' = Append(items, it)
    /\ sem' = Append(sem, ItemSem(it, sem))
    /\ storage' = IF it.kind \in FuncKinds THEN storage ELSE Append(storage, Len(items) + 1)
    /\ Return(Len(items) + 1)

(* storage.emplace_back(node); return node. *)
Own(it) ==
    /\ items' = Append(items, it)
    /\ sem' = Append(sem, ItemSem(it, sem))
    /\ storage' = Append(storage, Len(items) + 1)
    /\ Return(Len(items) + 1)

\* Seeded fault: the recursion ends one level too late.
FaultyDeepest(depth) == depth = 0

Deepest(depth) == depth = 1

LiteralPlace(k) == CHOOSE i \in DOMAIN LeafPool : LeafPool[i].kind = k

Literal(k) == Leaf(LeafPool[LiteralPlace(k)])

\* Seeded fault: another number at the bottom.
FaultyBottom ==
    /\ stack # <<>> /\ Deepest(Caller.depth)
    /\ Own(Leaf([kind |-> "int", val |-> 0]))

(* depth_left is 1: a literal. *)
Bottom ==
    /\ stack # <<>> /\ Deepest(Caller.depth)
    /\ Own(Literal("int"))

(* node_factory() draws a literal ... *)
DrawLiteral ==
    /\ stack # <<>> /\ ~Deepest(Caller.depth) /\ Caller.kind = "none"
    /\ \E i \in DOMAIN LeafPool : Own(Leaf(LeafPool[i]))

\* Seeded fault: three arguments for every class.
FaultyDraws == {d \in Kinds \X (0 .. MaxArity) : d[2] \in Arities[d[1]] \cup {3}}

(* ... or a class of functions and one of its constructors. *)
Draws == {d \in Kinds \X (0 .. MaxArity) : d[2] \in Arities[d[1]]}

DrawFunction ==
    /\ stack # <<>> /\ ~Deepest(Caller.depth) /\ Caller.kind = "none"
    /\ \E draw \in Draws :
         stack' = [stack EXCEPT ![Len(stack)] =
                     [@ EXCEPT !.kind = draw[1], !.args = [j \in 1 .. draw[2] |-> 0]]]
    /\ UNCHANGED <<items, sem, storage, root>>

(* generate_node(depth_left - 1, storage) for an argument. *)
GenerateArgument ==
    /\ stack # <<>> /\ ~Deepest(Caller.depth) /\ Caller.kind # "none"
    /\ \E j \in DOMAIN Caller.args :
         /\ Caller.args[j] = 0
         /\ stack' = Append([stack EXCEPT ![Len(stack)].at = j], Call(Caller.depth - 1))
    /\ UNCHANGED <<items, sem, storage, root>>

\* Seeded fault: one argument is not enough for any constructor.
FaultyGenerated(call) == Len(call.args) > 1 /\ \A j \in DOMAIN call.args : call.args[j] # 0

Generated(call) == call.args # <<>> /\ \A j \in DOMAIN call.args : call.args[j] # 0

(* The constructor of the class. *)
NewFunction ==
    /\ stack # <<>> /\ ~Deepest(Caller.depth)
    /\ Generated(Caller)
    /\ Own(FuncItem(Caller.kind, Caller.args))

Init ==
    /\ items = <<>> /\ sem = <<>> /\ storage = <<>> /\ root = 0
    /\ stack = <<Call(MaxDepth)>>

Next == Bottom \/ DrawLiteral \/ DrawFunction \/ GenerateArgument \/ NewFunction

Spec == Init /\ [][Next]_randomVars

(* The thread that generates does nothing else until it is done. *)
FairSpec == Spec /\ WF_randomVars(Next)

-----------------------------------------------------------------------------
(* Properties. *)

(* Every item is well formed, in particular its arguments are items that   *)
(* were there before it.                                                   *)
TypeOK ==
    /\ TreeTypeOK
    /\ stack \in Seq(Calls)
    /\ storage \in Seq(DOMAIN items)
    /\ root \in {0} \cup DOMAIN items

(* generate_node(): assert(depth_left > 0).  No call goes deeper than      *)
(* MaxDepth, however the draws and the order of the arguments turn out.    *)
AssertionHolds ==
    /\ Len(stack) <= MaxDepth
    /\ \A i \in DOMAIN stack : stack[i].depth > 0

(* The places among the arguments of a sequence of items or calls that     *)
(* point to item n.                                                        *)
Uses(pointers, n) ==
    {at \in (DOMAIN pointers) \X (1 .. MaxArity) :
        at[2] \in DOMAIN pointers[at[1]].args /\ pointers[at[1]].args[at[2]] = n}

(* Every item is freed once, when the storage is, and nothing points to an *)
(* item that is not owned; it is used once: as an argument of a function,  *)
(* of a call in progress, or as the result.  The root is the last.         *)
OwnedOnce ==
    /\ Len(storage) = Len(items)
    /\ {storage[i] : i \in DOMAIN storage} = DOMAIN items
    /\ \A n \in DOMAIN items :
         Cardinality(Uses(items, n)) + Cardinality(Uses(stack, n)) + (IF root = n THEN 1 ELSE 0) = 1
    /\ root # 0 => root = Len(items) /\ stack = <<>>

(* generate_tree() returns. *)
Terminates == <>(root # 0)

-----------------------------------------------------------------------------
(* The generator builds what ItemTree builds, where literals of a class    *)
(* are one item: that item's place among the literals and functions.       *)
Funcs(n) == Cardinality({m \in 1 .. n : items[m].kind \in FuncKinds})

Func(i) == CHOOSE n \in DOMAIN items : items[n].kind \in FuncKinds /\ Funcs(n) = i

Shared(n) ==
    IF items[n].kind \in LeafKinds THEN LiteralPlace(items[n].kind)
    ELSE Len(LeafPool) + Funcs(n)

SharedItem(n) == [items[n] EXCEPT !.args = [j \in DOMAIN @ |-> Shared(@[j])]]

SharedItems ==
    [i \in DOMAIN LeafPool |-> Leaf(LeafPool[i])]
    \o [i \in 1 .. Funcs(Len(items)) |-> SharedItem(Func(i))]

SharedSem ==
    [i \in DOMAIN LeafPool |-> ItemSem(Leaf(LeafPool[i]), <<>>)]
    \o [i \in 1 .. Funcs(Len(items)) |-> sem[Func(i)]]

Tree == INSTANCE ItemTree WITH items <- SharedItems, sem <- SharedSem

(* The item that is new among the shared ones is one that ItemTree makes.  *)
Construction ==
    LET it == SharedItems'[Len(SharedItems')]
    IN  it.args \in Tree!ArgLists /\ Tree!NewItem(it.kind, it.args)

(* Every random tree is one of those the modules of the value methods      *)
(* consider, and has the value it has there: the generator's steps are     *)
(* constructions of ItemTree or change nothing of it.                      *)
BuildsTrees ==
    /\ Tree!TreeInit
    /\ [][Construction]_<<SharedItems, SharedSem>>
=============================================================================
