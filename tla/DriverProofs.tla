----------------------------- MODULE DriverProofs -----------------------------
(***************************************************************************)
(* ./test runs the tests that were asked for, in the order of the masks    *)
(* and of the table, and each loop of theirs is in the totals once.        *)
(***************************************************************************)
EXTENDS Driver, SequenceTheorems, FiniteSetTheorems, WellFoundedInduction, TLAPS

-----------------------------------------------------------------------------
(* Induction over the natural numbers, for a set of them.                  *)
LEMMA SetInduction ==
  ASSUME NEW S, 0 \in S, \A n \in Nat : n \in S => n + 1 \in S
  PROVE  \A n \in Nat : n \in S
<1> SUFFICES ASSUME NEW n \in Nat, n \notin S PROVE FALSE
  OBVIOUS
<1> DEFINE T == Nat \ S
           R == OpToRel(<, Nat)
<1>1. IsWellFoundedOn(R, Nat)
  BY NatLessThanWellFounded
<1>2. \A a \in Nat, b \in Nat : a < b => <<a, b>> \in R
  BY DEF OpToRel
<1> HIDE DEF R
<1>3. T \subseteq Nat /\ T # {}
  OBVIOUS
<1>4. PICK k \in T : \A l \in T : ~ (<<l, k>> \in R)
  <2> HIDE DEF T
  <2> QED BY <1>1, <1>3, WFMin
<1>5. k # 0
  OBVIOUS
<1>a. k \in Nat
  OBVIOUS
<1>b. k - 1 \in Nat /\ k - 1 < k
  BY <1>a, <1>5
<1>c. <<k - 1, k>> \in R
  BY <1>a, <1>b, <1>2
<1>6. k - 1 \in Nat /\ k - 1 \notin T
  <2> HIDE DEF T
  <2> QED BY <1>b, <1>c, <1>4
<1>7. k - 1 \in S
  BY <1>6
<1>8. k \in S
  <2>1. (k - 1) + 1 = k
    BY <1>a
  <2> QED BY <1>6, <1>7, <2>1
<1> QED
  BY <1>8

-----------------------------------------------------------------------------
(* The measurements of a test, one after the other.                        *)
IsUpto(f, L, P) == f = [i \in 0 .. L |-> IF i = 0 THEN <<>> ELSE f[i - 1] \o P[i]]

(* There is such a function: sequences are put together from the left.     *)
LEMMA Concats ==
    ASSUME NEW S, NEW L \in Nat, NEW P, \A i \in 1 .. L : P[i] \in Seq(S)
    PROVE  \E f : IsUpto(f, L, P)
<1> DEFINE Step(f, n) == \A i \in 0 .. n : f[i] = IF i = 0 THEN <<>> ELSE f[i - 1] \o P[i]
           N == {n \in Nat : n <= L => \E f \in [0 .. L -> Seq(S)] : Step(f, n)}
<1>1. 0 \in N
  <2>1. PICK f : f = [i \in 0 .. L |-> << >>]
    OBVIOUS
  <2>2. f \in [0 .. L -> Seq(S)] /\ Step(f, 0)
    BY <2>1
  <2> QED
    BY <2>2
<1>2. ASSUME NEW n \in Nat, n \in N
      PROVE  n + 1 \in N
  <2> SUFFICES ASSUME n + 1 <= L
               PROVE  \E f \in [0 .. L -> Seq(S)] : Step(f, n + 1)
    OBVIOUS
  <2>1. PICK f \in [0 .. L -> Seq(S)] : Step(f, n)
    BY <1>2
  <2>2. n + 1 \in 1 .. L /\ n \in 0 .. L
    OBVIOUS
  <2>3. PICK s : s = f[n] \o P[n + 1]
    OBVIOUS
  <2>4. s \in Seq(S)
    <3>1. f[n] \in Seq(S) /\ P[n + 1] \in Seq(S)
      BY <2>2
    <3> QED
      BY <2>3, <3>1, ConcatProperties
  <2>5. PICK g : g = [f EXCEPT ![n + 1] = s]
    OBVIOUS
  <2>6. g \in [0 .. L -> Seq(S)]
    BY <2>4, <2>5
  <2>7. g[n + 1] = s /\ \A i \in 0 .. L : i # n + 1 => g[i] = f[i]
    BY <2>2, <2>5
  <2>8. \A i \in 0 .. n : i \in 0 .. L /\ i # n + 1 /\ (i # 0 => i - 1 \in 0 .. L /\ i - 1 # n + 1)
    BY <2>2
  <2>9. \A i \in 0 .. n : g[i] = IF i = 0 THEN <<>> ELSE g[i - 1] \o P[i]
    BY <2>1, <2>7, <2>8
  <2>10. g[n + 1] = g[n] \o P[n + 1]
    <3>1. g[n] = f[n]
      BY <2>2, <2>7
    <3> QED
      BY <2>3, <2>7, <3>1
  <2>11. \A i \in 0 .. n + 1 : i \in 0 .. n \/ i = n + 1
    OBVIOUS
  <2>12. (n + 1) - 1 = n /\ n + 1 # 0
    OBVIOUS
  <2>13. Step(g, n + 1)
    BY <2>9, <2>10, <2>11, <2>12
  <2> HIDE DEF Step
  <2> QED
    BY <2>6, <2>13
<1> HIDE DEF N
<1>3. L \in N
  BY <1>1, <1>2, SetInduction
<1>4. PICK f \in [0 .. L -> Seq(S)] : Step(f, L)
  BY <1>3 DEF N
<1>5. f = [i \in 0 .. L |-> IF i = 0 THEN <<>> ELSE f[i - 1] \o P[i]]
  BY <1>4
<1> QED
  BY <1>5 DEF IsUpto


Pairs(this, api) ==
    [i \in 1 .. Len(this.shown) |->
       LET T == Measured(this)[i]
       IN  (IF api /\ T = "longlong" THEN <<[n |-> this.shown[i], t |-> "int32"]>> ELSE <<>>)
             \o <<[n |-> this.shown[i], t |-> T]>>]

LEMMA AsksFound ==
    ASSUME NEW this, NEW api \in BOOLEAN, NEW S, Len(this.shown) \in Nat,
           \A i \in 1 .. Len(this.shown) : Pairs(this, api)[i] \in Seq(S)
    PROVE  \E f : /\ IsUpto(f, Len(this.shown), Pairs(this, api))
                  /\ Asks(this, api) = f[Len(this.shown)]
<1>1. \E f : IsUpto(f, Len(this.shown), Pairs(this, api))
  <2>1. PICK L, P : L = Len(this.shown) /\ P = Pairs(this, api)
    OBVIOUS
  <2>2. L \in Nat /\ \A i \in 1 .. L : P[i] \in Seq(S)
    BY <2>1
  <2>3. \E f : IsUpto(f, L, P)
    BY <2>2, Concats
  <2> QED
    BY <2>1, <2>3
<1> DEFINE upto == CHOOSE f : IsUpto(f, Len(this.shown), Pairs(this, api))
<1>2. Asks(this, api) = upto[Len(this.shown)]
  BY Zenon DEF Asks, IsUpto, Pairs
<1> QED
  BY <1>1, <1>2

(* A measurement more. *)
LEMMA LoopsOfMore ==
    ASSUME NEW S, NEW s \in Seq(S), NEW e \in S, NEW T
    PROVE  /\ Loops(s, T) \in Nat
           /\ Loops(Append(s, e), T) = Loops(s, T) + (IF e = T THEN 1 ELSE 0)
<1> DEFINE A == {j \in DOMAIN s : s[j] = T}
           B == {j \in DOMAIN Append(s, e) : Append(s, e)[j] = T}
<1>1. PICK n \in Nat : n = Len(s) /\ DOMAIN s = 1 .. n
  BY LenProperties
<1>2. /\ DOMAIN Append(s, e) = 1 .. n + 1
      /\ Append(s, e)[n + 1] = e
      /\ \A j \in 1 .. n : Append(s, e)[j] = s[j]
  BY <1>1
<1>3. IsFiniteSet(A)
  <2>1. IsFiniteSet(1 .. n) /\ A \subseteq 1 .. n
    BY <1>1, FS_Interval
  <2> QED
    BY <2>1, FS_Subset
<1>4. Cardinality(A) \in Nat
  BY <1>3, FS_CardinalityType
<1>5. n + 1 \notin A
  BY <1>1
<1>6. B = IF e = T THEN A \cup {n + 1} ELSE A
  BY <1>1, <1>2
<1>7. Cardinality(A \cup {n + 1}) = Cardinality(A) + 1
  <2> HIDE DEF A
  <2> QED
    BY <1>3, <1>5, FS_AddElement
<1>8. Loops(s, T) = Cardinality(A) /\ Loops(Append(s, e), T) = Cardinality(B)
  BY DEF Loops
<1> HIDE DEF A, B
<1> QED
  BY <1>4, <1>6, <1>7, <1>8

(* Every loop is of one type. *)
AllLoops(s) ==
    Loops(s, "bool") + Loops(s, "int32") + Loops(s, "longlong") + Loops(s, "double")
      + Loops(s, "decimal")

(* A test asks for methods of the five types, and with --int32, of those   *)
(* of int32 as often as of those of longlong.                              *)
AsksRight(s, api) ==
    /\ s \in Seq(ValueTypes)
    /\ AllLoops(s) = Len(s)
    /\ Loops(s, "int32") = IF api THEN Loops(s, "longlong") ELSE 0

LEMMA AllLoopsOfMore ==
    ASSUME NEW s \in Seq(ValueTypes), NEW T \in ValueTypes, AllLoops(s) = Len(s)
    PROVE  /\ Append(s, T) \in Seq(ValueTypes)
           /\ AllLoops(Append(s, T)) = Len(Append(s, T))
<1>1. Append(s, T) \in Seq(ValueTypes) /\ Len(Append(s, T)) = Len(s) + 1 /\ Len(s) \in Nat
  OBVIOUS
<1>2. \A R : /\ Loops(s, R) \in Nat
             /\ Loops(Append(s, T), R) = Loops(s, R) + (IF T = R THEN 1 ELSE 0)
  BY LoopsOfMore
<1>3. PICK b, i, l, d, n :
          /\ b = Loops(s, "bool") /\ i = Loops(s, "int32") /\ l = Loops(s, "longlong")
          /\ d = Loops(s, "double") /\ n = Loops(s, "decimal")
  OBVIOUS
<1>4. b \in Nat /\ i \in Nat /\ l \in Nat /\ d \in Nat /\ n \in Nat
  BY <1>2, <1>3
<1>5. /\ Loops(Append(s, T), "bool") = b + (IF T = "bool" THEN 1 ELSE 0)
      /\ Loops(Append(s, T), "int32") = i + (IF T = "int32" THEN 1 ELSE 0)
      /\ Loops(Append(s, T), "longlong") = l + (IF T = "longlong" THEN 1 ELSE 0)
      /\ Loops(Append(s, T), "double") = d + (IF T = "double" THEN 1 ELSE 0)
      /\ Loops(Append(s, T), "decimal") = n + (IF T = "decimal" THEN 1 ELSE 0)
  BY <1>2, <1>3
<1>6. AllLoops(Append(s, T)) = b + i + l + d + n + 1
  BY <1>4, <1>5, SMTT(60) DEF AllLoops, ValueTypes
<1>7. AllLoops(s) = b + i + l + d + n
  BY <1>3 DEF AllLoops
<1> QED
  BY <1>1, <1>4, <1>6, <1>7

LEMMA NothingAsked == \A api \in BOOLEAN : AsksRight(<<>>, api)
<1>1. <<>> \in Seq(ValueTypes) /\ Len(<<>>) = 0
  BY EmptySeq
<1>2. \A T : Loops(<<>>, T) = 0
  <2> SUFFICES ASSUME NEW T
               PROVE  Loops(<<>>, T) = 0
    OBVIOUS
  <2>1. {j \in DOMAIN <<>> : <<>>[j] = T} = {}
    OBVIOUS
  <2> QED
    BY <2>1, FS_EmptySet DEF Loops
<1> QED
  BY <1>1, <1>2 DEF AsksRight, AllLoops

(* One measurement of any type but int32 more; of a longlong, with one of  *)
(* an int32 before it.                                                     *)
LEMMA AskedOne ==
    ASSUME NEW api \in BOOLEAN, NEW s, AsksRight(s, api), NEW T \in ValueTypes,
           T # "int32", ~(api /\ T = "longlong")
    PROVE  AsksRight(Append(s, T), api)
<1>1. s \in Seq(ValueTypes)
  BY DEF AsksRight
<1>2. \A R : Loops(Append(s, T), R) = Loops(s, R) + (IF T = R THEN 1 ELSE 0)
  BY <1>1, LoopsOfMore
<1>3. \A R : Loops(s, R) \in Nat
  BY <1>1, LoopsOfMore
<1>4. /\ Append(s, T) \in Seq(ValueTypes)
      /\ AllLoops(Append(s, T)) = Len(Append(s, T))
  BY <1>1, AllLoopsOfMore DEF AsksRight
<1>5. /\ Loops(s, "int32") = IF api THEN Loops(s, "longlong") ELSE 0
      /\ Loops(Append(s, T), "int32") = Loops(s, "int32")
  BY <1>2, <1>3 DEF AsksRight
<1>6. api => Loops(Append(s, T), "longlong") = Loops(s, "longlong")
  BY <1>2, <1>3
<1> QED
  BY <1>4, <1>5, <1>6 DEF AsksRight

LEMMA AskedTwo ==
    ASSUME NEW s, AsksRight(s, TRUE)
    PROVE  AsksRight(Append(Append(s, "int32"), "longlong"), TRUE)
<1> DEFINE m == Append(s, "int32")
<1>1. "int32" \in ValueTypes /\ "longlong" \in ValueTypes
  BY DEF ValueTypes
<1>2. s \in Seq(ValueTypes) /\ m \in Seq(ValueTypes) /\ AllLoops(m) = Len(m)
  BY <1>1, AllLoopsOfMore DEF AsksRight
<1>3. \A R : /\ Loops(s, R) \in Nat
             /\ Loops(m, R) = Loops(s, R) + (IF "int32" = R THEN 1 ELSE 0)
  BY <1>1, <1>2, LoopsOfMore
<1> HIDE DEF m
<1>4. \A R : Loops(Append(m, "longlong"), R) = Loops(m, R) + (IF "longlong" = R THEN 1 ELSE 0)
  BY <1>1, <1>2, LoopsOfMore
<1>5. /\ Loops(Append(m, "longlong"), "int32") = Loops(s, "int32") + 1
      /\ Loops(Append(m, "longlong"), "longlong") = Loops(s, "longlong") + 1
  BY <1>3, <1>4
<1>6. AsksRight(Append(m, "longlong"), TRUE)
  BY <1>1, <1>2, <1>3, <1>5, AllLoopsOfMore DEF AsksRight
<1> QED
  BY <1>6 DEF m

Typed(s) == [j \in DOMAIN s |-> s[j].t]

LEMMA TypedMore ==
    ASSUME NEW S, NEW s \in Seq(S), NEW e \in S
    PROVE  Typed(Append(s, e)) = Append(Typed(s), e.t)
<1>1. PICK n \in Nat : n = Len(s) /\ DOMAIN s = 1 .. n
  BY LenProperties
<1> DEFINE R == {r.t : r \in S}
<1>3. /\ DOMAIN Append(s, e) = 1 .. n + 1
      /\ Append(s, e)[n + 1] = e
      /\ \A j \in 1 .. n : Append(s, e)[j] = s[j]
  BY <1>1
<1>4. Typed(s) \in [1 .. n -> R]
  BY <1>1, ElementOfSeq DEF Typed
<1>5. Typed(s) \in Seq(R) /\ Len(Typed(s)) = n
  BY <1>4
<1>6. \A j \in 1 .. n + 1 : Typed(Append(s, e))[j] = Append(Typed(s), e.t)[j]
  <2>1. \A j \in 1 .. n + 1 : Typed(Append(s, e))[j] = Append(s, e)[j].t
    BY <1>3 DEF Typed
  <2>2. \A j \in 1 .. n : Append(Typed(s), e.t)[j] = s[j].t
    BY <1>1, <1>5 DEF Typed
  <2>3. Append(Typed(s), e.t)[n + 1] = e.t
    BY <1>5
  <2>4. \A j \in 1 .. n + 1 : j \in 1 .. n \/ j = n + 1
    OBVIOUS
  <2> QED
    BY <1>3, <2>1, <2>2, <2>3, <2>4
<1>7. Append(Typed(s), e.t) = [j \in 1 .. n + 1 |-> Append(Typed(s), e.t)[j]]
  BY <1>5
<1>8. Typed(Append(s, e)) = [j \in 1 .. n + 1 |-> Typed(Append(s, e))[j]]
  BY <1>3 DEF Typed
<1> QED
  BY <1>6, <1>7, <1>8

LEMMA TwoAsked == \A u, v : <<u>> \o <<v>> = <<u, v>> /\ <<>> \o <<v>> = <<v>>
<1> SUFFICES ASSUME NEW u, NEW v
             PROVE  <<u>> \o <<v>> = <<u, v>> /\ <<>> \o <<v>> = <<v>>
  OBVIOUS
<1> DEFINE S == {u, v}
<1>1. <<u>> \in Seq(S) /\ <<v>> \in Seq(S) /\ <<u, v>> \in Seq(S)
  OBVIOUS
<1>2. /\ <<u>> \o <<v>> \in Seq(S) /\ Len(<<u>> \o <<v>>) = 2
      /\ (<<u>> \o <<v>>)[1] = u /\ (<<u>> \o <<v>>)[2] = v
  BY <1>1, ConcatProperties
<1>3. <<>> \o <<v>> = <<v>>
  BY <1>1, ConcatEmptySeq
<1>4. <<u>> \o <<v>> = <<u, v>>
  <2>1. \A i \in 1 .. Len(<<u>> \o <<v>>) : (<<u>> \o <<v>>)[i] = <<u, v>>[i]
    BY <1>2
  <2> HIDE DEF S
  <2> QED
    BY <1>1, <1>2, <2>1, SeqEqual
<1> QED
  BY <1>3, <1>4

(* A test is asked what is right, whatever it measures of whichever type.  *)
LEMMA TestAsks ==
    ASSUME NEW this, NEW api \in BOOLEAN, Len(this.shown) \in Nat,
           \A i \in 1 .. Len(this.shown) : Measured(this)[i] \in ValueTypes \ {"int32"}
    PROVE  AsksRight(Typed(Asks(this, api)), api)
<1> DEFINE L == Len(this.shown)
           M == [n : {this.shown[i] : i \in 1 .. L}, t : ValueTypes]
           a(i) == [n |-> this.shown[i], t |-> "int32"]
           b(i) == [n |-> this.shown[i], t |-> Measured(this)[i]]
           P == Pairs(this, api)
<1>1. \A i \in 1 .. L : a(i) \in M /\ b(i) \in M
  BY DEF ValueTypes
<1>2. \A i \in 1 .. L :
        P[i] = IF api /\ Measured(this)[i] = "longlong" THEN <<a(i), b(i)>> ELSE <<b(i)>>
  <2>1. \A u, v : <<u>> \o <<v>> = <<u, v>> /\ <<>> \o <<v>> = <<v>>
    BY TwoAsked
  <2>2. \A i \in 1 .. L :
          P[i] = (IF api /\ Measured(this)[i] = "longlong" THEN <<a(i)>> ELSE <<>>) \o <<b(i)>>
    BY DEF Pairs
  <2> HIDE DEF P, a, b
  <2> QED
    BY <2>1, <2>2
<1>3. \A i \in 1 .. L : P[i] \in Seq(M)
  <2>1. \A u \in M, v \in M : <<u, v>> \in Seq(M) /\ <<v>> \in Seq(M)
    OBVIOUS
  <2> HIDE DEF M, P, a, b
  <2> QED
    BY <1>1, <1>2, <2>1
<1>4. PICK f : IsUpto(f, L, P) /\ Asks(this, api) = f[L]
  <2> HIDE DEF M
  <2> QED
    BY <1>3, AsksFound
<1>5. \A i \in 0 .. L : f[i] = IF i = 0 THEN <<>> ELSE f[i - 1] \o P[i]
  BY <1>4 DEF IsUpto
<1> DEFINE N == {n \in Nat : n <= L => f[n] \in Seq(M) /\ AsksRight(Typed(f[n]), api)}
<1>6. 0 \in N
  <2>1. f[0] = <<>>
    BY <1>5
  <2>2. Typed(<<>>) = <<>>
    BY DEF Typed
  <2>3. <<>> \in Seq(M)
    BY EmptySeq
  <2> QED
    BY <2>1, <2>2, <2>3, NothingAsked
<1>7. ASSUME NEW n \in Nat, n \in N
      PROVE  n + 1 \in N
  <2> SUFFICES ASSUME n + 1 <= L
               PROVE  f[n + 1] \in Seq(M) /\ AsksRight(Typed(f[n + 1]), api)
    OBVIOUS
  <2>1. n + 1 \in 1 .. L /\ n + 1 \in 0 .. L /\ n + 1 # 0 /\ (n + 1) - 1 = n
    OBVIOUS
  <2>2. f[n] \in Seq(M) /\ AsksRight(Typed(f[n]), api)
    BY <1>7
  <2>3. f[n + 1] = f[n] \o P[n + 1]
    BY <1>5, <2>1
  <2>4. PICK s, w, z, T : s = f[n] /\ w = a(n + 1) /\ z = b(n + 1) /\ T = Measured(this)[n + 1]
    OBVIOUS
  <2>5. /\ s \in Seq(M) /\ w \in M /\ z \in M
        /\ w.t = "int32" /\ z.t = T /\ T \in ValueTypes /\ T # "int32"
        /\ AsksRight(Typed(s), api)
        /\ f[n + 1] = s \o (IF api /\ T = "longlong" THEN <<w, z>> ELSE <<z>>)
    BY <1>1, <1>2, <2>1, <2>2, <2>3, <2>4
  <2> HIDE DEF M, N, L, P
  <2>6. CASE api /\ T = "longlong"
    <3>1. f[n + 1] = Append(Append(s, w), z)
      BY <2>5, <2>6
    <3>2. Append(s, w) \in Seq(M)
      BY <2>5
    <3>3. Typed(f[n + 1]) = Append(Append(Typed(s), "int32"), "longlong")
      BY <2>5, <2>6, <3>1, <3>2, TypedMore
    <3>4. AsksRight(Typed(s), TRUE) /\ api = TRUE
      BY <2>5, <2>6
    <3>5. AsksRight(Append(Append(Typed(s), "int32"), "longlong"), TRUE)
      BY <3>4, AskedTwo
    <3>6. f[n + 1] \in Seq(M)
      BY <2>5, <3>1, <3>2
    <3> QED
      BY <3>3, <3>4, <3>5, <3>6, Zenon
  <2>7. CASE ~(api /\ T = "longlong")
    <3>1. f[n + 1] = Append(s, z)
      BY <2>5, <2>7
    <3>2. Typed(f[n + 1]) = Append(Typed(s), T)
      BY <2>5, <3>1, TypedMore
    <3>3. AsksRight(Append(Typed(s), T), api)
      BY <2>5, <2>7, AskedOne
    <3>4. f[n + 1] \in Seq(M)
      BY <2>5, <3>1
    <3> QED
      BY <3>2, <3>3, <3>4, Zenon
  <2> QED
    BY <2>6, <2>7
<1> HIDE DEF N, M, P
<1>8. L \in N
  BY <1>6, <1>7, SetInduction
<1> QED
  BY <1>4, <1>8 DEF N

IsTest(this) ==
    /\ Len(this.shown) \in Nat
    /\ \A i \in 1 .. Len(this.shown) : Measured(this)[i] \in ValueTypes \ {"int32"}

LEMMA NativeIsTest ==
    ASSUME NEW name, NEW leaves, NEW funcs, NEW shown \in Seq(Nat)
    PROVE  IsTest(Native(name, leaves, funcs, shown))
<1>1. PICK this : this = Native(name, leaves, funcs, shown)
  OBVIOUS
<1>2. this.shown = shown /\ this.asked = <<>>
  BY <1>1 DEF Native
<1>3. Len(shown) \in Nat /\ DOMAIN shown = 1 .. Len(shown)
  BY LenProperties
<1>4. \A ft : NativeType(ft) \in ValueTypes \ {"int32"}
  BY DEF NativeType, ValueTypes
<1>5. \A i \in 1 .. Len(shown) : Measured(this)[i] = NativeType(ItemTypesOf(this)[shown[i]])
  BY <1>2, <1>3 DEF Measured
<1> QED
  BY <1>1, <1>2, <1>3, <1>4, <1>5 DEF IsTest

(* The table is a sequence of tests. *)
AreTests(s) == \E S : s \in Seq(S) /\ \A this \in S : IsTest(this)

LEMMA TestsAndTests ==
    ASSUME NEW s, NEW t, AreTests(s), AreTests(t)
    PROVE  AreTests(s \o t)
<1>1. PICK S : s \in Seq(S) /\ \A this \in S : IsTest(this)
  BY DEF AreTests
<1>2. PICK T : t \in Seq(T) /\ \A this \in T : IsTest(this)
  BY DEF AreTests
<1>3. s \in Seq(S \cup T) /\ t \in Seq(S \cup T)
  BY <1>1, <1>2, SeqMonotonic
<1>4. s \o t \in Seq(S \cup T)
  BY <1>3, ConcatProperties
<1> QED
  BY <1>1, <1>2, <1>4 DEF AreTests

LEMMA FiveTests ==
    ASSUME NEW a, NEW b, NEW c, NEW d, NEW e,
           IsTest(a), IsTest(b), IsTest(c), IsTest(d), IsTest(e)
    PROVE  AreTests(<<a, b, c, d, e>>)
<1>1. PICK S : S = {a, b, c, d, e}
  OBVIOUS
<1>2. <<a, b, c, d, e>> \in Seq(S) /\ \A this \in S : IsTest(this)
  BY <1>1
<1> QED
  BY <1>2 DEF AreTests

LEMMA TableIsRight ==
    /\ Len(AllFixed) \in Nat /\ DOMAIN AllFixed = 1 .. Len(AllFixed)
    /\ \A i \in DOMAIN AllFixed : IsTest(AllFixed[i])
<1>1. \A name, lit : /\ IsTest(Misc(name, lit)) /\ IsTest(Eq(name, lit))
                     /\ IsTest(Last_value(name, lit)) /\ IsTest(Coalesce_misc(name, lit))
                     /\ IsTest(Plus_misc(name, lit))
  <2>1. /\ <<1, 2, 3>> \in Seq(Nat) /\ <<3, 4, 5>> \in Seq(Nat) /\ <<2, 3>> \in Seq(Nat)
        /\ <<3, 4, 6, 7>> \in Seq(Nat) /\ <<4, 5, 6, 7, 10>> \in Seq(Nat)
    OBVIOUS
  <2> QED
    BY <2>1, NativeIsTest DEF Misc, Eq, Last_value, Coalesce_misc, Plus_misc
<1>2. AreTests(BoolTests)
  <2>1. IsTest(Test_bool_misc) /\ IsTest(Test_bool_or) /\ IsTest(Test_bool_coalesce)
    <3>1. /\ <<1, 2>> \in Seq(Nat) /\ <<3, 4>> \in Seq(Nat)
          /\ <<4, 5, 6, 7, 8, 9, 10, 11, 12, 13>> \in Seq(Nat)
      OBVIOUS
    <3> QED
      BY <3>1, NativeIsTest DEF Test_bool_misc, Test_bool_or, Test_bool_coalesce
  <2> QED
    BY <1>1, <2>1, FiveTests DEF BoolTests
<1>3. AreTests(LonglongTests)
  <2>1. IsTest(Test_ll_plus) /\ IsTest(Test_ll_coalesce)
    <3>1. <<4, 5, 6, 7, 8, 10>> \in Seq(Nat) /\ <<3, 5, 6>> \in Seq(Nat)
      OBVIOUS
    <3> QED
      BY <3>1, NativeIsTest DEF Test_ll_plus, Test_ll_coalesce
  <2> QED
    BY <1>1, <2>1, FiveTests DEF LonglongTests
<1>4. AreTests(DoubleTests)
  BY <1>1, FiveTests DEF DoubleTests
<1>5. AreTests(DecimalTests)
  BY <1>1, FiveTests DEF DecimalTests
<1>6. AreTests(<<Test_null_misc, Test_bool_isnull>>)
  <2>1. IsTest(Test_bool_isnull)
    <3>1. <<5, 6, 7, 8>> \in Seq(Nat)
      OBVIOUS
    <3> QED
      BY <3>1, NativeIsTest DEF Test_bool_isnull
  <2>2. IsTest(Test_null_misc)
    <3>1. PICK this : this = Test_null_misc
      OBVIOUS
    <3>2. /\ this.shown = <<1, 1, 1, 5, 6>>
          /\ this.asked = <<"bool", "longlong", "double", "bool", "bool">>
      BY <3>1 DEF Test_null_misc
    <3>3. Measured(this) = this.asked
      BY <3>2 DEF Measured
    <3>4. Len(this.shown) = 5
      BY <3>2
    <3>5. \A i \in 1 .. 5 : this.asked[i] \in ValueTypes \ {"int32"}
      BY <3>2 DEF ValueTypes
    <3> QED
      BY <3>1, <3>3, <3>4, <3>5 DEF IsTest
  <2>3. PICK a, b : a = Test_null_misc /\ b = Test_bool_isnull
    OBVIOUS
  <2>4. PICK S : S = {a, b}
    OBVIOUS
  <2>5. <<a, b>> \in Seq(S) /\ \A this \in S : IsTest(this)
    BY <2>1, <2>2, <2>3, <2>4
  <2>6. AreTests(<<a, b>>)
    BY <2>5 DEF AreTests
  <2> QED
    BY <2>3, <2>6, Zenon
<1>7. AreTests(AllFixed)
  BY <1>2, <1>3, <1>4, <1>5, <1>6, TestsAndTests DEF AllFixed
<1>8. PICK S : AllFixed \in Seq(S) /\ \A this \in S : IsTest(this)
  BY <1>7 DEF AreTests
<1> QED
  BY <1>8, LenProperties, ElementOfSeq

(* What is asked in a fixed test; the random test is one more place in the *)
(* table.                                                                  *)
LEMMA FixedAsksRight ==
    \A api \in BOOLEAN, i \in DOMAIN AllFixed : AsksRight(FixedAsks[api][i], api)
<1> SUFFICES ASSUME NEW api \in BOOLEAN, NEW i \in DOMAIN AllFixed
             PROVE  AsksRight(FixedAsks[api][i], api)
  OBVIOUS
<1>1. PICK this : this = AllFixed[i]
  OBVIOUS
<1>2. IsTest(this)
  BY <1>1, TableIsRight
<1>3. FixedAsks[api][i] = Typed(Asks(this, api))
  BY <1>1, Zenon DEF FixedAsks, Typed
<1>4. AsksRight(Typed(Asks(this, api)), api)
  BY <1>2, TestAsks DEF IsTest
<1> QED
  BY <1>3, <1>4

LEMMA RandomPlace == Random \in Nat \ {0} /\ \A i \in 1 .. Random : i # Random => i \in DOMAIN AllFixed
  BY TableIsRight DEF Random

-----------------------------------------------------------------------------
(* The arithmetic of the options.                                          *)
LEMMA Wrapped ==
    ASSUME NEW v \in Int, NEW u \in Nat \ {0}
    PROVE  /\ v % u \in 0 .. u - 1
           /\ v \in 0 .. u - 1 => v % u = v
           /\ v \in -u .. -1 => v % u = v + u
           /\ v = u => v % u = 0
  OBVIOUS

(* What an int is as an uint. *)
AsUint(v) == IF v < 0 THEN v + UintSize ELSE v

Half == UintSize \div 2

LEMMA UintHalf ==
    /\ UintSize \in Nat /\ UintSize >= 4 /\ Half \in Nat /\ UintSize = 2 * Half
    /\ UlonglongSize \in Nat /\ UlonglongSize \div 2 \in Nat /\ Half <= UlonglongSize \div 2
  BY DriverBounds, OptionBounds DEF Half

LEMMA AtoiOfInt ==
    ASSUME NEW v \in -Half .. Half - 1
    PROVE  Atoi(v) = AsUint(v) /\ Atoi(v) \in 0 .. UintSize - 1 /\ (Atoi(v) = 0 <=> v = 0)
<1>1. Saturated(v) = v
  BY UintHalf DEF Saturated
<1>2. v \in 0 .. UintSize - 1 \/ v \in -UintSize .. -1
  BY UintHalf
<1>3. PICK w : w = v % UintSize
  OBVIOUS
<1>4. /\ w \in 0 .. UintSize - 1
      /\ v \in 0 .. UintSize - 1 => w = v
      /\ v \in -UintSize .. -1 => w = v + UintSize
  <2>1. UintSize \in Nat \ {0} /\ v \in Int
    BY UintHalf
  <2> QED
    BY <1>3, <2>1, Wrapped
<1>5. Atoi(v) = w
  BY <1>1, <1>3 DEF Atoi
<1> QED
  BY <1>2, <1>4, <1>5, UintHalf DEF AsUint

LEMMA SaturatedSign ==
    ASSUME NEW v \in Int
    PROVE  Saturated(v) \in Int /\ (Saturated(v) < 0 <=> v < 0)
  BY DriverBounds DEF Saturated

LEMMA AtoiType == \A v \in Int : Atoi(v) \in 0 .. UintSize - 1
<1> SUFFICES ASSUME NEW v \in Int
             PROVE  Atoi(v) \in 0 .. UintSize - 1
  OBVIOUS
<1>1. Saturated(v) \in Int /\ UintSize \in Nat \ {0}
  BY SaturatedSign, DriverBounds
<1> QED
  BY <1>1, Wrapped DEF Atoi

LEMMA ApplyType ==
    ASSUME NEW o \in OptionSet, NEW a \in Arguments
    PROVE  Apply(o, a) \in OptionSet
<1>1. a.val \in Int /\ a.form \in Forms
  BY DEF Arguments
<1>2. Atoi(a.val) \in 0 .. UintSize - 1
  BY <1>1, AtoiType
<1>3. (o.big_test + 1) % UintSize \in 0 .. UintSize - 1
  <2>1. o.big_test + 1 \in Int /\ UintSize \in Nat \ {0}
    BY DriverBounds DEF OptionSet
  <2> QED
    BY <2>1, Wrapped
<1>4. SetCount(o, a) \in OptionSet
  <2>1. PICK c : c = Saturated(a.val) * Factor(a.suffix)
    OBVIOUS
  <2>2. Factor(a.suffix) \in Int /\ Saturated(a.val) \in Int
    BY <1>1, SaturatedSign, DriverBounds DEF Factor
  <2>3. c \in Int
    BY <2>1, <2>2
  <2>4. c % UlonglongSize \in 0 .. UlonglongSize - 1
    BY <2>3, Wrapped, DriverBounds
  <2> QED
    BY <2>1, <2>4 DEF SetCount, OptionSet
<1> QED
  BY <1>1, <1>2, <1>3, <1>4 DEF Apply, OptionSet

-----------------------------------------------------------------------------
(* The options among the first n arguments of a command line.              *)
LastIn(line, n, forms) == Max({0} \cup {i \in 1 .. n : line[i].form \in forms})

IsLast(line, n, forms, k) ==
    /\ k \in 0 .. n
    /\ k # 0 => line[k].form \in forms
    /\ \A i \in k + 1 .. n : line[i].form \notin forms

LEMMA MaxFound ==
    ASSUME NEW n \in Nat, NEW S, S \subseteq 0 .. n, S # {}
    PROVE  Max(S) \in S /\ \A z \in S : Max(S) >= z
<1> DEFINE N == {k \in Nat : \A T \in SUBSET (0 .. k) : T # {} => \E w \in T : \A z \in T : w >= z}
<1>1. 0 \in N
  <2> SUFFICES ASSUME NEW T \in SUBSET (0 .. 0), T # {}
               PROVE  \E w \in T : \A z \in T : w >= z
    OBVIOUS
  <2>1. PICK w \in T : TRUE
    OBVIOUS
  <2>2. \A z \in T : z = 0
    OBVIOUS
  <2> QED
    BY <2>1, <2>2
<1>2. ASSUME NEW k \in Nat, k \in N
      PROVE  k + 1 \in N
  <2> SUFFICES ASSUME NEW T \in SUBSET (0 .. k + 1), T # {}
               PROVE  \E w \in T : \A z \in T : w >= z
    OBVIOUS
  <2>1. CASE k + 1 \in T
    BY <2>1
  <2>2. CASE k + 1 \notin T
    <3>1. T \in SUBSET (0 .. k)
      BY <2>2
    <3> QED
      BY <1>2, <3>1
  <2> QED
    BY <2>1, <2>2
<1> HIDE DEF N
<1>3. n \in N
  BY <1>1, <1>2, SetInduction
<1>4. \E w \in S : \A z \in S : w >= z
  BY <1>3 DEF N
<1> QED
  BY <1>4 DEF Max

LEMMA LastFound ==
    ASSUME NEW line, NEW n \in Nat, NEW forms
    PROVE  IsLast(line, n, forms, LastIn(line, n, forms))
<1> DEFINE S == {0} \cup {i \in 1 .. n : line[i].form \in forms}
<1>1. S \subseteq 0 .. n /\ S # {}
  OBVIOUS
<1>2. Max(S) \in S /\ \A z \in S : Max(S) >= z
  <2> HIDE DEF S
  <2> QED
    BY <1>1, MaxFound
<1>3. PICK k : k = Max(S)
  OBVIOUS
<1>4. /\ k = 0 \/ (k \in 1 .. n /\ line[k].form \in forms)
      /\ \A i \in 1 .. n : line[i].form \in forms => k >= i
  BY <1>2, <1>3
<1>5. IsLast(line, n, forms, k)
  BY <1>4 DEF IsLast
<1> QED
  BY <1>3, <1>5 DEF LastIn

LEMMA LastOfMore ==
    ASSUME NEW line, NEW n \in Nat, NEW forms
    PROVE  /\ LastIn(line, 0, forms) = 0
           /\ LastIn(line, n, forms) \in 0 .. n
           /\ LastIn(line, n + 1, forms) =
                IF line[n + 1].form \in forms THEN n + 1 ELSE LastIn(line, n, forms)
<1>1. PICK k, l, z : /\ k = LastIn(line, n, forms) /\ l = LastIn(line, n + 1, forms)
                     /\ z = LastIn(line, 0, forms)
  OBVIOUS
<1>2. /\ IsLast(line, n, forms, k) /\ IsLast(line, n + 1, forms, l)
      /\ IsLast(line, 0, forms, z)
  BY <1>1, LastFound
<1>3. k \in 0 .. n /\ z = 0 /\ l = IF line[n + 1].form \in forms THEN n + 1 ELSE k
  BY <1>2 DEF IsLast
<1> QED
  BY <1>1, <1>3

BigCount(line, n, set) == {i \in 1 .. n : i > set /\ line[i].form = "--big-test"}

BigIn(line, n) ==
    LET set == LastIn(line, n, {"--big-test="})
    IN  (IF set = 0 THEN 0 ELSE line[set].val) + Cardinality(BigCount(line, n, set))

LEMMA BigOfMore ==
    ASSUME NEW line \in Seq(Arguments), NEW n \in Nat, n + 1 <= Len(line), BigIn(line, n) \in Int
    PROVE  BigIn(line, n + 1) =
             CASE line[n + 1].form = "--big-test"  -> BigIn(line, n) + 1
               [] line[n + 1].form = "--big-test=" -> line[n + 1].val
               [] OTHER                            -> BigIn(line, n)
<1>1. PICK k, l : /\ k = LastIn(line, n, {"--big-test="})
                  /\ l = LastIn(line, n + 1, {"--big-test="})
  OBVIOUS
<1>2. k \in 0 .. n /\ l = IF line[n + 1].form = "--big-test=" THEN n + 1 ELSE k
  <2>1. PICK F : F = {"--big-test="}
    OBVIOUS
  <2>2. /\ LastIn(line, n, F) \in 0 .. n
        /\ LastIn(line, n + 1, F) =
             IF line[n + 1].form \in F THEN n + 1 ELSE LastIn(line, n, F)
    BY LastOfMore
  <2>3. k = LastIn(line, n, F) /\ l = LastIn(line, n + 1, F)
    BY <1>1, <2>1
  <2>4. line[n + 1].form \in F <=> line[n + 1].form = "--big-test="
    BY <2>1
  <2> QED
    BY <2>2, <2>3, <2>4
<1>3. \A m \in Nat, set \in Nat :
        IsFiniteSet(BigCount(line, m, set)) /\ Cardinality(BigCount(line, m, set)) \in Nat
  <2> SUFFICES ASSUME NEW m \in Nat, NEW set \in Nat
               PROVE  /\ IsFiniteSet(BigCount(line, m, set))
                      /\ Cardinality(BigCount(line, m, set)) \in Nat
    OBVIOUS
  <2>1. IsFiniteSet(1 .. m)
    BY FS_Interval
  <2>2. BigCount(line, m, set) \subseteq 1 .. m
    BY DEF BigCount
  <2>3. IsFiniteSet(BigCount(line, m, set))
    BY <2>1, <2>2, FS_Subset
  <2> QED
    BY <2>3, FS_CardinalityType
<1>4. PICK v : v = IF k = 0 THEN 0 ELSE line[k].val
  OBVIOUS
<1>5. BigIn(line, n) = v + Cardinality(BigCount(line, n, k))
  BY <1>1, <1>4 DEF BigIn
<1>6. line[n + 1] \in Arguments
  OBVIOUS
<1>7. v \in Int
  <2>1. k # 0 => k \in 1 .. Len(line)
    BY <1>2
  <2>2. k # 0 => line[k] \in Arguments
    BY <2>1
  <2> QED
    BY <1>4, <2>2 DEF Arguments
<1>8. CASE line[n + 1].form = "--big-test"
  <2>1. l = k
    BY <1>2, <1>8
  <2>2. BigCount(line, n + 1, k) = BigCount(line, n, k) \cup {n + 1}
    BY <1>2, <1>8 DEF BigCount
  <2>3. n + 1 \notin BigCount(line, n, k)
    BY DEF BigCount
  <2>4. IsFiniteSet(BigCount(line, n, k)) /\ Cardinality(BigCount(line, n, k)) \in Nat
    <3>1. k \in Nat
      BY <1>2
    <3> QED
      BY <1>3, <3>1
  <2>5. Cardinality(BigCount(line, n + 1, k)) = Cardinality(BigCount(line, n, k)) + 1
    BY <2>2, <2>3, <2>4, FS_AddElement
  <2>6. BigIn(line, n + 1) = v + Cardinality(BigCount(line, n + 1, k))
    BY <1>1, <1>4, <2>1 DEF BigIn
  <2> QED
    BY <1>5, <1>7, <1>8, <2>4, <2>5, <2>6
<1>9. CASE line[n + 1].form = "--big-test="
  <2>1. l = n + 1
    BY <1>2, <1>9
  <2>2. BigCount(line, n + 1, l) = {}
    BY <2>1 DEF BigCount
  <2>3. BigIn(line, n + 1) = line[n + 1].val + 0
    <3>1. Cardinality(BigCount(line, n + 1, l)) = 0
      BY <2>2, FS_EmptySet
    <3>2. BigIn(line, n + 1) = (IF l = 0 THEN 0 ELSE line[l].val) + 0
      BY <1>1, <3>1 DEF BigIn
    <3> QED
      BY <2>1, <3>2
  <2> QED
    BY <1>6, <1>9, <2>3 DEF Arguments
<1>10. CASE line[n + 1].form \notin {"--big-test", "--big-test="}
  <2>1. l = k
    BY <1>2, <1>10
  <2>2. BigCount(line, n + 1, k) = BigCount(line, n, k)
    BY <1>2, <1>10 DEF BigCount
  <2>3. BigIn(line, n + 1) = v + Cardinality(BigCount(line, n + 1, k))
    BY <1>1, <1>4, <2>1 DEF BigIn
  <2> QED
    BY <1>5, <1>10, <2>2, <2>3
<1> QED
  BY <1>8, <1>9, <1>10

LEMMA BigOfNone == \A line : BigIn(line, 0) = 0
<1> SUFFICES ASSUME NEW line
             PROVE  BigIn(line, 0) = 0
  OBVIOUS
<1>1. LastIn(line, 0, {"--big-test="}) = 0
  BY LastOfMore
<1>2. BigCount(line, 0, 0) = {}
  BY DEF BigCount
<1>3. Cardinality(BigCount(line, 0, 0)) = 0
  BY <1>2, FS_EmptySet
<1> QED
  BY <1>1, <1>3 DEF BigIn

(* Ints that are counted up stay below the size of an uint. *)
LEMMA BigBounds ==
    ASSUME NEW line \in CommandLines
    PROVE  \A n \in 0 .. Len(line) : BigIn(line, n) \in -Half .. Half - 1 + n
<1>1. /\ line \in Seq(Arguments) /\ Len(line) \in Nat
      /\ \A i \in 1 .. Len(line) : line[i].form = "--big-test=" => line[i].val \in -Half .. Half - 1
  <2>1. line \in Seq(Arguments)
    BY DriverBounds
  <2>2. DOMAIN line = 1 .. Len(line) /\ Len(line) \in Nat
    BY <2>1, LenProperties
  <2> QED
    BY <2>1, <2>2, OptionBounds DEF Half
<1> DEFINE N == {n \in Nat : n <= Len(line) => BigIn(line, n) \in -Half .. Half - 1 + n}
<1>2. 0 \in N
  BY BigOfNone, UintHalf
<1>3. ASSUME NEW n \in Nat, n \in N
      PROVE  n + 1 \in N
  <2> SUFFICES ASSUME n + 1 <= Len(line)
               PROVE  BigIn(line, n + 1) \in -Half .. Half - 1 + (n + 1)
    OBVIOUS
  <2>1. BigIn(line, n) \in -Half .. Half - 1 + n
    BY <1>1, <1>3
  <2>2. BigIn(line, n) \in Int
    BY <2>1, UintHalf
  <2>3. PICK c, d, v : c = BigIn(line, n) /\ d = BigIn(line, n + 1) /\ v = line[n + 1].val
    OBVIOUS
  <2>4. d = CASE line[n + 1].form = "--big-test"  -> c + 1
              [] line[n + 1].form = "--big-test=" -> v
              [] OTHER                            -> c
    BY <1>1, <2>2, <2>3, BigOfMore
  <2>5. line[n + 1].form = "--big-test=" => v \in -Half .. Half - 1
    BY <1>1, <2>3
  <2>6. c \in -Half .. Half - 1 + n /\ Half \in Nat /\ Half >= 1
    BY <2>1, <2>3, UintHalf
  <2>7. d \in -Half .. Half - 1 + (n + 1)
    <3>1. CASE line[n + 1].form = "--big-test"
      <4>1. d = c + 1
        BY <2>4, <3>1
      <4> QED
        BY <2>6, <4>1
    <3>2. CASE line[n + 1].form = "--big-test="
      <4>1. d = v /\ v \in -Half .. Half - 1
        BY <2>4, <2>5, <3>2
      <4> QED
        BY <2>6, <4>1
    <3>3. CASE line[n + 1].form \notin {"--big-test", "--big-test="}
      <4>1. d = c
        BY <2>4, <3>3
      <4> QED
        BY <2>6, <4>1
    <3> QED
      BY <3>1, <3>2, <3>3
  <2> QED
    BY <2>3, <2>7
<1> HIDE DEF N
<1>4. \A n \in Nat : n \in N
  BY <1>2, <1>3, SetInduction
<1>5. \A n \in 0 .. Len(line) : n \in Nat /\ n <= Len(line)
  BY <1>1
<1> QED
  BY <1>4, <1>5 DEF N

IntForms == {"--int32", "--int32="}

Int32In(line, n) ==
    LET i == LastIn(line, n, IntForms)
    IN  i # 0 /\ (line[i].form = "--int32" \/ line[i].val # 0)

LEMMA Int32OfMore ==
    ASSUME NEW line, NEW n \in Nat
    PROVE  /\ Int32In(line, 0) = FALSE
           /\ line[n + 1].form \notin IntForms => Int32In(line, n + 1) = Int32In(line, n)
           /\ line[n + 1].form = "--int32" => Int32In(line, n + 1) = TRUE
           /\ line[n + 1].form = "--int32=" => Int32In(line, n + 1) = (line[n + 1].val # 0)
<1>1. PICK k, l : k = LastIn(line, n, IntForms) /\ l = LastIn(line, n + 1, IntForms)
  OBVIOUS
<1>2. l = IF line[n + 1].form \in IntForms THEN n + 1 ELSE k
  BY <1>1, LastOfMore
<1>3. LastIn(line, 0, IntForms) = 0
  BY LastOfMore
<1>4. Int32In(line, n) = (k # 0 /\ (line[k].form = "--int32" \/ line[k].val # 0))
  BY <1>1 DEF Int32In
<1>5. Int32In(line, n + 1) = (l # 0 /\ (line[l].form = "--int32" \/ line[l].val # 0))
  BY <1>1 DEF Int32In
<1>6. Int32In(line, 0) = FALSE
  BY <1>3 DEF Int32In
<1>7. ASSUME line[n + 1].form \notin IntForms
      PROVE  Int32In(line, n + 1) = Int32In(line, n)
  BY <1>2, <1>4, <1>5, <1>7
<1>8. ASSUME line[n + 1].form = "--int32"
      PROVE  Int32In(line, n + 1) = TRUE
  <2>1. l = n + 1
    BY <1>2, <1>8 DEF IntForms
  <2>2. l # 0 /\ line[l].form = "--int32"
    BY <1>8, <2>1
  <2> QED
    BY <1>5, <2>2
<1>9. ASSUME line[n + 1].form = "--int32="
      PROVE  Int32In(line, n + 1) = (line[n + 1].val # 0)
  BY <1>2, <1>5, <1>9 DEF IntForms
<1> QED
  BY <1>6, <1>7, <1>8, <1>9

IsBad(a) ==
    \/ a.form \in {"-?", "--help", "--unknown"}
    \/ a.form = "--count=" /\ a.val < 0

BadIn(line, n) == \E i \in 1 .. n : IsBad(line[i])

(* The options are what the first n arguments say.                         *)
IsRead(o, line, n) ==
    /\ o.error = BadIn(line, n)
    /\ o.int32api = Int32In(line, n)
    /\ o.big_test = AsUint(BigIn(line, n))

LEMMA ApplyReads ==
    ASSUME NEW line \in CommandLines, NEW n \in Nat, n + 1 <= Len(line), NEW o \in OptionSet,
           IsOption(line[n + 1]), IsRead(o, line, n)
    PROVE  IsRead(Apply(o, line[n + 1]), line, n + 1)
<1>1. line \in Seq(Arguments) /\ DOMAIN line = 1 .. Len(line) /\ Len(line) \in Nat
  BY DriverBounds, LenProperties
<1>2. PICK a, p : a = line[n + 1] /\ p = Apply(o, a)
  OBVIOUS
<1>3. a \in Arguments /\ a.form \in Forms /\ a.val \in Int
  <2>1. n + 1 \in 1 .. Len(line)
    BY <1>1
  <2>2. a \in Arguments
    BY <1>1, <1>2, <2>1, ElementOfSeq
  <2> QED
    BY <2>2 DEF Arguments
<1>4. a.form \in {"--int32=", "--big-test="} => a.val \in -Half .. Half - 1
  BY <1>1, <1>2, OptionBounds DEF Half
<1>5. BadIn(line, n + 1) = (BadIn(line, n) \/ IsBad(a))
  <2>1. \A i \in 1 .. n + 1 : i \in 1 .. n \/ i = n + 1
    OBVIOUS
  <2>2. BadIn(line, n + 1) <=> (BadIn(line, n) \/ IsBad(a))
    <3>1. ASSUME NEW i \in 1 .. n + 1, IsBad(line[i])
          PROVE  BadIn(line, n) \/ IsBad(a)
      BY <1>2, <2>1, <3>1 DEF BadIn
    <3>2. \A i \in 1 .. n : i \in 1 .. n + 1
      OBVIOUS
    <3>3. n + 1 \in 1 .. n + 1
      OBVIOUS
    <3> QED
      BY <1>2, <3>1, <3>2, <3>3 DEF BadIn
  <2> QED
    BY <2>2 DEF BadIn
<1>6. p.error = BadIn(line, n + 1)
  <2>1. p.error = (o.error \/ IsBad(a))
    <3>1. /\ Saturated(a.val) < 0 <=> a.val < 0
          /\ DOMAIN o = {"error", "vm", "int32api", "big_test", "seed", "count"}
          /\ o.error \in BOOLEAN
      BY <1>3, SaturatedSign DEF OptionSet
    <3>2. CASE a.form = "--count="
      BY <1>2, <3>1, <3>2 DEF Apply, SetCount, IsBad
    <3>3. CASE a.form \in {"-?", "--help", "--unknown"}
      BY <1>2, <3>1, <3>3 DEF Apply, IsBad
    <3>4. CASE a.form \notin {"--count=", "-?", "--help", "--unknown"}
      BY <1>2, <3>1, <3>4 DEF Apply, IsBad
    <3> QED
      BY <3>2, <3>3, <3>4
  <2> QED
    BY <1>5, <2>1 DEF IsRead
<1>7. p.int32api = Int32In(line, n + 1)
  <2>1. o.int32api = Int32In(line, n) /\ o.int32api \in BOOLEAN
    BY DEF IsRead, OptionSet
  <2>2. CASE a.form = "--int32"
    BY <1>2, <2>2, Int32OfMore DEF Apply, OptionSet
  <2>3. CASE a.form = "--int32="
    <3>1. Atoi(a.val) = 0 <=> a.val = 0
      BY <1>4, <2>3, AtoiOfInt
    <3>2. p.int32api = (Atoi(a.val) # 0)
      BY <1>2, <2>3 DEF Apply, OptionSet
    <3>3. Int32In(line, n + 1) = (a.val # 0)
      BY <1>2, <2>3, Int32OfMore
    <3> QED
      BY <3>1, <3>2, <3>3
  <2>4. CASE a.form \notin IntForms
    <3>1. p.int32api = o.int32api
      BY <1>2, <2>4 DEF Apply, SetCount, OptionSet, IntForms
    <3>2. Int32In(line, n + 1) = Int32In(line, n)
      BY <1>2, <2>4, Int32OfMore
    <3> QED
      BY <2>1, <3>1, <3>2
  <2> QED
    BY <2>2, <2>3, <2>4 DEF IntForms
<1>8. p.big_test = AsUint(BigIn(line, n + 1))
  <2>1. PICK c, d : c = BigIn(line, n) /\ d = BigIn(line, n + 1)
    OBVIOUS
  <2>2. c \in -Half .. Half - 1 + n /\ Len(line) <= Half
    <3>1. n \in 0 .. Len(line)
      BY <1>1
    <3> QED
      BY <2>1, <3>1, BigBounds, OptionBounds DEF Half
  <2>3. d = CASE a.form = "--big-test"  -> c + 1
              [] a.form = "--big-test=" -> a.val
              [] OTHER                  -> c
    <3>1. c \in Int
      BY <2>2, UintHalf
    <3> QED
      BY <1>1, <1>2, <2>1, <3>1, BigOfMore
  <2>4. o.big_test = AsUint(c)
    BY <2>1 DEF IsRead
  <2>5. CASE a.form = "--big-test"
    <3>1. p.big_test = (AsUint(c) + 1) % UintSize
      BY <1>2, <2>4, <2>5 DEF Apply, OptionSet
    <3>2. PICK e : e = AsUint(c) + 1
      OBVIOUS
    <3>3. c + 1 < UintSize /\ c \in Int /\ c >= -Half
      BY <1>1, <2>2, UintHalf
    <3>4. e \in 0 .. UintSize - 1 \/ e = UintSize
      BY <3>2, <3>3, UintHalf DEF AsUint
    <3>5. e % UintSize = IF e = UintSize THEN 0 ELSE e
      <4>1. UintSize \in Nat \ {0} /\ e \in Int
        BY <3>4, UintHalf
      <4> QED
        BY <3>4, <4>1, Wrapped
    <3>6. d = c + 1
      BY <2>3, <2>5
    <3>7. p.big_test = IF e = UintSize THEN 0 ELSE e
      BY <3>1, <3>2, <3>5
    <3>8. (IF e = UintSize THEN 0 ELSE e) = AsUint(c + 1)
      BY <3>2, <3>3, UintHalf DEF AsUint
    <3> QED
      BY <2>1, <3>6, <3>7, <3>8
  <2>6. CASE a.form = "--big-test="
    <3>1. p.big_test = Atoi(a.val)
      BY <1>2, <2>6 DEF Apply, OptionSet
    <3>2. Atoi(a.val) = AsUint(a.val)
      BY <1>4, <2>6, AtoiOfInt
    <3>3. d = a.val
      BY <2>3, <2>6
    <3> QED
      BY <2>1, <3>1, <3>2, <3>3
  <2>7. CASE a.form \notin {"--big-test", "--big-test="}
    <3>1. p.big_test = o.big_test
      BY <1>2, <2>7 DEF Apply, SetCount, OptionSet
    <3>2. d = c
      BY <2>3, <2>7
    <3> QED
      BY <2>1, <2>4, <3>1, <3>2
  <2> QED
    BY <2>5, <2>6, <2>7
<1> QED
  BY <1>2, <1>6, <1>7, <1>8 DEF IsRead

-----------------------------------------------------------------------------
(* The tests that ran, and their loops.                                    *)
Runs == Nat \X (1 .. Random)

MatchesBy(big, i, mask) ==
    /\ IF i = Random THEN big > 0 ELSE big < 2
    /\ IsPrefix(mask, Name(i))

(* For masks M, when the place c of a mask and t of a test are reached.    *)
RunsBefore(big, M, c, t) ==
    {r \in (1 .. Len(M)) \X (1 .. Random) : Before(r, <<c, t>>) /\ MatchesBy(big, r[2], M[r[1]])}

IsDone(big, M, c, t, r) ==
    /\ {r[j] : j \in DOMAIN r} = RunsBefore(big, M, c, t)
    /\ \A j, l \in DOMAIN r : j < l => Before(r[j], r[l])

LEMMA NothingDone == \A big, M : IsDone(big, M, 1, 1, <<>>)
<1> SUFFICES ASSUME NEW big, NEW M
             PROVE  IsDone(big, M, 1, 1, <<>>)
  OBVIOUS
<1>1. RunsBefore(big, M, 1, 1) = {}
  BY RandomPlace DEF RunsBefore, Before
<1>2. DOMAIN <<>> = {}
  OBVIOUS
<1> QED
  BY <1>1, <1>2 DEF IsDone

LEMMA TestDone ==
    ASSUME NEW big, NEW M, NEW c \in 1 .. Len(M), NEW t \in 1 .. Random, NEW r \in Seq(Runs),
           IsDone(big, M, c, t, r), MatchesBy(big, t, M[c])
    PROVE  IsDone(big, M, c, t + 1, Append(r, <<c, t>>))
<1>1. PICK n \in Nat : n = Len(r) /\ DOMAIN r = 1 .. n
  BY LenProperties
<1>2. PICK q : q = Append(r, <<c, t>>)
  OBVIOUS
<1>3. DOMAIN q = 1 .. n + 1 /\ q[n + 1] = <<c, t>> /\ \A j \in 1 .. n : q[j] = r[j]
  BY <1>1, <1>2
<1>4. \A j \in 1 .. n + 1 : j \in 1 .. n \/ j = n + 1
  OBVIOUS
<1>5. {q[j] : j \in DOMAIN q} = {r[j] : j \in DOMAIN r} \cup {<<c, t>>}
  <2>1. PICK z : z = <<c, t>>
    OBVIOUS
  <2>2. q[n + 1] = z /\ n + 1 \in 1 .. n + 1 /\ \A j \in 1 .. n : j \in 1 .. n + 1
    BY <1>3, <2>1
  <2>3. {q[j] : j \in 1 .. n + 1} = {r[j] : j \in 1 .. n} \cup {z}
    BY <1>3, <1>4, <2>2
  <2> QED
    BY <1>1, <1>3, <2>1, <2>3
<1>6. RunsBefore(big, M, c, t + 1) = RunsBefore(big, M, c, t) \cup {<<c, t>>}
  <2>1. \A p \in (1 .. Len(M)) \X (1 .. Random) :
          Before(p, <<c, t + 1>>) <=> Before(p, <<c, t>>) \/ p = <<c, t>>
    BY RandomPlace DEF Before
  <2>2. <<c, t>> \in (1 .. Len(M)) \X (1 .. Random) /\ MatchesBy(big, <<c, t>>[2], M[<<c, t>>[1]])
    OBVIOUS
  <2> HIDE DEF MatchesBy
  <2> QED
    BY <2>1, <2>2 DEF RunsBefore
<1>7. \A j \in 1 .. n : Before(r[j], <<c, t>>)
  <2>1. \A j \in 1 .. n : r[j] \in RunsBefore(big, M, c, t)
    BY <1>1 DEF IsDone
  <2> QED
    BY <2>1 DEF RunsBefore
<1>8. \A j, l \in DOMAIN q : j < l => Before(q[j], q[l])
  <2> SUFFICES ASSUME NEW j \in 1 .. n + 1, NEW l \in 1 .. n + 1, j < l
               PROVE  Before(q[j], q[l])
    BY <1>3
  <2>1. j \in 1 .. n
    OBVIOUS
  <2>2. CASE l \in 1 .. n
    BY <1>1, <1>3, <2>1, <2>2 DEF IsDone
  <2>3. CASE l = n + 1
    BY <1>3, <1>7, <2>1, <2>3
  <2> QED
    BY <1>4, <2>2, <2>3
<1> QED
  BY <1>2, <1>5, <1>6, <1>8 DEF IsDone

LEMMA TestSkipped ==
    ASSUME NEW big, NEW M, NEW c \in 1 .. Len(M), NEW t \in 1 .. Random, NEW r,
           IsDone(big, M, c, t, r), ~MatchesBy(big, t, M[c])
    PROVE  IsDone(big, M, c, t + 1, r)
<1>1. \A p \in (1 .. Len(M)) \X (1 .. Random) :
        Before(p, <<c, t + 1>>) <=> Before(p, <<c, t>>) \/ p = <<c, t>>
  BY RandomPlace DEF Before
<1>2. RunsBefore(big, M, c, t + 1) = RunsBefore(big, M, c, t)
  <2>1. \A p : p = <<c, t>> => ~MatchesBy(big, p[2], M[p[1]])
    OBVIOUS
  <2> QED
    BY <1>1, <2>1 DEF RunsBefore
<1> QED
  BY <1>2 DEF IsDone

LEMMA MaskDone ==
    ASSUME NEW big, NEW M, NEW c \in 1 .. Len(M), NEW r, IsDone(big, M, c, Random + 1, r)
    PROVE  IsDone(big, M, c + 1, 1, r)
<1>1. \A p \in (1 .. Len(M)) \X (1 .. Random) :
        Before(p, <<c + 1, 1>>) <=> Before(p, <<c, Random + 1>>)
  BY RandomPlace DEF Before
<1>2. RunsBefore(big, M, c + 1, 1) = RunsBefore(big, M, c, Random + 1)
  BY <1>1 DEF RunsBefore
<1> QED
  BY <1>2 DEF IsDone

MeasuresOf(api, i) == IF i = Random THEN 1 ELSE Len(FixedAsks[api][i])

LoopPlaces(api, r) == UNION {{j} \X (1 .. MeasuresOf(api, r[j][2])) : j \in DOMAIN r}

RandomPlaces(r) == {j \in DOMAIN r : r[j][2] = Random}

LEMMA MeasuresType == \A api \in BOOLEAN, i \in 1 .. Random : MeasuresOf(api, i) \in Nat
<1> SUFFICES ASSUME NEW api \in BOOLEAN, NEW i \in 1 .. Random
             PROVE  MeasuresOf(api, i) \in Nat
  OBVIOUS
<1>1. CASE i = Random
  BY <1>1 DEF MeasuresOf
<1>2. CASE i # Random
  <2>1. FixedAsks[api][i] \in Seq(ValueTypes)
    BY <1>2, RandomPlace, FixedAsksRight DEF AsksRight
  <2> QED
    BY <1>2, <2>1, LenProperties DEF MeasuresOf
<1> QED
  BY <1>1, <1>2

LEMMA PlacesFinite ==
    ASSUME NEW api \in BOOLEAN, NEW r \in Seq(Runs)
    PROVE  /\ IsFiniteSet(LoopPlaces(api, r)) /\ Cardinality(LoopPlaces(api, r)) \in Nat
           /\ IsFiniteSet(RandomPlaces(r)) /\ Cardinality(RandomPlaces(r)) \in Nat
<1>1. PICK n \in Nat : n = Len(r) /\ DOMAIN r = 1 .. n
  BY LenProperties
<1>2. IsFiniteSet(1 .. n)
  BY FS_Interval
<1>3. IsFiniteSet(RandomPlaces(r))
  <2>1. RandomPlaces(r) \subseteq 1 .. n
    BY <1>1 DEF RandomPlaces
  <2> QED
    BY <1>2, <2>1, FS_Subset
<1>4. IsFiniteSet(LoopPlaces(api, r))
  <2> DEFINE P(j) == {j} \X (1 .. MeasuresOf(api, r[j][2]))
             N == {k \in Nat : k <= n => IsFiniteSet(UNION {P(j) : j \in 1 .. k})}
  <2>1. \A j \in 1 .. n : IsFiniteSet(P(j))
    <3> SUFFICES ASSUME NEW j \in 1 .. n
                 PROVE  IsFiniteSet(P(j))
      OBVIOUS
    <3>1. r[j] \in Runs
      BY <1>1
    <3>2. PICK m \in Nat : m = MeasuresOf(api, r[j][2])
      BY <3>1, MeasuresType DEF Runs
    <3>3. IsFiniteSet({j})
      BY FS_Singleton
    <3>4. IsFiniteSet(1 .. m)
      BY FS_Interval
    <3>5. IsFiniteSet({j} \X (1 .. m))
      BY <3>3, <3>4, FS_Product
    <3> QED
      BY <3>2, <3>5
  <2>2. 0 \in N
    <3>1. UNION {P(j) : j \in 1 .. 0} = {}
      OBVIOUS
    <3> QED
      BY <3>1, FS_EmptySet
  <2>3. ASSUME NEW k \in Nat, k \in N
        PROVE  k + 1 \in N
    <3> SUFFICES ASSUME k + 1 <= n
                 PROVE  IsFiniteSet(UNION {P(j) : j \in 1 .. k + 1})
      OBVIOUS
    <3>1. IsFiniteSet(UNION {P(j) : j \in 1 .. k})
      BY <2>3
    <3>2. IsFiniteSet(P(k + 1))
      BY <2>1
    <3>3. UNION {P(j) : j \in 1 .. k + 1} = (UNION {P(j) : j \in 1 .. k}) \cup P(k + 1)
      <4>1. \A j \in 1 .. k + 1 : j \in 1 .. k \/ j = k + 1
        OBVIOUS
      <4>2. k + 1 \in 1 .. k + 1 /\ \A j \in 1 .. k : j \in 1 .. k + 1
        OBVIOUS
      <4> HIDE DEF P, N
      <4> QED
        BY <4>1, <4>2
    <3> HIDE DEF P, N
    <3> QED
      BY <3>1, <3>2, <3>3, FS_Union
  <2> HIDE DEF N
  <2>4. n \in N
    BY <2>2, <2>3, SetInduction
  <2>5. IsFiniteSet(UNION {P(j) : j \in 1 .. n})
    BY <2>4 DEF N
  <2> QED
    BY <1>1, <2>5 DEF LoopPlaces
<1> QED
  BY <1>3, <1>4, FS_CardinalityType

LEMMA PlacesOfMore ==
    ASSUME NEW api \in BOOLEAN, NEW r \in Seq(Runs), NEW p \in Runs
    PROVE  /\ Cardinality(LoopPlaces(api, Append(r, p))) =
                Cardinality(LoopPlaces(api, r)) + MeasuresOf(api, p[2])
           /\ Cardinality(RandomPlaces(Append(r, p))) =
                Cardinality(RandomPlaces(r)) + (IF p[2] = Random THEN 1 ELSE 0)
<1>1. PICK n \in Nat : n = Len(r) /\ DOMAIN r = 1 .. n
  BY LenProperties
<1>2. PICK q : q = Append(r, p)
  OBVIOUS
<1>3. DOMAIN q = 1 .. n + 1 /\ q[n + 1] = p /\ \A j \in 1 .. n : q[j] = r[j]
  BY <1>1, <1>2
<1>4. \A j \in 1 .. n + 1 : j \in 1 .. n \/ j = n + 1
  OBVIOUS
<1>5. PICK m \in Nat : m = MeasuresOf(api, p[2])
  BY MeasuresType DEF Runs
<1>6. Cardinality(LoopPlaces(api, q)) = Cardinality(LoopPlaces(api, r)) + m
  <2> DEFINE A == LoopPlaces(api, r)
             B == {n + 1} \X (1 .. m)
  <2>1. LoopPlaces(api, q) = A \cup B
    BY <1>1, <1>3, <1>4, <1>5 DEF LoopPlaces
  <2>2. A \cap B = {}
    BY <1>1 DEF LoopPlaces
  <2>3. IsFiniteSet(A) /\ Cardinality(A) \in Nat
    BY PlacesFinite
  <2>4. IsFiniteSet(B) /\ Cardinality(B) = m
    <3>1. IsFiniteSet({n + 1}) /\ Cardinality({n + 1}) = 1
      BY FS_Singleton
    <3>2. IsFiniteSet(1 .. m) /\ Cardinality(1 .. m) = m
      BY FS_Interval
    <3>3. Cardinality(B) = 1 * m
      BY <3>1, <3>2, FS_Product
    <3> QED
      BY <3>1, <3>2, <3>3, FS_Product
  <2>5. Cardinality({}) = 0
    BY FS_EmptySet
  <2> HIDE DEF A, B
  <2>6. Cardinality(A \cup B) = Cardinality(A) + m - 0
    BY <2>2, <2>3, <2>4, <2>5, FS_Union
  <2> QED
    BY <2>1, <2>3, <2>6 DEF A
<1>7. Cardinality(RandomPlaces(q)) = Cardinality(RandomPlaces(r)) + (IF p[2] = Random THEN 1 ELSE 0)
  <2>1. IsFiniteSet(RandomPlaces(r)) /\ Cardinality(RandomPlaces(r)) \in Nat
    BY PlacesFinite
  <2>2. CASE p[2] = Random
    <3>1. RandomPlaces(q) = RandomPlaces(r) \cup {n + 1}
      BY <1>1, <1>3, <1>4, <2>2 DEF RandomPlaces
    <3>2. n + 1 \notin RandomPlaces(r)
      BY <1>1 DEF RandomPlaces
    <3> QED
      BY <2>1, <2>2, <3>1, <3>2, FS_AddElement
  <2>3. CASE p[2] # Random
    <3>1. RandomPlaces(q) = RandomPlaces(r)
      BY <1>1, <1>3, <1>4, <2>3 DEF RandomPlaces
    <3> QED
      BY <2>1, <2>3, <3>1
  <2> QED
    BY <2>2, <2>3
<1> QED
  BY <1>2, <1>5, <1>6, <1>7

-----------------------------------------------------------------------------
(* What a test measures and what it takes.                                 *)
LEMMA RootAsks ==
    ASSUME NEW api \in BOOLEAN, NEW root \in RootTypes
    PROVE  LET s == IF api /\ root = "longlong" THEN <<"int32", "longlong">> ELSE <<root>>
           IN  AsksRight(s, api) /\ Len(s) = IF api /\ root = "longlong" THEN 2 ELSE 1
<1>1. AsksRight(<<>>, api)
  BY NothingAsked
<1>2. CASE api /\ root = "longlong"
  <2>1. AsksRight(Append(Append(<<>>, "int32"), "longlong"), TRUE)
    BY <1>1, <1>2, AskedTwo
  <2>2. Append(Append(<<>>, "int32"), "longlong") = <<"int32", "longlong">>
    <3>1. PICK u, v : u = "int32" /\ v = "longlong"
      OBVIOUS
    <3>2. Append(<<>>, u) = <<u>>
      OBVIOUS
    <3>3. Append(<<u>>, v) = <<u>> \o <<v>>
      <4>1. <<u>> \in Seq({u, v}) /\ v \in {u, v}
        OBVIOUS
      <4> QED
        BY <4>1, AppendIsConcat
    <3>4. Append(Append(<<>>, u), v) = <<u, v>>
      BY Zenon, <3>2, <3>3, TwoAsked
    <3> QED
      BY Zenon, <3>1, <3>4
  <2>3. Len(<<"int32", "longlong">>) = 2
    OBVIOUS
  <2> QED
    BY <1>2, <2>1, <2>2, <2>3
<1>3. CASE ~(api /\ root = "longlong")
  <2>1. root \in ValueTypes /\ root # "int32"
    BY DEF RootTypes, ValueTypes
  <2>2. AsksRight(Append(<<>>, root), api)
    BY <1>1, <1>3, <2>1, AskedOne
  <2>3. Append(<<>>, root) = <<root>> /\ Len(<<root>>) = 1
    OBVIOUS
  <2> QED
    BY <1>3, <2>2, <2>3
<1> QED
  BY <1>2, <1>3

LEMMA AsksOfRight ==
    ASSUME opt.int32api \in BOOLEAN, NEW i \in 1 .. Random, NEW s \in AsksOf(i)
    PROVE  \E e \in {0, 1} :
             /\ AsksRight(s, opt.int32api)
             /\ Len(s) = MeasuresOf(opt.int32api, i) + e
             /\ e = 1 => opt.int32api /\ i = Random
<1>1. PICK api \in BOOLEAN : api = opt.int32api
  OBVIOUS
<1>2. CASE i # Random
  <2>1. s = FixedAsks[api][i]
    BY <1>1, <1>2 DEF AsksOf
  <2>2. AsksRight(s, api)
    BY <1>2, <2>1, RandomPlace, FixedAsksRight
  <2>3. Len(s) \in Nat /\ Len(s) = MeasuresOf(api, i) + 0
    BY <1>2, <2>1, <2>2, LenProperties DEF MeasuresOf, AsksRight
  <2> QED
    BY <1>1, <2>2, <2>3
<1>3. CASE i = Random
  <2>1. PICK root \in RootTypes :
          s = IF api /\ root = "longlong" THEN <<"int32", "longlong">> ELSE <<root>>
    BY <1>1, <1>3 DEF AsksOf
  <2>2. AsksRight(s, api) /\ Len(s) = IF api /\ root = "longlong" THEN 2 ELSE 1
    BY <2>1, RootAsks
  <2>3. MeasuresOf(api, i) = 1
    BY <1>3 DEF MeasuresOf
  <2> QED
    BY <1>1, <1>3, <2>2, <2>3
<1> QED
  BY <1>2, <1>3

Stats == [ValueTypes -> [Groups -> Nat]]

(* The times of the loops of the tests in r. *)
Timed(api, st, r) ==
    \E n \in 0 .. Cardinality(RandomPlaces(r)) :
      /\ api \/ n = 0
      /\ \A m \in Groups : Total(st)[m] = (Cardinality(LoopPlaces(api, r)) + n) * LoopTime[m]
      /\ st["int32"] = IF api THEN st["longlong"] ELSE NoTime["int32"]

LEMMA Distributed ==
    \A a, b, c, d, l \in Nat :
       /\ (a + b) * l + (c + d) * l = ((a + c) + (b + d)) * l
       /\ 0 * l = 0
       /\ a * l \in Nat
  OBVIOUS

LEMMA TimesAdded ==
    ASSUME NEW st \in Stats, NEW s \in Seq(ValueTypes)
    PROVE  /\ Added(st, Times(s)) \in Stats
           /\ \A T \in ValueTypes, m \in Groups :
                Added(st, Times(s))[T][m] = st[T][m] + Loops(s, T) * LoopTime[m]
<1>1. \A T : Loops(s, T) \in Nat
  BY LoopsOfMore DEF ValueTypes
<1>2. PICK u : u = Times(s)
  OBVIOUS
<1>3. /\ u \in Stats
      /\ \A T \in ValueTypes, m \in Groups : u[T][m] = Loops(s, T) * LoopTime[m]
  <2>1. \A T \in ValueTypes, m \in Groups : Loops(s, T) * LoopTime[m] \in Nat
    <3>1. \A m \in Groups : LoopTime[m] \in Nat
      BY DriverBounds
    <3> QED
      BY <1>1, <3>1, Distributed
  <2> QED
    BY <1>2, <2>1 DEF Times, Stats
<1>4. \A o, z \in [Groups -> Nat] :
        /\ AddTimes(o, z) \in [Groups -> Nat]
        /\ \A m \in Groups : AddTimes(o, z)[m] = o[m] + z[m]
  BY DEF AddTimes, Groups
<1>5. PICK v : v = Added(st, u)
  OBVIOUS
<1>6. \A T \in ValueTypes : v[T] = AddTimes(st[T], u[T])
  BY <1>5 DEF Added, ValueTypes
<1>7. v \in Stats
  <2>1. \A T \in ValueTypes : v[T] \in [Groups -> Nat]
    BY <1>3, <1>4, <1>6 DEF Stats
  <2>2. v = [T \in ValueTypes |-> v[T]]
    BY <1>5 DEF Added, ValueTypes
  <2> QED
    BY <2>1, <2>2 DEF Stats
<1>8. \A T \in ValueTypes, m \in Groups : v[T][m] = st[T][m] + u[T][m]
  <2>1. \A T \in ValueTypes : st[T] \in [Groups -> Nat] /\ u[T] \in [Groups -> Nat]
    BY <1>3 DEF Stats
  <2>2. \A T \in ValueTypes, m \in Groups : AddTimes(st[T], u[T])[m] = st[T][m] + u[T][m]
    BY <1>4, <2>1
  <2> QED
    BY <1>6, <2>2
<1> QED
  BY <1>2, <1>3, <1>5, <1>7, <1>8

LEMMA NothingTimed == \A api \in BOOLEAN : NoTime \in Stats /\ Timed(api, NoTime, <<>>)
<1> SUFFICES ASSUME NEW api \in BOOLEAN
             PROVE  NoTime \in Stats /\ Timed(api, NoTime, <<>>)
  OBVIOUS
<1>1. NoTime \in Stats /\ \A T \in ValueTypes : NoTime[T] = [m \in Groups |-> 0]
  BY DEF NoTime, Stats
<1>2. LoopPlaces(api, <<>>) = {} /\ RandomPlaces(<<>>) = {}
  BY DEF LoopPlaces, RandomPlaces
<1>3. Cardinality({}) = 0
  BY FS_EmptySet
<1>4. \A m \in Groups : Total(NoTime)[m] = 0
  BY <1>1 DEF Total, ValueTypes
<1>5. \A m \in Groups : LoopTime[m] \in Nat
  BY DriverBounds
<1>6. \A m \in Groups : (0 + 0) * LoopTime[m] = 0
  BY <1>5, Distributed
<1>7. NoTime["int32"] = NoTime["longlong"]
  BY <1>1 DEF ValueTypes
<1> HIDE DEF NoTime
<1>8. 0 \in 0 .. Cardinality(RandomPlaces(<<>>))
  <2>1. Cardinality(RandomPlaces(<<>>)) = 0
    BY Zenon, <1>2, <1>3
  <2> QED
    BY <2>1
<1> QED
  BY <1>1, <1>2, <1>3, <1>4, <1>6, <1>7, <1>8 DEF Timed

LEMMA TimedMore ==
    ASSUME NEW api \in BOOLEAN, NEW st \in Stats, NEW r \in Seq(Runs), NEW p \in Runs,
           Timed(api, st, r), NEW s, NEW e \in {0, 1}, AsksRight(s, api),
           Len(s) = MeasuresOf(api, p[2]) + e, e = 1 => api /\ p[2] = Random
    PROVE  /\ Added(st, Times(s)) \in Stats
           /\ Timed(api, Added(st, Times(s)), Append(r, p))
<1>1. PICK v : v = Added(st, Times(s))
  OBVIOUS
<1>2. /\ s \in Seq(ValueTypes) /\ AllLoops(s) = Len(s)
      /\ Loops(s, "int32") = IF api THEN Loops(s, "longlong") ELSE 0
  BY DEF AsksRight
<1>3. v \in Stats
  BY <1>1, <1>2, TimesAdded
<1>4. \A T \in ValueTypes, m \in Groups : v[T][m] = st[T][m] + Loops(s, T) * LoopTime[m]
  BY <1>1, <1>2, TimesAdded
<1>5. \A T : Loops(s, T) \in Nat
  BY <1>2, LoopsOfMore DEF ValueTypes
<1>6. \A m \in Groups : LoopTime[m] \in Nat
  BY DriverBounds
<1>7. PICK n \in 0 .. Cardinality(RandomPlaces(r)) :
        /\ api \/ n = 0
        /\ \A m \in Groups : Total(st)[m] = (Cardinality(LoopPlaces(api, r)) + n) * LoopTime[m]
        /\ st["int32"] = IF api THEN st["longlong"] ELSE NoTime["int32"]
  BY DEF Timed
<1>8. PICK c, k, f, C, K : /\ c = Cardinality(LoopPlaces(api, r)) /\ k = Cardinality(RandomPlaces(r))
                           /\ f = MeasuresOf(api, p[2])
                           /\ C = Cardinality(LoopPlaces(api, Append(r, p)))
                           /\ K = Cardinality(RandomPlaces(Append(r, p)))
  OBVIOUS
<1>9. c \in Nat /\ k \in Nat
  BY <1>8, PlacesFinite
<1>10. f \in Nat
  BY <1>8, MeasuresType DEF Runs
<1>11. C = c + f /\ K = k + (IF p[2] = Random THEN 1 ELSE 0)
  BY <1>8, PlacesOfMore
<1>12. n + e \in 0 .. K /\ (api \/ n + e = 0)
  BY <1>7, <1>8, <1>9, <1>11
<1>13. ASSUME NEW m \in Groups
       PROVE  Total(v)[m] = (C + (n + e)) * LoopTime[m]
  <2>1. PICK l \in Nat : l = LoopTime[m]
    BY <1>6
  <2>2. PICK a1, a2, a3, a4, a5 \in Nat :
          /\ a1 = Loops(s, "bool") /\ a2 = Loops(s, "int32") /\ a3 = Loops(s, "longlong")
          /\ a4 = Loops(s, "double") /\ a5 = Loops(s, "decimal")
    BY <1>5
  <2>3. PICK b1, b2, b3, b4, b5 \in Nat :
          /\ b1 = st["bool"][m] /\ b2 = st["int32"][m] /\ b3 = st["longlong"][m]
          /\ b4 = st["double"][m] /\ b5 = st["decimal"][m]
    BY DEF Stats, ValueTypes
  <2>4. /\ v["bool"][m] = b1 + a1 * l /\ v["int32"][m] = b2 + a2 * l
        /\ v["longlong"][m] = b3 + a3 * l /\ v["double"][m] = b4 + a4 * l
        /\ v["decimal"][m] = b5 + a5 * l
    BY <1>4, <2>1, <2>2, <2>3 DEF ValueTypes
  <2>5. Total(v)[m] = (b1 + a1 * l) + (b2 + a2 * l) + (b3 + a3 * l) + (b4 + a4 * l) + (b5 + a5 * l)
    BY <2>4 DEF Total
  <2>6. Total(st)[m] = b1 + b2 + b3 + b4 + b5
    BY <2>3 DEF Total
  <2>7. b1 + b2 + b3 + b4 + b5 = (c + n) * l
    BY <1>7, <1>8, <2>1, <2>6
  <2>8. a1 + a2 + a3 + a4 + a5 = f + e
    BY <1>2, <1>8, <2>2 DEF AllLoops
  <2>9. Total(v)[m] = (c + n) * l + (a1 + a2 + a3 + a4 + a5) * l
    BY <2>5, <2>7
  <2>10. (c + n) * l + (f + e) * l = ((c + f) + (n + e)) * l
    BY <1>7, <1>9, <1>10, Distributed
  <2> QED
    BY <1>11, <2>1, <2>8, <2>9, <2>10
<1>14. v["int32"] = IF api THEN v["longlong"] ELSE NoTime["int32"]
  <2>1. \A o, z \in [Groups -> Nat] : (\A m \in Groups : o[m] = z[m]) => o = z
    OBVIOUS
  <2>2. v["int32"] \in [Groups -> Nat] /\ v["longlong"] \in [Groups -> Nat]
    BY <1>3 DEF Stats, ValueTypes
  <2>3. CASE api
    <3>1. \A m \in Groups : v["int32"][m] = v["longlong"][m]
      BY <1>2, <1>4, <1>7, <2>3 DEF ValueTypes
    <3> QED
      BY <2>1, <2>2, <2>3, <3>1
  <2>4. CASE ~api
    <3>1. NoTime["int32"] \in [Groups -> Nat] /\ \A m \in Groups : NoTime["int32"][m] = 0
      BY DEF NoTime, ValueTypes
    <3>2. \A m \in Groups : st["int32"][m] = 0 /\ Loops(s, "int32") * LoopTime[m] = 0
      BY <1>2, <1>6, <1>7, <2>4, <3>1, Distributed
    <3>3. \A m \in Groups : v["int32"][m] = 0
      BY <1>4, <3>2 DEF ValueTypes
    <3> QED
      BY <2>1, <2>2, <2>4, <3>1, <3>3
  <2> QED
    BY <2>3, <2>4
<1>15. Timed(api, v, Append(r, p))
  BY <1>8, <1>12, <1>13, <1>14 DEF Timed
<1> QED
  BY <1>1, <1>3, <1>15

-----------------------------------------------------------------------------
(* The inductive invariant.  The arguments used are options; until a test  *)
(* can run nothing has, and the options are what these arguments say.  As  *)
(* long as tests run, and when they have, the masks left are the last of   *)
(* those asked for, the tests that ran are those before this place, and    *)
(* their loops are timed.                                                  *)
Reading ==
    /\ args \in CommandLines
    /\ \A i \in 1 .. used : IsOption(args[i])

Parsing ==
    pc = "parse" =>
        /\ IsRead(opt, args, used)
        /\ ran = <<>> /\ stt = NoTime /\ test = 1 /\ code = 0 /\ masks = <<>>

MaskSet == Seq(STRING) \cup {NoTest}

Place == Len(Masks) - Len(masks)

MasksLeft ==
    /\ masks \in Seq(MaskSet) /\ Len(masks) <= Len(Masks)
    /\ \A k \in 1 .. Len(masks) : masks[k] = Masks[Place + k]
    /\ masks = <<>> => test = 1

Running ==
    pc = "run" \/ (pc = "exit" /\ code = 0) =>
        /\ IsRead(opt, args, used) /\ Parsed /\ ~LastOptions.error
        /\ MasksLeft
        /\ IsDone(opt.big_test, Masks, Place + 1, test, ran)
        /\ Timed(opt.int32api, stt, ran)

Exited ==
    /\ pc = "run" => code = 0
    /\ pc = "exit" =>
         IF code = 0 THEN masks = <<>>
         ELSE Bad /\ ran = <<>> /\ stt = NoTime

DriverInv == TypeOK /\ Reading /\ Parsing /\ Running /\ Exited

LEMMA CommandLine ==
    ASSUME Reading
    PROVE  args \in Seq(Arguments) /\ DOMAIN args = 1 .. Len(args) /\ Len(args) \in Nat
  BY DriverBounds, LenProperties DEF Reading

LEMMA MasksType ==
    ASSUME Reading, used \in 0 .. Len(args)
    PROVE  Masks \in Seq(MaskSet) /\ Len(Masks) \in Nat \ {0}
<1>1. args \in Seq(Arguments) /\ DOMAIN args = 1 .. Len(args) /\ Len(args) \in Nat
  BY CommandLine
<1>2. CASE used = Len(args)
  <2>1. Masks = <<<<>>>>
    BY <1>2 DEF Masks
  <2>2. <<>> \in MaskSet
    BY DEF MaskSet
  <2>3. <<<<>>>> \in Seq(MaskSet) /\ Len(<<<<>>>>) = 1
    BY <2>2
  <2> QED
    BY <2>1, <2>3
<1>3. CASE used # Len(args)
  <2>0. PICK l \in Nat, u \in Nat : l = Len(args) /\ u = used /\ u <= l
    <3>1. PICK l \in Nat : l = Len(args)
      BY <1>1
    <3>2. used \in 0 .. l
      BY <3>1
    <3> QED
      BY <3>1, <3>2
  <2>1. PICK n \in Nat \ {0} : n = Len(args) - used
    <3>1. l - u \in Nat \ {0}
      BY <1>3, <2>0
    <3> QED
      BY <2>0, <3>1
  <2>2. \A a \in Arguments : MaskOf(a) \in MaskSet
    <3> SUFFICES ASSUME NEW a \in Arguments
                 PROVE  MaskOf(a) \in MaskSet
      OBVIOUS
    <3>1. a.mask \in Seq(STRING)
      BY DEF Arguments
    <3> QED
      BY <3>1 DEF MaskOf, MaskSet
  <2>3. \A i \in 1 .. n : MaskOf(args[used + i]) \in MaskSet
    <3>1. \A i \in 1 .. n : used + i \in 1 .. Len(args)
      BY <2>0, <2>1
    <3>2. \A i \in 1 .. Len(args) : args[i] \in Arguments
      BY <1>1
    <3> QED
      BY <2>2, <3>1, <3>2
  <2>4. Masks = [i \in 1 .. n |-> MaskOf(args[used + i])]
    BY <1>3, <2>1 DEF Masks
  <2> HIDE DEF Masks
  <2>5. Masks \in [1 .. n -> MaskSet]
    BY <2>3, <2>4
  <2>6. Masks \in Seq(MaskSet) /\ Len(Masks) = n
    BY <2>5
  <2> QED
    BY <2>6
<1> QED
  BY <1>2, <1>3

LEMMA InitInv == Init => DriverInv
<1> SUFFICES ASSUME Init
             PROVE  DriverInv
  OBVIOUS
<1>1. Reading
  BY DEF Init, Reading
<1>2. Len(args) \in Nat
  BY <1>1, CommandLine
<1>3. opt \in OptionSet
  BY DriverBounds DEF Init, OptionSet
<1>4. TypeOK
  <2>1. NoTime \in Stats
    BY NothingTimed
  <2>2. ran \in Seq(Nat \X (1 .. Random))
    BY DEF Init
  <2> QED
    BY <1>2, <1>3, <2>1, <2>2, RandomPlace DEF Init, TypeOK, Stats
<1>5. IsRead(opt, args, used)
  <2>1. BigIn(args, 0) = 0 /\ Int32In(args, 0) = FALSE
    BY BigOfNone, Int32OfMore
  <2>2. BadIn(args, 0) = FALSE
    BY DEF BadIn
  <2>3. AsUint(0) = 0
    BY DEF AsUint
  <2> QED
    BY <2>1, <2>2, <2>3 DEF Init, IsRead
<1>6. Parsing /\ Running /\ Exited
  BY <1>5 DEF Init, Parsing, Running, Exited
<1> QED
  BY <1>1, <1>4, <1>6 DEF DriverInv

LEMMA ParseOptionInv ==
    ASSUME DriverInv, ParseOption
    PROVE  DriverInv'
<1> USE DEF DriverInv
<1>1. args' = args /\ pc' = "parse" /\ pc = "parse" /\ code' = code /\ test' = test
      /\ stt' = stt /\ ran' = ran /\ masks' = masks
  BY DEF ParseOption
<1>2. PICK n \in Nat, l \in Nat : n = used /\ l = Len(args) /\ n + 1 <= l /\ used' = n + 1
  <2>1. PICK l \in Nat : l = Len(args)
    BY CommandLine
  <2>2. PICK n \in 0 .. l : n = used
    BY <2>1 DEF TypeOK
  <2>3. n + 1 <= l /\ used' = n + 1
    BY <2>1, <2>2 DEF ParseOption
  <2> QED
    BY <2>1, <2>2, <2>3
<1>3. PICK a \in Arguments : a = args[n + 1] /\ IsOption(a) /\ opt' = Apply(opt, a)
  BY <1>2, CommandLine DEF ParseOption
<1>4. Reading'
  BY <1>1, <1>2, <1>3 DEF Reading
<1>5. opt' \in OptionSet
  BY <1>3, ApplyType DEF TypeOK
<1>6. TypeOK'
  BY <1>1, <1>2, <1>5 DEF TypeOK
<1>7. IsRead(opt', args, n + 1)
  <2>1. PICK o, line : o = opt /\ line = args
    OBVIOUS
  <2>2. line \in CommandLines /\ o \in OptionSet /\ IsOption(line[n + 1]) /\ IsRead(o, line, n)
    BY <1>1, <1>2, <1>3, <2>1 DEF Reading, Parsing, TypeOK
  <2>3. IsRead(Apply(o, line[n + 1]), line, n + 1)
    BY <1>2, <2>1, <2>2, ApplyReads
  <2> QED
    BY <1>3, <2>1, <2>3
<1>8. Parsing' /\ Running' /\ Exited'
  BY <1>1, <1>2, <1>7 DEF Parsing, Running, Exited
<1> QED
  BY <1>4, <1>6, <1>8

LEMMA UsageInv ==
    ASSUME DriverInv, Usage
    PROVE  DriverInv'
<1> USE DEF DriverInv
<1>1. args' = args /\ pc' = "exit" /\ pc = "parse" /\ code' = 1 /\ test' = test
      /\ stt' = stt /\ ran' = ran /\ masks' = masks /\ used' = used /\ opt' = LastOptions
  BY DEF Usage
<1>2. Reading'
  BY <1>1 DEF Reading
<1>3. args \in Seq(Arguments) /\ DOMAIN args = 1 .. Len(args) /\ Len(args) \in Nat
      /\ used \in 0 .. Len(args)
  BY CommandLine DEF TypeOK
<1>4. opt' \in OptionSet
  <2>1. used # Len(args) => args[used + 1] \in Arguments
    <3>1. used # Len(args) => used + 1 \in 1 .. Len(args)
      <4>1. PICK l \in Nat : l = Len(args)
        BY <1>3
      <4>2. used \in 0 .. l
        BY <1>3, <4>1
      <4> QED
        BY <4>1, <4>2
    <3>2. \A i \in 1 .. Len(args) : args[i] \in Arguments
      BY <1>3
    <3> QED
      BY <3>1, <3>2
  <2> QED
    BY <1>1, <2>1, ApplyType DEF LastOptions, TypeOK
<1>5. TypeOK'
  BY <1>1, <1>4 DEF TypeOK
<1>6. Bad
  <2>1. \A i \in 1 .. used : i \in Options
    BY <1>3 DEF Reading, IsOption, Options
  <2>2. CASE opt.error
    <3>1. PICK i \in 1 .. used : IsBad(args[i])
      BY <1>1, <2>2 DEF Parsing, IsRead, BadIn
    <3> QED
      BY <2>1, <3>1 DEF Bad, IsBad
  <2>3. CASE ~opt.error
    <3>0. used # Len(args) /\ Apply(opt, args[used + 1]).error
      BY <2>3 DEF Usage, LastOptions
    <3>1. used < Len(args) /\ ~IsOption(args[used + 1]) /\ Apply(opt, args[used + 1]).error
      <4>1. PICK l \in Nat : l = Len(args)
        BY <1>3
      <4>2. used \in 0 .. l
        BY <1>3, <4>1
      <4>3. used < Len(args)
        BY <3>0, <4>1, <4>2
      <4> QED
        BY <3>0, <4>3 DEF Usage, Parsed
    <3>2. args[used + 1].form # "mask"
      BY <2>3, <3>1 DEF Apply
    <3>3. args[used + 1].form = "--unknown"
      BY <3>1, <3>2 DEF IsOption
    <3>4. used + 1 \in Options
      <4>1. \A j \in 1 .. used + 1 : j \in 1 .. used \/ j = used + 1
        BY <1>3
      <4> QED
        BY <1>3, <3>1, <3>2, <4>1 DEF Reading, IsOption, Options
    <3> QED
      BY <3>3, <3>4 DEF Bad
  <2> QED
    BY <2>2, <2>3
<1>7. Bad'
  BY <1>1, <1>6 DEF Bad, Options
<1>8. Parsing' /\ Running' /\ Exited'
  BY <1>1, <1>7 DEF Parsing, Running, Exited
<1> QED
  BY <1>2, <1>5, <1>8

LEMMA RunTestsInv ==
    ASSUME DriverInv, RunTests
    PROVE  DriverInv'
<1> USE DEF DriverInv
<1>1. args' = args /\ pc' = "run" /\ pc = "parse" /\ code' = code /\ test' = test
      /\ stt' = stt /\ ran' = ran /\ used' = used /\ opt' = opt /\ masks' = Masks
  BY DEF RunTests
<1>2. Reading' /\ TypeOK'
  BY <1>1 DEF Reading, TypeOK
<1>3. Parsed' /\ ~LastOptions'.error /\ Masks' = Masks
  BY <1>1 DEF RunTests, Parsed, LastOptions, Masks
<1>4. IsRead(opt, args, used) /\ ran = <<>> /\ stt = NoTime /\ test = 1 /\ code = 0
  BY <1>1 DEF Parsing
<1>5. Masks \in Seq(MaskSet) /\ Len(Masks) \in Nat \ {0}
  BY MasksType DEF TypeOK
<1>6. Place' = 0
  BY <1>1, <1>3, <1>5 DEF Place
<1>7. MasksLeft'
  BY <1>1, <1>3, <1>4, <1>5, <1>6 DEF MasksLeft
<1>8. IsDone(opt.big_test, Masks, Place' + 1, 1, <<>>)
  <2>1. Place' + 1 = 1
    BY <1>6
  <2>2. IsDone(opt.big_test, Masks, 1, 1, <<>>)
    BY NothingDone
  <2> QED
    BY Zenon, <2>1, <2>2
<1>9. Timed(opt.int32api, NoTime, <<>>)
  BY NothingTimed DEF TypeOK, OptionSet
<1>10. Running'
  BY <1>1, <1>3, <1>4, <1>7, <1>8, <1>9 DEF Running
<1>11. Parsing' /\ Exited'
  BY <1>1, <1>4 DEF Parsing, Exited
<1> QED
  BY <1>2, <1>10, <1>11

(* The mask that is at hand. *)
LEMMA MaskAtHand ==
    ASSUME DriverInv, pc = "run", masks # <<>>
    PROVE  /\ Place \in Nat /\ Place + 1 \in 1 .. Len(Masks)
           /\ Head(masks) = Masks[Place + 1]
           /\ MasksLeft /\ Len(masks) \in Nat \ {0} /\ Masks \in Seq(MaskSet)
<1>1. MasksLeft
  BY DEF DriverInv, Running
<1>2. Masks \in Seq(MaskSet) /\ Len(Masks) \in Nat \ {0}
  BY MasksType DEF DriverInv, TypeOK
<1>3. Len(masks) \in Nat \ {0} /\ Head(masks) = masks[1]
  <2>1. masks \in Seq(MaskSet)
    BY <1>1 DEF MasksLeft
  <2> QED
    BY <2>1
<1>4. Place \in Nat /\ Place + 1 \in 1 .. Len(Masks)
  BY <1>1, <1>2, <1>3 DEF MasksLeft, Place
<1>5. masks[1] = Masks[Place + 1]
  BY <1>1, <1>3 DEF MasksLeft
<1> QED
  BY <1>1, <1>2, <1>3, <1>4, <1>5

LEMMA RunTestInv ==
    ASSUME DriverInv, RunTest
    PROVE  DriverInv'
<1> USE DEF DriverInv
<1>1. args' = args /\ pc' = "run" /\ pc = "run" /\ code' = code /\ test' = test + 1
      /\ used' = used /\ opt' = opt /\ masks' = masks /\ masks # <<>>
  BY DEF RunTest
<1>2. Masks' = Masks /\ Place' = Place
  BY <1>1 DEF Masks, Place
<1>3. /\ Place \in Nat /\ Place + 1 \in 1 .. Len(Masks) /\ Head(masks) = Masks[Place + 1]
      /\ MasksLeft
  BY <1>1, MaskAtHand
<1>4. PICK c, t, M, big, r, api, s :
        /\ c = Place + 1 /\ t = test /\ M = Masks /\ big = opt.big_test /\ r = ran
        /\ api = opt.int32api /\ s = stt
  OBVIOUS
<1>5. t \in 1 .. Random
  BY <1>4, RandomPlace DEF RunTest, TypeOK
<1>6. ran' = Append(r, <<c, t>>)
  BY <1>4, <1>5, <1>3 DEF RunTest, Place
<1>7. r \in Seq(Runs) /\ <<c, t>> \in Runs
  BY <1>3, <1>4, <1>5 DEF Runs, TypeOK
<1>8. IsDone(big, M, c, t + 1, Append(r, <<c, t>>))
  <2>1. IsDone(big, M, c, t, r)
    BY <1>1, <1>4 DEF Running
  <2>2. MatchesBy(big, t, M[c])
    BY <1>3, <1>4 DEF RunTest, Matches, MatchesBy
  <2>3. c \in 1 .. Len(M)
    BY <1>3, <1>4
  <2> QED
    BY <1>5, <1>7, <2>1, <2>2, <2>3, TestDone
<1>9. stt' \in Stats /\ Timed(api, stt', Append(r, <<c, t>>))
  <2>1. PICK asked \in AsksOf(t) : stt' = Added(stt, Times(asked))
    BY <1>4 DEF RunTest
  <2>2. api \in BOOLEAN /\ s \in Stats /\ Timed(api, s, r)
    BY <1>1, <1>4 DEF TypeOK, OptionSet, Stats, Running
  <2>3. PICK e \in {0, 1} : /\ AsksRight(asked, api)
                            /\ Len(asked) = MeasuresOf(api, t) + e
                            /\ e = 1 => api /\ t = Random
    BY <1>4, <1>5, <2>2, AsksOfRight
  <2>4. PICK p \in Runs : p = <<c, t>> /\ p[2] = t
    BY <1>7
  <2>5. PICK z : z = asked
    OBVIOUS
  <2>6. AsksRight(z, api) /\ Len(z) = MeasuresOf(api, p[2]) + e
    BY <2>3, <2>4, <2>5
  <2>7. e = 1 => api /\ p[2] = Random
    BY <2>3, <2>4
  <2>8. Added(s, Times(z)) \in Stats /\ Timed(api, Added(s, Times(z)), Append(r, p))
    BY <1>7, <2>2, <2>6, <2>7, TimedMore
  <2> QED
    BY Zenon, <1>4, <2>1, <2>4, <2>5, <2>8
<1>10. TypeOK'
  <2>1. ran' \in Seq(Nat \X (1 .. Random))
    BY <1>6, <1>7 DEF Runs
  <2>2. test' \in 1 .. Random + 1
    BY <1>1, <1>4, <1>5, RandomPlace
  <2> QED
    BY <1>1, <1>9, <2>1, <2>2 DEF TypeOK, Stats
<1>11. MasksLeft'
  BY <1>1, <1>2, <1>3 DEF MasksLeft
<1>12. Parsed' /\ ~LastOptions'.error /\ IsRead(opt', args', used')
  BY <1>1 DEF Running, Parsed, LastOptions
<1>13. Running'
  <2>1. IsDone(opt.big_test, Masks, Place + 1, test', ran')
    BY Zenon, <1>1, <1>4, <1>6, <1>8
  <2>2. Timed(opt.int32api, stt', ran')
    BY Zenon, <1>4, <1>6, <1>9
  <2> QED
    BY <1>1, <1>2, <1>11, <1>12, <2>1, <2>2 DEF Running
<1>14. Reading' /\ Parsing' /\ Exited'
  BY <1>1 DEF Reading, Parsing, Exited
<1> QED
  BY <1>10, <1>13, <1>14

LEMMA SkipTestInv ==
    ASSUME DriverInv, SkipTest
    PROVE  DriverInv'
<1> USE DEF DriverInv
<1>1. args' = args /\ pc' = "run" /\ pc = "run" /\ code' = code /\ test' = test + 1
      /\ used' = used /\ opt' = opt /\ masks' = masks /\ masks # <<>> /\ stt' = stt /\ ran' = ran
  BY DEF SkipTest
<1>2. Masks' = Masks /\ Place' = Place
  BY <1>1 DEF Masks, Place
<1>3. /\ Place \in Nat /\ Place + 1 \in 1 .. Len(Masks) /\ Head(masks) = Masks[Place + 1]
      /\ MasksLeft
  BY <1>1, MaskAtHand
<1>4. PICK c, t, M, big, r :
        c = Place + 1 /\ t = test /\ M = Masks /\ big = opt.big_test /\ r = ran
  OBVIOUS
<1>5. t \in 1 .. Random
  BY <1>4, RandomPlace DEF SkipTest, TypeOK
<1>6. IsDone(big, M, c, t + 1, r)
  <2>1. IsDone(big, M, c, t, r)
    BY <1>1, <1>4 DEF Running
  <2>2. ~MatchesBy(big, t, M[c])
    BY <1>3, <1>4 DEF SkipTest, Matches, MatchesBy
  <2>3. c \in 1 .. Len(M)
    BY <1>3, <1>4
  <2> QED
    BY <1>5, <2>1, <2>2, <2>3, TestSkipped
<1>7. TypeOK'
  <2>1. test' \in 1 .. Random + 1
    BY <1>1, <1>4, <1>5, RandomPlace
  <2> QED
    BY <1>1, <2>1 DEF TypeOK
<1>8. MasksLeft'
  BY <1>1, <1>2, <1>3 DEF MasksLeft
<1>9. Parsed' /\ ~LastOptions'.error /\ IsRead(opt', args', used')
  BY <1>1 DEF Running, Parsed, LastOptions
<1>10. Running'
  <2>1. IsDone(opt.big_test, Masks, Place + 1, test', ran')
    BY Zenon, <1>1, <1>4, <1>6
  <2>2. Timed(opt.int32api, stt', ran')
    BY <1>1 DEF Running
  <2> QED
    BY <1>1, <1>2, <1>8, <1>9, <2>1, <2>2 DEF Running
<1>11. Reading' /\ Parsing' /\ Exited'
  BY <1>1 DEF Reading, Parsing, Exited
<1> QED
  BY <1>7, <1>10, <1>11

LEMMA NextMaskInv ==
    ASSUME DriverInv, NextMask
    PROVE  DriverInv'
<1> USE DEF DriverInv
<1>1. args' = args /\ pc' = "run" /\ pc = "run" /\ code' = code /\ test' = 1
      /\ used' = used /\ opt' = opt /\ masks' = Tail(masks) /\ masks # <<>>
      /\ stt' = stt /\ ran' = ran
  BY DEF NextMask
<1>2. Masks' = Masks
  BY <1>1 DEF Masks
<1>3. /\ Place \in Nat /\ Place + 1 \in 1 .. Len(Masks) /\ Head(masks) = Masks[Place + 1]
      /\ MasksLeft /\ Len(masks) \in Nat \ {0}
  BY <1>1, MaskAtHand
<1>4. Len(Masks) \in Nat
  BY MasksType DEF TypeOK
<1>5. /\ masks' \in Seq(MaskSet) /\ Len(masks') = Len(masks) - 1
      /\ \A k \in 1 .. Len(masks) - 1 : masks'[k] = masks[k + 1]
  <2>1. masks \in Seq(MaskSet)
    BY <1>3 DEF MasksLeft
  <2> QED
    BY <1>1, <1>3, <2>1, HeadTailProperties
<1>6. Place' = Place + 1
  BY <1>2, <1>3, <1>4, <1>5 DEF Place
<1>7. MasksLeft'
  <2>1. \A k \in 1 .. Len(masks) - 1 : k + 1 \in 1 .. Len(masks) /\ Place + (k + 1) = (Place + 1) + k
    BY <1>3
  <2>2. \A k \in 1 .. Len(masks) - 1 : masks'[k] = Masks[(Place + 1) + k]
    BY <1>3, <1>5, <2>1 DEF MasksLeft
  <2>3. Len(masks') <= Len(Masks)
    BY <1>3, <1>4, <1>5 DEF MasksLeft
  <2> QED
    BY <1>1, <1>2, <1>5, <1>6, <2>2, <2>3 DEF MasksLeft
<1>8. IsDone(opt.big_test, Masks, Place' + 1, 1, ran)
  <2>1. PICK c, M, big, r : c = Place + 1 /\ M = Masks /\ big = opt.big_test /\ r = ran
    OBVIOUS
  <2>2. test = Random + 1
    BY <1>1, RandomPlace DEF NextMask, TypeOK
  <2>3. IsDone(big, M, c, Random + 1, r)
    BY <1>1, <2>1, <2>2 DEF Running
  <2>4. c \in 1 .. Len(M)
    BY <1>3, <2>1
  <2>5. IsDone(big, M, c + 1, 1, r)
    BY <2>3, <2>4, MaskDone
  <2>6. Place' + 1 = c + 1
    BY <1>6, <2>1
  <2> QED
    BY Zenon, <2>1, <2>5, <2>6
<1>9. TypeOK'
  BY <1>1, RandomPlace DEF TypeOK
<1>10. Parsed' /\ ~LastOptions'.error /\ IsRead(opt', args', used')
  BY <1>1 DEF Running, Parsed, LastOptions
<1>11. Running'
  <2>1. Timed(opt.int32api, stt', ran')
    BY <1>1 DEF Running
  <2> QED
    BY <1>1, <1>2, <1>7, <1>8, <1>10, <2>1 DEF Running
<1>12. Reading' /\ Parsing' /\ Exited'
  BY <1>1 DEF Reading, Parsing, Exited
<1> QED
  BY <1>9, <1>11, <1>12

LEMMA FinishInv ==
    ASSUME DriverInv, Finish \/ UNCHANGED driverVars
    PROVE  DriverInv'
<1> USE DEF DriverInv
<1>1. args' = args /\ code' = code /\ test' = test /\ used' = used /\ opt' = opt
      /\ masks' = masks /\ stt' = stt /\ ran' = ran
      /\ (pc' = pc \/ (pc = "run" /\ pc' = "exit" /\ masks = <<>>))
  BY DEF Finish, driverVars
<1>2. Masks' = Masks /\ Place' = Place
  BY <1>1 DEF Masks, Place
<1>3. Reading' /\ TypeOK' /\ Parsing'
  BY <1>1 DEF Reading, TypeOK, Parsing
<1>4. Bad' = Bad
  BY <1>1 DEF Bad, Options
<1>5. Exited'
  BY <1>1, <1>4 DEF Exited
<1>6. MasksLeft' = MasksLeft /\ Parsed' = Parsed /\ LastOptions' = LastOptions
  BY <1>1, <1>2 DEF MasksLeft, Parsed, LastOptions
<1>7. pc' = "run" \/ (pc' = "exit" /\ code' = 0) => pc = "run" \/ (pc = "exit" /\ code = 0)
  BY <1>1 DEF Exited
<1>8. Running'
  BY <1>1, <1>2, <1>6, <1>7 DEF Running
<1> QED
  BY <1>3, <1>5, <1>8

LEMMA NextInv == DriverInv /\ [Next]_driverVars => DriverInv'
  BY ParseOptionInv, UsageInv, RunTestsInv, RunTestInv, SkipTestInv, NextMaskInv, FinishInv DEF Next

-----------------------------------------------------------------------------
(* What the properties say of the command line is what was read.           *)
LEMMA AllRead ==
    ASSUME DriverInv, pc = "exit", code = 0
    PROVE  /\ ~Bad /\ Asked = Masks
           /\ Int32 = opt.int32api
           /\ BigTest = BigIn(args, used)
           /\ IsRead(opt, args, used)
<1> USE DEF DriverInv
<1>1. args \in Seq(Arguments) /\ DOMAIN args = 1 .. Len(args) /\ Len(args) \in Nat
  BY CommandLine
<1>2. PICK l \in Nat : l = Len(args)
  BY <1>1
<1>3. PICK n \in 0 .. l : n = used
  BY <1>2 DEF TypeOK
<1>4. IsRead(opt, args, n) /\ Parsed /\ ~LastOptions.error
  BY <1>3 DEF Running
<1>5. \A i \in 1 .. n : args[i].form # "mask"
  BY <1>3 DEF Reading, IsOption
<1>6. n < l => args[n + 1].form = "mask"
  <2>1. ASSUME n < l
        PROVE  args[n + 1].form \in {"--unknown", "mask"} /\ ~Apply(opt, args[n + 1]).error
    BY <1>2, <1>3, <1>4, <2>1 DEF Parsed, IsOption, LastOptions
  <2>2. args[n + 1].form = "--unknown" => Apply(opt, args[n + 1]).error
    BY DEF Apply, TypeOK, OptionSet
  <2> QED
    BY <2>1, <2>2
<1>7. ~opt.error
  <2>1. CASE n = l
    BY <1>2, <1>3, <1>4, <2>1 DEF LastOptions
  <2>2. CASE n < l
    <3>1. Apply(opt, args[n + 1]) = opt
      BY <1>6, <2>2 DEF Apply
    <3> QED
      BY <1>2, <1>3, <1>4, <2>2, <3>1 DEF LastOptions
  <2> QED
    BY <2>1, <2>2
<1>8. Options = 1 .. n
  <2>1. ASSUME NEW i \in 1 .. l
        PROVE  i \in 1 .. n <=> \A j \in 1 .. i : args[j].form # "mask"
    <3>1. i \in 1 .. n => \A j \in 1 .. i : j \in 1 .. n
      OBVIOUS
    <3>2. i \notin 1 .. n => n < l /\ n + 1 \in 1 .. i
      OBVIOUS
    <3> QED
      BY <1>5, <1>6, <3>1, <3>2
  <2>2. \A i \in 1 .. n : i \in 1 .. l
    OBVIOUS
  <2> QED
    BY <1>1, <1>2, <2>1, <2>2 DEF Options
<1>9. Cardinality(Options) = n
  BY <1>8, FS_Interval
<1>10. ~Bad
  <2>1. ~BadIn(args, n)
    BY <1>4, <1>7 DEF IsRead
  <2> QED
    BY <1>8, <2>1 DEF Bad, BadIn, IsBad
<1>11. Asked = Masks
  BY <1>3, <1>9 DEF Asked, Masks
<1>12. \A forms : LastOf(forms) = LastIn(args, n, forms)
  BY <1>8 DEF LastOf, LastIn
<1>13. Int32 = Int32In(args, n)
  BY <1>12 DEF Int32, Int32In, IntForms
<1>14. BigTest = BigIn(args, n)
  BY <1>8, <1>12 DEF BigTest, BigIn, BigCount
<1> QED
  BY <1>3, <1>4, <1>10, <1>11, <1>13, <1>14 DEF IsRead

(* The big test is asked for by any number but none, the others by 0 and 1, *)
(* although an uint holds the number.                                       *)
LEMMA ChosenMatches ==
    ASSUME DriverInv, pc = "exit", code = 0
    PROVE  \A k, i : Chosen(k, i) <=> MatchesBy(opt.big_test, i, Masks[k])
<1>1. PICK b : b = BigTest
  OBVIOUS
<1>2. PICK n \in Nat, l \in Nat : n = used /\ l = Len(args) /\ n <= l
  <2>1. PICK l \in Nat : l = Len(args)
    BY CommandLine DEF DriverInv
  <2>2. PICK n \in 0 .. l : n = used
    BY <2>1 DEF DriverInv, TypeOK
  <2>3. n \in Nat /\ n <= l
    OBVIOUS
  <2> QED
    BY <2>1, <2>2, <2>3
<1>3. l <= Half
  BY <1>2, OptionBounds DEF DriverInv, Reading, Half
<1>4. b \in -Half .. Half - 1 + n
  <2>1. b = BigIn(args, n)
    BY <1>1, <1>2, AllRead
  <2>2. PICK line \in CommandLines : line = args
    BY DEF DriverInv, Reading
  <2>3. BigIn(line, n) \in -Half .. Half - 1 + n
    BY <1>2, <2>2, BigBounds
  <2> QED
    BY <2>1, <2>2, <2>3
<1>5. opt.big_test = AsUint(b)
  BY <1>1, AllRead DEF IsRead
<1>6. (AsUint(b) > 0 <=> b # 0) /\ (AsUint(b) < 2 <=> b \in {0, 1})
  BY <1>2, <1>3, <1>4, UintHalf DEF AsUint
<1>7. Asked = Masks
  BY AllRead
<1> QED
  BY <1>1, <1>5, <1>6, <1>7 DEF Chosen, MatchesBy

LEMMA RanAsAsked == DriverInv => RunsWhatWasAsked
<1> SUFFICES ASSUME DriverInv, pc = "exit"
             PROVE  RunsWhatWasAsked
  BY DEF RunsWhatWasAsked
<1>1. CASE code = 0
  <2>1. ~Bad /\ Asked = Masks
    BY <1>1, AllRead
  <2>2. IsDone(opt.big_test, Masks, Place + 1, test, ran) /\ MasksLeft /\ masks = <<>> /\ test = 1
    BY <1>1 DEF DriverInv, Running, Exited, MasksLeft
  <2>3. PICK n \in Nat : n = Len(Masks) /\ DOMAIN Masks = 1 .. n
    <3>1. Masks \in Seq(MaskSet)
      BY MasksType DEF DriverInv, TypeOK
    <3> QED
      BY <3>1, LenProperties
  <2>4. Place + 1 = n + 1
    <3>1. Len(masks) = 0
      BY <2>2
    <3> QED
      BY <2>3, <3>1 DEF Place
  <2>5. \A p \in (1 .. n) \X (1 .. Random) : Before(p, <<n + 1, 1>>)
    BY DEF Before
  <2>6. \A p \in (1 .. n) \X (1 .. Random) :
          Chosen(p[1], p[2]) <=> MatchesBy(opt.big_test, p[2], Masks[p[1]])
    BY <1>1, ChosenMatches
  <2>7. RunsBefore(opt.big_test, Masks, n + 1, 1) =
          {p \in (1 .. n) \X (1 .. Random) : Chosen(p[1], p[2])}
    BY <2>3, <2>5, <2>6 DEF RunsBefore
  <2>8. IsDone(opt.big_test, Masks, n + 1, 1, ran)
    BY Zenon, <2>2, <2>4
  <2>9. /\ {ran[j] : j \in DOMAIN ran} = {p \in (1 .. n) \X (1 .. Random) : Chosen(p[1], p[2])}
        /\ \A j, l \in DOMAIN ran : j < l => Before(ran[j], ran[l])
    BY <2>7, <2>8 DEF IsDone
  <2>10. DOMAIN Asked = 1 .. n
    BY <2>1, <2>3
  <2> QED
    BY Zenon, <1>1, <2>1, <2>9, <2>10 DEF RunsWhatWasAsked
<1>2. CASE code # 0
  BY <1>2 DEF DriverInv, TypeOK, Exited, RunsWhatWasAsked
<1> QED
  BY <1>1, <1>2

LEMMA LoopsTimed == DriverInv => EveryLoopIsTimed
<1> SUFFICES ASSUME DriverInv, pc = "exit"
             PROVE  EveryLoopIsTimed
  BY DEF EveryLoopIsTimed
<1>1. PICK api : api = Int32
  OBVIOUS
<1>2. api \in BOOLEAN
  BY <1>1 DEF Int32
<1>3. Timed(api, stt, ran)
  <2>1. CASE code = 0
    BY <1>1, <2>1, AllRead DEF DriverInv, Running
  <2>2. CASE code # 0
    <3>1. ran = <<>> /\ stt = NoTime
      BY <2>2 DEF DriverInv, Exited
    <3>2. Timed(api, NoTime, <<>>)
      BY <1>2, NothingTimed
    <3> QED
      BY Zenon, <3>1, <3>2
  <2> QED
    BY <2>1, <2>2
<1>4. LoopsRun = Cardinality(LoopPlaces(api, ran))
  BY <1>1 DEF LoopsRun, LoopPlaces, Measurements, MeasuresOf
<1>5. PICK n \in 0 .. Cardinality({j \in DOMAIN ran : ran[j][2] = Random}) :
        /\ api \/ n = 0
        /\ \A m \in Groups : Total(stt)[m] = (Cardinality(LoopPlaces(api, ran)) + n) * LoopTime[m]
        /\ stt["int32"] = IF api THEN stt["longlong"] ELSE NoTime["int32"]
  BY <1>3 DEF Timed, RandomPlaces
<1> QED
  BY <1>1, <1>4, <1>5 DEF EveryLoopIsTimed

LEMMA DriverInvariant == Spec => []DriverInv
<1>1. Init => DriverInv
  BY InitInv
<1>2. DriverInv /\ [Next]_driverVars => DriverInv'
  BY NextInv
<1> QED
  BY <1>1, <1>2, PTL DEF Spec

(* The options stay within an uint and an ulonglong, whichever numbers the *)
(* arguments hold, the place in the table within it and the times numbers. *)
THEOREM DriverTypes == Spec => []TypeOK
<1>1. DriverInv => TypeOK
  BY DEF DriverInv
<1> QED
  BY <1>1, DriverInvariant, PTL

(* For every command line: ./test exits                                    *)
(* with 0 having run exactly the tests each of its masks asks for, in      *)
(* their order, or with 1 and none if an option is bad.                    *)
THEOREM DriverRuns == Spec => []RunsWhatWasAsked
  BY DriverInvariant, RanAsAsked, PTL

(* The total over all types has each loop that ran once, and the time of   *)
(* the int32 methods is that of the longlong methods or none.              *)
THEOREM DriverTimes == Spec => []EveryLoopIsTimed
  BY DriverInvariant, LoopsTimed, PTL
=============================================================================
