--------------------------- MODULE ArithmeticProofs ---------------------------
(***************************************************************************)
(* Facts about natural numbers that the other proofs rest on: the least    *)
(* and the greatest element of a set, which say where a replay stops and   *)
(* which of several saved entries stays; induction, for a set of numbers;  *)
(* and sums over the elements of a finite set, which are the offsets of    *)
(* arguments on a stack.                                                   *)
(***************************************************************************)
EXTENDS Integers, FiniteSets, FiniteSetsExt, FiniteSetTheorems, WellFoundedInduction, TLAPS

(* A set of natural numbers that is not empty has a least element. *)
LEMMA LeastNatural ==
    ASSUME NEW S \in SUBSET Nat, S # {}
    PROVE  \E x \in S : \A y \in S : x =< y
<1>1. PICK x \in S : \A y \in S : ~ (<<y, x>> \in OpToRel(<, Nat))
  BY WFMin, NatLessThanWellFounded
<1>2. \A y \in S : <<y, x>> \in Nat \X Nat
  OBVIOUS
<1>3. \A y \in S : ~(y < x)
  BY <1>1, <1>2 DEF OpToRel
<1> QED
  BY <1>3

(* Min is in the set and below its elements. *)
LEMMA MinProperty ==
    ASSUME NEW S \in SUBSET Nat, S # {}
    PROVE  /\ Min(S) \in S
           /\ \A y \in S : Min(S) <= y
BY LeastNatural DEF Min

(* A bounded set of natural numbers that is not empty has a greatest element: *)
(* the distances to the bound have a least one.                               *)
LEMMA MaxProperty ==
    ASSUME NEW S \in SUBSET Nat, S # {},
           NEW bound \in Nat, \A x \in S : x <= bound
    PROVE  /\ Max(S) \in S
           /\ \A y \in S : Max(S) >= y
<1> DEFINE D == {d \in 0 .. bound : bound - d \in S}
<1>1. ASSUME NEW x \in S PROVE bound - x \in D
  <2>1. x \in Nat /\ x <= bound
    OBVIOUS
  <2>2. bound - x \in 0 .. bound /\ bound - (bound - x) = x
    BY <2>1
  <2> QED
    BY <2>2
<1>2. D \in SUBSET Nat /\ D # {}
  <2>1. PICK x \in S : TRUE
    OBVIOUS
  <2>2. bound - x \in D
    BY <1>1
  <2>3. D \in SUBSET Nat
    OBVIOUS
  <2> QED
    BY <2>2, <2>3
<1>3. PICK d \in D : \A e \in D : d =< e
  BY <1>2, LeastNatural
<1>4. ASSUME NEW y \in S PROVE bound - d >= y
  <2>1. d <= bound - y
    BY <1>1, <1>3
  <2>2. y \in Nat /\ d \in Nat
    OBVIOUS
  <2> QED
    BY <2>1, <2>2
<1>5. bound - d \in S
  OBVIOUS
<1> QED
  BY <1>4, <1>5 DEF Max

(* Induction over the natural numbers, for a set. *)
LEMMA Induction ==
    ASSUME NEW S \in SUBSET Nat, 0 \in S, \A n \in S : n + 1 \in S
    PROVE  \A n \in Nat : n \in S
<1> SUFFICES ASSUME Nat \ S # {} PROVE FALSE
    OBVIOUS
<1>1. PICK n \in Nat \ S : \A m \in Nat \ S : n <= m
    BY LeastNatural
<1>2. n - 1 \in Nat /\ ~(n <= n - 1)
    OBVIOUS
<1>3. n - 1 \in S
    BY <1>1, <1>2
<1> QED BY <1>1, <1>3
------------------------------------------------------------------------------
(* The element a sum over s takes first. *)
First(s) == CHOOSE x \in s : TRUE

(* The function that SumFunctionOnSet defines by recursion over the sets  *)
(* of D satisfies its equation.                                           *)
IsSum(f, g, D) ==
    g = [s \in D |-> IF s = {} THEN 0 ELSE f[First(s)] + g[s \ {First(s)}]]

LEMMA SumIsChosen ==
    ASSUME NEW f, NEW S
    PROVE  SumFunctionOnSet(f, S) = (CHOOSE g : IsSum(f, g, SUBSET S))[S]
BY DEF SumFunctionOnSet, FoldFunctionOnSet, MapThenFoldSet, IsSum, First

UpTo(S, n) == {s \in SUBSET S : Cardinality(s) <= n}

LEMMA SmallerSets ==
    ASSUME NEW S, IsFiniteSet(S), NEW s \in SUBSET S
    PROVE  /\ IsFiniteSet(s) /\ Cardinality(s) \in Nat
           /\ Cardinality(s) = 0 <=> s = {}
           /\ \A x \in s : s \ {x} \in SUBSET S /\ Cardinality(s \ {x}) = Cardinality(s) - 1
           /\ s # {} => First(s) \in s
<1>1. IsFiniteSet(s)
    BY FS_Subset
<1>2. Cardinality(s) \in Nat
    BY <1>1, FS_CardinalityType
<1>3. Cardinality(s) = 0 <=> s = {}
    BY <1>1, FS_EmptySet
<1>4. \A x \in s : Cardinality(s \ {x}) = Cardinality(s) - 1
    BY <1>1, FS_RemoveElement
<1> QED BY <1>1, <1>2, <1>3, <1>4 DEF First

(* The recursion has a solution: one for the sets of at most n elements    *)
(* gives one for those of n + 1.                                           *)
LEMMA SumExists ==
    ASSUME NEW f, NEW S, IsFiniteSet(S)
    PROVE  \E g : IsSum(f, g, SUBSET S)
<1> DEFINE H == {n \in Nat : \E g : IsSum(f, g, UpTo(S, n))}
<1>1. 0 \in H
  <2>1. UpTo(S, 0) = {{}}
    <3>1. \A s \in SUBSET S : Cardinality(s) <= 0 <=> s = {}
        BY SmallerSets
    <3>2. {} \in SUBSET S
        OBVIOUS
    <3> QED BY <3>1, <3>2 DEF UpTo
  <2>2. IsSum(f, [s \in {{}} |-> 0], {{}})
      BY DEF IsSum
  <2> QED BY <2>1, <2>2
<1>2. ASSUME NEW n \in H PROVE n + 1 \in H
  <2>1. n \in Nat
      OBVIOUS
  <2>2. PICK g : IsSum(f, g, UpTo(S, n))
      OBVIOUS
  <2> DEFINE h == [s \in UpTo(S, n + 1) |->
                       IF s = {} THEN 0 ELSE f[First(s)] + g[s \ {First(s)}]]
  <2>3. ASSUME NEW s \in UpTo(S, n + 1), s # {}
        PROVE  s \ {First(s)} \in UpTo(S, n)
    <3>1. s \in SUBSET S /\ Cardinality(s) <= n + 1
        BY DEF UpTo
    <3>2. /\ Cardinality(s) \in Nat
          /\ s \ {First(s)} \in SUBSET S
          /\ Cardinality(s \ {First(s)}) = Cardinality(s) - 1
        BY <2>3, <3>1, SmallerSets
    <3>3. Cardinality(s) - 1 <= n
        BY <2>1, <3>1, <3>2
    <3> QED BY <3>2, <3>3 DEF UpTo
  <2>4. UpTo(S, n) \subseteq UpTo(S, n + 1)
    <3>1. \A s \in SUBSET S : Cardinality(s) <= n => Cardinality(s) <= n + 1
        BY <2>1, SmallerSets
    <3> QED BY <3>1 DEF UpTo
  <2>5. ASSUME NEW s \in UpTo(S, n) PROVE h[s] = g[s]
      BY <2>2, <2>4 DEF IsSum
  <2>6. \A s \in UpTo(S, n + 1) :
            h[s] = IF s = {} THEN 0 ELSE f[First(s)] + h[s \ {First(s)}]
      BY <2>3, <2>5
  <2>7. IsSum(f, h, UpTo(S, n + 1))
      BY <2>6 DEF IsSum
  <2> QED BY <2>1, <2>7
<1>3. \A n \in Nat : n \in H
  <2> HIDE DEF H
  <2>1. H \in SUBSET Nat
      BY DEF H
  <2> QED BY <1>1, <1>2, <2>1, Induction
<1>4. Cardinality(S) \in Nat
    BY FS_CardinalityType
<1>5. UpTo(S, Cardinality(S)) = SUBSET S
    BY FS_Subset DEF UpTo
<1> QED BY <1>3, <1>4, <1>5

LEMMA SumEquation ==
    ASSUME NEW f, NEW S, IsFiniteSet(S)
    PROVE  \E g : IsSum(f, g, SUBSET S) /\ SumFunctionOnSet(f, S) = g[S]
BY SumExists, SumIsChosen

(* Two sums over a set are equal when what they add is equal, in whatever  *)
(* sets the two recursions started.                                        *)
LEMMA SumsAgree ==
    ASSUME NEW S, NEW T \in SUBSET S, IsFiniteSet(S), NEW f, NEW f2,
           \A x \in T : f[x] = f2[x],
           NEW g, NEW h, IsSum(f, g, SUBSET S), IsSum(f2, h, SUBSET T)
    PROVE  \A s \in SUBSET T : g[s] = h[s]
<1> DEFINE H == {n \in Nat : \A s \in SUBSET T : Cardinality(s) = n => g[s] = h[s]}
<1>1. \A s \in SUBSET T :
          /\ g[s] = IF s = {} THEN 0 ELSE f[First(s)] + g[s \ {First(s)}]
          /\ h[s] = IF s = {} THEN 0 ELSE f2[First(s)] + h[s \ {First(s)}]
    BY DEF IsSum
<1>2. IsFiniteSet(T)
    BY FS_Subset
<1>3. 0 \in H
    BY <1>1, <1>2, SmallerSets
<1>4. ASSUME NEW n \in H PROVE n + 1 \in H
  <2> SUFFICES ASSUME NEW s \in SUBSET T, Cardinality(s) = n + 1 PROVE g[s] = h[s]
      OBVIOUS
  <2>1. s # {} /\ First(s) \in s /\ s \ {First(s)} \in SUBSET T
          /\ Cardinality(s \ {First(s)}) = n
      BY <1>2, SmallerSets
  <2>2. g[s \ {First(s)}] = h[s \ {First(s)}]
      BY <2>1
  <2> QED BY <1>1, <2>1, <2>2
<1>5. \A n \in Nat : n \in H
  <2> HIDE DEF H
  <2>1. H \in SUBSET Nat
      BY DEF H
  <2> QED BY <1>3, <1>4, <2>1, Induction
<1> QED BY <1>2, <1>5, SmallerSets

LEMMA SumEqual ==
    ASSUME NEW S, IsFiniteSet(S), NEW f, NEW f2, \A x \in S : f[x] = f2[x]
    PROVE  SumFunctionOnSet(f, S) = SumFunctionOnSet(f2, S)
<1>1. PICK g : IsSum(f, g, SUBSET S) /\ SumFunctionOnSet(f, S) = g[S]
    BY SumEquation
<1>2. PICK h : IsSum(f2, h, SUBSET S) /\ SumFunctionOnSet(f2, S) = h[S]
    BY SumEquation
<1> QED BY <1>1, <1>2, SumsAgree

LEMMA SumEmpty ==
    ASSUME NEW f
    PROVE  SumFunctionOnSet(f, {}) = 0
<1>1. PICK g : IsSum(f, g, SUBSET {}) /\ SumFunctionOnSet(f, {}) = g[{}]
    BY SumEquation, FS_EmptySet
<1>2. g[{}] = 0
    BY <1>1 DEF IsSum
<1> QED BY <1>1, <1>2

LEMMA SumFirst ==
    ASSUME NEW S, IsFiniteSet(S), S # {}, NEW f
    PROVE  SumFunctionOnSet(f, S) = f[First(S)] + SumFunctionOnSet(f, S \ {First(S)})
<1> DEFINE T == S \ {First(S)}
<1>1. PICK g : IsSum(f, g, SUBSET S) /\ SumFunctionOnSet(f, S) = g[S]
    BY SumEquation
<1>2. T \in SUBSET S /\ IsFiniteSet(T)
    BY FS_Subset
<1>3. PICK h : IsSum(f, h, SUBSET T) /\ SumFunctionOnSet(f, T) = h[T]
    BY <1>2, SumEquation
<1>4. g[T] = h[T]
  <2> HIDE DEF T
  <2> QED BY <1>1, <1>2, <1>3, SumsAgree
<1>5. g[S] = f[First(S)] + g[T]
    BY <1>1 DEF IsSum
<1> QED BY <1>1, <1>3, <1>4, <1>5

LEMMA SumType ==
    ASSUME NEW S, IsFiniteSet(S), NEW f, \A x \in S : f[x] \in Nat
    PROVE  SumFunctionOnSet(f, S) \in Nat
<1> DEFINE H == {n \in Nat : \A s \in SUBSET S :
                     Cardinality(s) = n => SumFunctionOnSet(f, s) \in Nat}
<1>1. 0 \in H
  <2>1. \A s \in SUBSET S : Cardinality(s) = 0 => s = {}
      BY SmallerSets
  <2>2. SumFunctionOnSet(f, {}) \in Nat
      BY SumEmpty
  <2> QED BY <2>1, <2>2
<1>2. ASSUME NEW n \in H PROVE n + 1 \in H
  <2> SUFFICES ASSUME NEW s \in SUBSET S, Cardinality(s) = n + 1
               PROVE  SumFunctionOnSet(f, s) \in Nat
      OBVIOUS
  <2>1. /\ s # {} /\ First(s) \in s /\ s \ {First(s)} \in SUBSET S
        /\ Cardinality(s \ {First(s)}) = n /\ IsFiniteSet(s)
      BY SmallerSets
  <2>2. SumFunctionOnSet(f, s \ {First(s)}) \in Nat
      BY <2>1
  <2>3. SumFunctionOnSet(f, s) = f[First(s)] + SumFunctionOnSet(f, s \ {First(s)})
      BY <2>1, SumFirst
  <2> QED BY <2>1, <2>2, <2>3
<1>3. \A n \in Nat : n \in H
  <2> HIDE DEF H
  <2>1. H \in SUBSET Nat
      BY DEF H
  <2> QED BY <1>1, <1>2, <2>1, Induction
<1>4. S \in SUBSET S /\ Cardinality(S) \in Nat
    BY FS_CardinalityType
<1> QED BY <1>3, <1>4

(* A sum is that of any of its elements and of the others. *)
THEOREM SumRemove ==
    ASSUME NEW S, IsFiniteSet(S), NEW f, \A y \in S : f[y] \in Nat, NEW x \in S
    PROVE  SumFunctionOnSet(f, S) = f[x] + SumFunctionOnSet(f, S \ {x})
<1> DEFINE H == {n \in Nat : \A s \in SUBSET S, y \in S :
                     Cardinality(s) = n /\ y \in s =>
                         SumFunctionOnSet(f, s) = f[y] + SumFunctionOnSet(f, s \ {y})}
<1>1. 0 \in H
    BY SmallerSets
<1>2. ASSUME NEW n \in H PROVE n + 1 \in H
  <2> SUFFICES ASSUME NEW s \in SUBSET S, NEW y \in S, Cardinality(s) = n + 1, y \in s
               PROVE  SumFunctionOnSet(f, s) = f[y] + SumFunctionOnSet(f, s \ {y})
      OBVIOUS
  <2> DEFINE z == First(s)
  <2>1. /\ IsFiniteSet(s) /\ z \in s
        /\ s \ {z} \in SUBSET S /\ Cardinality(s \ {z}) = n
        /\ s \ {y} \in SUBSET S /\ Cardinality(s \ {y}) = n
      BY SmallerSets
  <2>2. SumFunctionOnSet(f, s) = f[z] + SumFunctionOnSet(f, s \ {z})
      BY <2>1, SumFirst
  <2>3. CASE y = z
      BY <2>2, <2>3
  <2>4. CASE y # z
    <3> HIDE DEF z
    <3> DEFINE rest == SumFunctionOnSet(f, (s \ {z}) \ {y})
    <3>1. SumFunctionOnSet(f, s \ {z}) = f[y] + rest
        BY <2>1, <2>4
    <3>2. SumFunctionOnSet(f, s \ {y}) = f[z] + SumFunctionOnSet(f, (s \ {y}) \ {z})
        BY <2>1, <2>4
    <3>3. (s \ {y}) \ {z} = (s \ {z}) \ {y}
        OBVIOUS
    <3>4. rest \in Nat
      <4>1. (s \ {z}) \ {y} \in SUBSET S
          OBVIOUS
      <4>2. IsFiniteSet((s \ {z}) \ {y})
          BY <4>1, FS_Subset
      <4> QED BY <4>1, <4>2, SumType
    <3>5. f[y] \in Nat /\ f[z] \in Nat
        BY <2>1
    <3> HIDE DEF rest
    <3>6. SumFunctionOnSet(f, s \ {y}) = f[z] + rest
        BY <3>2, <3>3 DEF rest
    <3> QED BY <2>2, <3>1, <3>4, <3>5, <3>6
  <2> QED BY <2>3, <2>4
<1>3. \A n \in Nat : n \in H
  <2> HIDE DEF H
  <2>1. H \in SUBSET Nat
      BY DEF H
  <2> QED BY <1>1, <1>2, <2>1, Induction
<1>4. S \in SUBSET S /\ Cardinality(S) \in Nat
    BY FS_CardinalityType
<1> QED BY <1>3, <1>4
===============================================================================
