------------------------------ MODULE SumTheorems ------------------------------
(***************************************************************************)
(* Facts about SumFunctionOnSet of the community modules, on finite sets   *)
(* and integers: the conservation laws of the other modules rest on them.  *)
(* Induction over the subsets of a finite set is stated for a set of good  *)
(* subsets, so that it is a first-order fact.                              *)
(***************************************************************************)
EXTENDS Functions, FiniteSetTheorems, WellFoundedInduction, TLAPS

LEMMA LeastNumber ==
    ASSUME NEW C \in SUBSET Nat, C # {}
    PROVE  \E n \in C : \A m \in C : n <= m
<1>1. PICK n \in C : \A m \in C : <<m, n>> \notin OpToRel(<, Nat)
  BY NatLessThanWellFounded, WFMin
<1>2. \A m \in C : ~(m < n)
  BY <1>1 DEF OpToRel
<1> QED
  BY <1>2

\* Every subset of a finite set is good if it is whenever all smaller ones are.
LEMMA SubsetInduction ==
    ASSUME NEW W, IsFiniteSet(W), NEW G,
           \A S \in SUBSET W : (\A T \in SUBSET S : T # S => T \in G) => S \in G
    PROVE  \A S \in SUBSET W : S \in G
<1> SUFFICES ASSUME NEW B \in SUBSET W, B \notin G PROVE FALSE
  OBVIOUS
<1> DEFINE C == {Cardinality(T) : T \in {U \in SUBSET W : U \notin G}}
<1>1. \A T \in SUBSET W : IsFiniteSet(T) /\ Cardinality(T) \in Nat
  BY FS_Subset, FS_CardinalityType
<1>2. C \in SUBSET Nat /\ C # {}
  BY <1>1
<1>3. PICK n \in C : \A m \in C : n <= m
  BY <1>2, LeastNumber
<1>4. PICK S \in SUBSET W : S \notin G /\ Cardinality(S) = n
  BY <1>3
<1>5. ASSUME NEW T \in SUBSET S, T # S PROVE T \in G
  <2>1. Cardinality(T) < Cardinality(S)
    BY <1>1, <1>5, FS_Subset
  <2>2. T \in SUBSET W /\ Cardinality(T) \in Nat /\ Cardinality(S) \in Nat
    BY <1>1
  <2>3. Cardinality(T) \notin C
    BY <1>3, <1>4, <2>1, <2>2
  <2> QED
    BY <2>2, <2>3
<1> QED
  BY <1>4, <1>5

-----------------------------------------------------------------------------
(* The recursion behind the sum                                            *)

First(S) == CHOOSE x \in S : TRUE

LEMMA FirstIn == ASSUME NEW S, S # {} PROVE First(S) \in S
BY DEF First

Recursion(g, f, S) ==
    g = [s \in SUBSET S |-> IF s = {} THEN 0 ELSE f[First(s)] + g[s \ {First(s)}]]

LEMMA SumRecursion ==
    ASSUME NEW f, NEW S
    PROVE  SumFunctionOnSet(f, S) = (CHOOSE g : Recursion(g, f, S))[S]
BY DEF SumFunctionOnSet, FoldFunctionOnSet, MapThenFoldSet, Recursion, First

\* g follows the recursion on the subsets of S with at most n elements.
FollowsUpTo(g, f, S, n) ==
    \A T \in SUBSET S :
        Cardinality(T) <= n =>
            g[T] = IF T = {} THEN 0 ELSE f[First(T)] + g[T \ {First(T)}]

LEMMA FollowsFurther ==
    ASSUME NEW f, NEW S, IsFiniteSet(S), NEW n \in Nat, NEW g, FollowsUpTo(g, f, S, n)
    PROVE  \E h : FollowsUpTo(h, f, S, n + 1)
<1> DEFINE h == [T \in SUBSET S |-> IF Cardinality(T) <= n THEN g[T]
                                   ELSE f[First(T)] + g[T \ {First(T)}]]
<1>1. ASSUME NEW T \in SUBSET S, Cardinality(T) <= n + 1
      PROVE  h[T] = IF T = {} THEN 0 ELSE f[First(T)] + h[T \ {First(T)}]
  <2>1. IsFiniteSet(T) /\ Cardinality(T) \in Nat
    BY FS_Subset, FS_CardinalityType
  <2>2. CASE T = {}
    <3>1. Cardinality(T) <= n /\ g[T] = 0
      BY <2>2, FS_EmptySet DEF FollowsUpTo
    <3> QED
      BY <2>2, <3>1
  <2>3. CASE T # {}
    <3> DEFINE R == T \ {First(T)}
    <3>1. Cardinality(R) = Cardinality(T) - 1 /\ R \in SUBSET S
      BY <2>1, <2>3, FirstIn, FS_RemoveElement
    <3> HIDE DEF R
    <3>2. Cardinality(R) <= n
      BY <1>1, <2>1, <3>1
    <3>3. h[R] = g[R]
      BY <3>1, <3>2
    <3>4. h[T] = f[First(T)] + g[R]
      <4>1. CASE Cardinality(T) <= n
        BY <2>3, <4>1 DEF FollowsUpTo, R
      <4>2. CASE ~(Cardinality(T) <= n)
        BY <4>2 DEF R
      <4> QED
        BY <4>1, <4>2
    <3> QED
      BY <2>3, <3>3, <3>4 DEF R
  <2> QED
    BY <2>2, <2>3
<1> QED
  BY <1>1 DEF FollowsUpTo

LEMMA RecursionExists ==
    ASSUME NEW f, NEW S, IsFiniteSet(S)
    PROVE  \E g : Recursion(g, f, S)
<1> DEFINE C == {n \in Nat : ~ \E g : FollowsUpTo(g, f, S, n)}
<1>1. C = {}
  <2> SUFFICES ASSUME C # {} PROVE FALSE
    OBVIOUS
  <2>1. PICK n \in C : \A m \in C : n <= m
    BY LeastNumber
  <2>2. n \in Nat /\ ~ \E g : FollowsUpTo(g, f, S, n)
    BY <2>1
  <2>3. n # 0
    <3> DEFINE g == [T \in SUBSET S |-> 0]
    <3>1. \A T \in SUBSET S : Cardinality(T) <= 0 => T = {}
      BY FS_Subset, FS_CardinalityType, FS_EmptySet
    <3>2. FollowsUpTo(g, f, S, 0)
      BY <3>1 DEF FollowsUpTo
    <3> QED
      BY <2>2, <3>2
  <2>4. n - 1 \in Nat /\ n - 1 \notin C /\ (n - 1) + 1 = n
    BY <2>1, <2>2, <2>3
  <2>5. PICK g : FollowsUpTo(g, f, S, n - 1)
    BY <2>4
  <2>6. \E h : FollowsUpTo(h, f, S, (n - 1) + 1)
    BY <2>4, <2>5, FollowsFurther
  <2> QED
    BY <2>2, <2>4, <2>6
<1>2. Cardinality(S) \in Nat
  BY FS_CardinalityType
<1>3. PICK g : FollowsUpTo(g, f, S, Cardinality(S))
  BY <1>1, <1>2
<1> DEFINE h == [T \in SUBSET S |-> g[T]]
<1>4. ASSUME NEW T \in SUBSET S
      PROVE  h[T] = IF T = {} THEN 0 ELSE f[First(T)] + h[T \ {First(T)}]
  <2>1. Cardinality(T) <= Cardinality(S)
    BY FS_Subset
  <2> QED
    BY <1>3, <2>1 DEF FollowsUpTo
<1>5. h = [T \in SUBSET S |-> h[T]]
  OBVIOUS
<1>6. Recursion(h, f, S)
  BY <1>4, <1>5 DEF Recursion
<1> QED
  BY <1>6

\* Two functions that follow the recursion agree where their terms do.
LEMMA RecursionAgrees ==
    ASSUME NEW f, NEW e, NEW S, NEW U, IsFiniteSet(S), NEW g, NEW h,
           Recursion(g, f, S), Recursion(h, e, U), NEW W \in SUBSET (S \cap U),
           \A x \in W : f[x] = e[x]
    PROVE  g[W] = h[W]
<1> DEFINE G == {T \in SUBSET W : g[T] = h[T]}
<1>1. IsFiniteSet(W)
  BY FS_Subset
<1>2. \A T \in SUBSET W :
        /\ g[T] = IF T = {} THEN 0 ELSE f[First(T)] + g[T \ {First(T)}]
        /\ h[T] = IF T = {} THEN 0 ELSE e[First(T)] + h[T \ {First(T)}]
  BY DEF Recursion
<1>3. ASSUME NEW T \in SUBSET W, \A R \in SUBSET T : R # T => R \in G
      PROVE  T \in G
  <2>1. CASE T = {}
    BY <1>2, <2>1
  <2>2. CASE T # {}
    <3>1. First(T) \in T
      BY <2>2, FirstIn
    <3>2. T \ {First(T)} \in G
      BY <1>3, <3>1
    <3> QED
      BY <1>2, <2>2, <3>1, <3>2
  <2> QED
    BY <2>1, <2>2
<1> HIDE DEF G
<1>4. \A T \in SUBSET W : T \in G
  BY <1>1, <1>3, SubsetInduction
<1> QED
  BY <1>4 DEF G

-----------------------------------------------------------------------------
(* What a sum is                                                           *)

LEMMA SumEmpty == ASSUME NEW f PROVE SumFunctionOnSet(f, {}) = 0
<1>1. IsFiniteSet({})
  BY FS_EmptySet
<1>2. PICK g : g = (CHOOSE h : Recursion(h, f, {})) /\ Recursion(g, f, {})
  BY <1>1, RecursionExists
<1>3. g[{}] = 0
  BY <1>2 DEF Recursion
<1> QED
  BY <1>2, <1>3, SumRecursion

\* The sum depends on the terms only.
LEMMA SumAgrees ==
    ASSUME NEW f, NEW e, NEW S, IsFiniteSet(S), \A x \in S : f[x] = e[x]
    PROVE  SumFunctionOnSet(f, S) = SumFunctionOnSet(e, S)
<1>1. PICK g : g = (CHOOSE h : Recursion(h, f, S)) /\ Recursion(g, f, S)
  BY RecursionExists
<1>2. PICK k : k = (CHOOSE h : Recursion(h, e, S)) /\ Recursion(k, e, S)
  BY RecursionExists
<1>3. g[S] = k[S]
  BY <1>1, <1>2, RecursionAgrees
<1> QED
  BY <1>1, <1>2, <1>3, SumRecursion

LEMMA SumStep ==
    ASSUME NEW f, NEW S, IsFiniteSet(S), S # {}
    PROVE  SumFunctionOnSet(f, S) = f[First(S)] + SumFunctionOnSet(f, S \ {First(S)})
<1> DEFINE R == S \ {First(S)}
<1>1. IsFiniteSet(R) /\ R \in SUBSET (S \cap R)
  BY FS_Subset
<1>2. PICK g : g = (CHOOSE h : Recursion(h, f, S)) /\ Recursion(g, f, S)
  BY RecursionExists
<1>3. PICK k : k = (CHOOSE h : Recursion(h, f, R)) /\ Recursion(k, f, R)
  BY <1>1, RecursionExists
<1>4. g[R] = k[R]
  <2> HIDE DEF R
  <2>1. Recursion(g, f, S) /\ Recursion(k, f, R) /\ R \in SUBSET (S \cap R)
    BY <1>1, <1>2, <1>3
  <2> QED
    BY <2>1, RecursionAgrees
<1>5. g[S] = f[First(S)] + g[R]
  BY <1>2 DEF Recursion
<1> HIDE DEF R
<1>6. SumFunctionOnSet(f, R) = k[R] /\ SumFunctionOnSet(f, S) = g[S]
  BY <1>2, <1>3, SumRecursion
<1>7. SumFunctionOnSet(f, S) = f[First(S)] + SumFunctionOnSet(f, R)
  BY <1>4, <1>5, <1>6
<1> QED
  BY <1>7 DEF R

LEMMA SumInt ==
    ASSUME NEW f, NEW W, IsFiniteSet(W), \A x \in W : f[x] \in Int
    PROVE  SumFunctionOnSet(f, W) \in Int
<1> DEFINE G == {S \in SUBSET W : SumFunctionOnSet(f, S) \in Int}
<1>1. ASSUME NEW S \in SUBSET W, \A T \in SUBSET S : T # S => T \in G
      PROVE  S \in G
  <2>1. CASE S = {}
    BY <2>1, SumEmpty
  <2>2. CASE S # {}
    <3>1. First(S) \in S /\ IsFiniteSet(S)
      BY <2>2, FirstIn, FS_Subset
    <3>2. S \ {First(S)} \in G
      BY <1>1, <3>1
    <3>3. SumFunctionOnSet(f, S) = f[First(S)] + SumFunctionOnSet(f, S \ {First(S)})
      BY <2>2, <3>1, SumStep
    <3> QED
      BY <3>1, <3>2, <3>3
  <2> QED
    BY <2>1, <2>2
<1> HIDE DEF G
<1>2. \A S \in SUBSET W : S \in G
  BY <1>1, SubsetInduction
<1> QED
  BY <1>2 DEF G

\* Whichever element is taken out first, the sum is the same.
LEMMA SumRemove ==
    ASSUME NEW f, NEW W, IsFiniteSet(W), \A x \in W : f[x] \in Int, NEW z \in W
    PROVE  SumFunctionOnSet(f, W) = f[z] + SumFunctionOnSet(f, W \ {z})
<1> DEFINE G == {S \in SUBSET W :
                   \A x \in S : SumFunctionOnSet(f, S) = f[x] + SumFunctionOnSet(f, S \ {x})}
<1>1. ASSUME NEW S \in SUBSET W, \A T \in SUBSET S : T # S => T \in G
      PROVE  S \in G
  <2> SUFFICES ASSUME NEW x \in S
               PROVE  SumFunctionOnSet(f, S) = f[x] + SumFunctionOnSet(f, S \ {x})
    OBVIOUS
  <2> DEFINE c == First(S)
  <2>1. c \in S /\ \A T \in SUBSET S : IsFiniteSet(T)
    BY FirstIn, FS_Subset
  <2>2. SumFunctionOnSet(f, S) = f[c] + SumFunctionOnSet(f, S \ {c})
    BY <2>1, SumStep
  <2> HIDE DEF c
  <2>3. CASE x = c
    BY <2>2, <2>3
  <2>4. CASE x # c
    <3>1. S \ {c} \in G /\ S \ {x} \in G
      BY <1>1, <2>1
    <3>2. SumFunctionOnSet(f, S \ {c}) = f[x] + SumFunctionOnSet(f, (S \ {c}) \ {x})
      BY <2>4, <3>1
    <3>3. SumFunctionOnSet(f, S \ {x}) = f[c] + SumFunctionOnSet(f, (S \ {x}) \ {c})
      BY <2>1, <2>4, <3>1
    <3>4. (S \ {c}) \ {x} = (S \ {x}) \ {c}
      OBVIOUS
    <3>5. PICK n \in Int : n = SumFunctionOnSet(f, (S \ {x}) \ {c})
      BY <2>1, SumInt
    <3>6. f[c] \in Int /\ f[x] \in Int
      BY <2>1
    <3>7. SumFunctionOnSet(f, S) = f[c] + (f[x] + n)
      BY <2>2, <3>2, <3>4, <3>5
    <3>8. SumFunctionOnSet(f, S \ {x}) = f[c] + n
      BY <3>3, <3>5
    <3>9. f[c] + (f[x] + n) = f[x] + (f[c] + n)
      BY <3>5, <3>6
    <3> QED
      BY <3>7, <3>8, <3>9
  <2> QED
    BY <2>3, <2>4
<1> HIDE DEF G
<1>2. \A S \in SUBSET W : S \in G
  BY <1>1, SubsetInduction
<1> QED
  BY <1>2 DEF G

LEMMA SumAdd ==
    ASSUME NEW f, NEW W, IsFiniteSet(W), NEW z, z \notin W, \A x \in W \cup {z} : f[x] \in Int
    PROVE  SumFunctionOnSet(f, W \cup {z}) = f[z] + SumFunctionOnSet(f, W)
<1>1. IsFiniteSet(W \cup {z}) /\ (W \cup {z}) \ {z} = W
  BY FS_AddElement
<1> QED
  BY <1>1, SumRemove

\* One term changes.
LEMMA SumChange ==
    ASSUME NEW f, NEW e, NEW W, IsFiniteSet(W), NEW z \in W,
           \A x \in W : f[x] \in Int /\ e[x] \in Int, \A x \in W \ {z} : e[x] = f[x]
    PROVE  SumFunctionOnSet(e, W) = SumFunctionOnSet(f, W) + (e[z] - f[z])
<1>1. IsFiniteSet(W \ {z})
  BY FS_Subset
<1>2. PICK n \in Int : n = SumFunctionOnSet(f, W \ {z})
  BY <1>1, SumInt
<1>3. SumFunctionOnSet(e, W \ {z}) = n
  BY <1>1, <1>2, SumAgrees
<1>4. SumFunctionOnSet(f, W) = f[z] + n
  BY <1>2, SumRemove
<1>5. SumFunctionOnSet(e, W) = e[z] + n
  BY <1>3, SumRemove
<1> QED
  BY <1>2, <1>4, <1>5

\* Sums add up term by term.
LEMMA SumPlus ==
    ASSUME NEW f, NEW e, NEW h, NEW W, IsFiniteSet(W),
           \A x \in W : f[x] \in Int /\ e[x] \in Int /\ h[x] = f[x] + e[x]
    PROVE  SumFunctionOnSet(h, W) = SumFunctionOnSet(f, W) + SumFunctionOnSet(e, W)
<1> DEFINE Adds(S) == SumFunctionOnSet(h, S) = SumFunctionOnSet(f, S) + SumFunctionOnSet(e, S)
           G == {S \in SUBSET W : Adds(S)}
<1>1. ASSUME NEW S \in SUBSET W, \A T \in SUBSET S : T # S => T \in G
      PROVE  S \in G
  <2>1. CASE S = {}
    BY <2>1, SumEmpty
  <2>2. CASE S # {}
    <3> DEFINE R == S \ {First(S)}
    <3>1. First(S) \in S /\ IsFiniteSet(S) /\ IsFiniteSet(R)
      BY <2>2, FirstIn, FS_Subset
    <3>2. R \in G
      BY <1>1, <3>1
    <3>3. /\ SumFunctionOnSet(f, S) = f[First(S)] + SumFunctionOnSet(f, R)
          /\ SumFunctionOnSet(e, S) = e[First(S)] + SumFunctionOnSet(e, R)
          /\ SumFunctionOnSet(h, S) = h[First(S)] + SumFunctionOnSet(h, R)
      BY <2>2, <3>1, SumStep
    <3> HIDE DEF R
    <3>4. R \subseteq W
      BY DEF R
    <3>5. SumFunctionOnSet(f, R) \in Int /\ SumFunctionOnSet(e, R) \in Int
      BY <3>1, <3>4, SumInt
    <3>6. SumFunctionOnSet(h, R) = SumFunctionOnSet(f, R) + SumFunctionOnSet(e, R)
      BY <3>2
    <3>7. /\ f[First(S)] \in Int /\ e[First(S)] \in Int
          /\ h[First(S)] = f[First(S)] + e[First(S)]
      BY <3>1
    <3> QED
      BY <3>3, <3>5, <3>6, <3>7
  <2> QED
    BY <2>1, <2>2
<1> HIDE DEF G
<1>2. \A S \in SUBSET W : S \in G
  BY <1>1, SubsetInduction
<1> QED
  BY <1>2 DEF G

LEMMA SumZero ==
    ASSUME NEW f, NEW W, IsFiniteSet(W), \A x \in W : f[x] = 0
    PROVE  SumFunctionOnSet(f, W) = 0
<1> DEFINE G == {S \in SUBSET W : SumFunctionOnSet(f, S) = 0}
<1>1. ASSUME NEW S \in SUBSET W, \A T \in SUBSET S : T # S => T \in G
      PROVE  S \in G
  <2>1. CASE S = {}
    BY <2>1, SumEmpty
  <2>2. CASE S # {}
    <3>1. First(S) \in S /\ IsFiniteSet(S)
      BY <2>2, FirstIn, FS_Subset
    <3>2. S \ {First(S)} \in G
      BY <1>1, <3>1
    <3>3. SumFunctionOnSet(f, S) = f[First(S)] + SumFunctionOnSet(f, S \ {First(S)})
      BY <2>2, <3>1, SumStep
    <3> QED
      BY <3>1, <3>2, <3>3
  <2> QED
    BY <2>1, <2>2
<1> HIDE DEF G
<1>2. \A S \in SUBSET W : S \in G
  BY <1>1, SubsetInduction
<1> QED
  BY <1>2 DEF G

LEMMA SumNegated ==
    ASSUME NEW f, NEW e, NEW W, IsFiniteSet(W), \A x \in W : f[x] \in Int /\ e[x] = -f[x]
    PROVE  SumFunctionOnSet(e, W) = -SumFunctionOnSet(f, W)
<1> DEFINE zero == [x \in W |-> 0]
<1>1. \A x \in W : zero[x] = f[x] + e[x] /\ e[x] \in Int
  OBVIOUS
<1>2. SumFunctionOnSet(zero, W) = 0
  BY SumZero
<1> HIDE DEF zero
<1>3. SumFunctionOnSet(zero, W) = SumFunctionOnSet(f, W) + SumFunctionOnSet(e, W)
  BY <1>1, SumPlus
<1>4. SumFunctionOnSet(f, W) \in Int /\ SumFunctionOnSet(e, W) \in Int
  BY <1>1, SumInt
<1> QED
  BY <1>2, <1>3, <1>4

\* A sum of terms none of which is negative is not, and is positive only if one is.
LEMMA SumNat ==
    ASSUME NEW f, NEW W, IsFiniteSet(W), \A x \in W : f[x] \in Nat
    PROVE  /\ SumFunctionOnSet(f, W) \in Nat
           /\ \A x \in W : f[x] <= SumFunctionOnSet(f, W)
<1> DEFINE G == {S \in SUBSET W : SumFunctionOnSet(f, S) \in Nat}
<1>1. ASSUME NEW S \in SUBSET W, \A T \in SUBSET S : T # S => T \in G
      PROVE  S \in G
  <2>1. CASE S = {}
    BY <2>1, SumEmpty
  <2>2. CASE S # {}
    <3>1. First(S) \in S /\ IsFiniteSet(S)
      BY <2>2, FirstIn, FS_Subset
    <3>2. S \ {First(S)} \in G
      BY <1>1, <3>1
    <3>3. SumFunctionOnSet(f, S) = f[First(S)] + SumFunctionOnSet(f, S \ {First(S)})
      BY <2>2, <3>1, SumStep
    <3> QED
      BY <3>1, <3>2, <3>3
  <2> QED
    BY <2>1, <2>2
<1> HIDE DEF G
<1>2. \A S \in SUBSET W : S \in G
  BY <1>1, SubsetInduction
<1>3. \A S \in SUBSET W : SumFunctionOnSet(f, S) \in Nat
  BY <1>2 DEF G
<1>4. ASSUME NEW x \in W PROVE f[x] <= SumFunctionOnSet(f, W)
  <2>1. SumFunctionOnSet(f, W) = f[x] + SumFunctionOnSet(f, W \ {x})
    BY SumRemove
  <2>2. SumFunctionOnSet(f, W \ {x}) \in Nat
    BY <1>3
  <2> QED
    BY <2>1, <2>2
<1> QED
  BY <1>3, <1>4
================================================================================
