----------------------------- MODULE SumTheorems -----------------------------
(***************************************************************************)
(* What the proofs of several modules need of sums over finite sets        *)
(* (SumFunctionOnSet of the community modules): the recursive function     *)
(* they are defined by exists, and a sum may be taken apart at any         *)
(* element.  All of it rests on one induction over the naturals, obtained  *)
(* for a set from the pigeonhole facts of FiniteSetTheorems.               *)
(***************************************************************************)
EXTENDS Integers, FiniteSetsExt, FiniteSetTheorems, TLAPS

-----------------------------------------------------------------------------
(* Induction.                                                              *)

\* A set of naturals that holds 0 and the successor of each of its members holds them all: the
\* successor would otherwise map a finite part of it one-to-one, but not onto, itself.
LEMMA SetInduction ==
    ASSUME NEW S, 0 \in S, \A n \in Nat : n \in S => n + 1 \in S
    PROVE  Nat \subseteq S
  <1> SUFFICES ASSUME NEW n \in Nat, n \notin S PROVE FALSE
    OBVIOUS
  <1> DEFINE T == {m \in 0 .. n : m \in S}
             next == [m \in T |-> m + 1]
  <1>1. IsFiniteSet(T)
    <2>1. IsFiniteSet(0 .. n)
      BY FS_Interval
    <2>2. T \in SUBSET (0 .. n)
      OBVIOUS
    <2> QED BY <2>1, <2>2, FS_Subset
  <1>2. \A m \in T : m + 1 \in T
    OBVIOUS
  <1>3. next \in Injection(T, T)
    BY <1>2 DEF Injection, IsInjective
  <1>4. next \in Surjection(T, T)
    <2> HIDE DEF next, T
    <2> QED BY <1>1, <1>3, FS_Injection
  <1>5. 0 \in T
    OBVIOUS
  <1>6. \E m \in T : next[m] = 0
    <2> HIDE DEF next, T
    <2> QED BY <1>4, <1>5 DEF Surjection
  <1> QED BY <1>6

\* A bounded set of naturals has a maximum.
LEMMA MaxExists ==
    ASSUME NEW S \in SUBSET Nat, S # {}, NEW k \in Nat, \A n \in S : n <= k
    PROVE  Max(S) \in S /\ \A n \in S : n <= Max(S)
<1> DEFINE Bounds == {b \in Nat : \A n \in S : n <= b}
<1>1. IsWellFoundedOn(OpToRel(<, Nat), Nat)
  BY NatLessThanWellFounded
<1>2. Bounds \subseteq Nat /\ Bounds # {}
  OBVIOUS
<1>3. PICK b \in Bounds : \A c \in Bounds : ~ (<<c, b>> \in OpToRel(<, Nat))
  <2> HIDE DEF Bounds
  <2> QED  BY <1>1, <1>2, WFMin
<1>4. \A c \in Bounds : ~(c < b)
  BY <1>3 DEF OpToRel
<1>5. b \in S
  <2> SUFFICES ASSUME b \notin S PROVE FALSE
    OBVIOUS
  <2>1. PICK n \in S : TRUE
    OBVIOUS
  <2>2. \A m \in S : m <= b - 1
    OBVIOUS
  <2>3. b - 1 \in Nat
    BY <2>1
  <2>4. b - 1 \in Bounds
    BY <2>2, <2>3
  <2> QED  BY <1>4, <2>4
<1>6. \E x \in S : \A y \in S : x >= y
  BY <1>5
<1>7. Max(S) \in S /\ \A y \in S : Max(S) >= y
  BY <1>6 DEF Max
<1> QED  BY <1>7

\* A set of naturals has a least element.
LEMMA LeastExists ==
    ASSUME NEW S \in SUBSET Nat, S # {}
    PROVE  \E x \in S : \A y \in S : x <= y
<1>1. IsWellFoundedOn(OpToRel(<, Nat), Nat)
  BY NatLessThanWellFounded
<1>2. PICK b \in S : \A c \in S : ~ (<<c, b>> \in OpToRel(<, Nat))
  BY <1>1, WFMin
<1>3. \A c \in S : ~(c < b)
  BY <1>2 DEF OpToRel
<1> QED  BY <1>3

\* What holds of the empty set, and of a set when it holds of the set without some
\* element, holds of every finite subset of S.
LEMMA FiniteInduction ==
    ASSUME NEW S, NEW P, {} \in P,
           \A T \in SUBSET S : IsFiniteSet(T) /\ T # {} /\ (\A x \in T : T \ {x} \in P) => T \in P
    PROVE  \A T \in SUBSET S : IsFiniteSet(T) => T \in P
  <1> DEFINE U == {n \in Nat : \A T \in SUBSET S :
                     IsFiniteSet(T) /\ Cardinality(T) = n => T \in P}
  <1>1. 0 \in U
    BY FS_EmptySet
  <1>2. ASSUME NEW n \in Nat, n \in U PROVE n + 1 \in U
    <2> SUFFICES ASSUME NEW T \in SUBSET S, IsFiniteSet(T), Cardinality(T) = n + 1
                 PROVE  T \in P
      OBVIOUS
    <2>1. T # {}
      BY FS_EmptySet
    <2>2. ASSUME NEW x \in T PROVE T \ {x} \in P
      <3>0. x \in T /\ IsFiniteSet(T) /\ Cardinality(T) = n + 1
        BY <2>2
      <3>1. IsFiniteSet(T \ {x}) /\ Cardinality(T \ {x}) = (n + 1) - 1
        <4> HIDE DEF U
        <4>1. IsFiniteSet(T \ {x})
              /\ Cardinality(T \ {x}) = IF x \in T THEN Cardinality(T) - 1 ELSE Cardinality(T)
          BY <3>0, FS_RemoveElement, Zenon
        <4> QED BY <3>0, <4>1
      <3>2. T \ {x} \in SUBSET S
        OBVIOUS
      <3> QED BY <1>2, <3>1, <3>2
    <2> QED BY <2>1, <2>2
  <1>3. Nat \subseteq U
    <2> HIDE DEF U
    <2> QED BY <1>1, <1>2, SetInduction
  <1>4. ASSUME NEW T \in SUBSET S, IsFiniteSet(T) PROVE T \in P
    <2>1. Cardinality(T) \in Nat
      BY <1>4, FS_CardinalityType
    <2>2. Cardinality(T) \in U
      BY <1>3, <2>1
    <2> QED BY <1>4, <2>2
  <1> QED BY <1>4

-----------------------------------------------------------------------------
(* The recursion behind a sum.                                             *)

\* How a sum over a set is computed: by taking out one element after the other.
SumStep(f, g, T) == IF T = {} THEN 0 ELSE LET x == CHOOSE x \in T : TRUE IN f[x] + g[T \ {x}]

\* g is a solution on the subsets of S.
Solves(g, f, S) == \A T \in SUBSET S : g[T] = SumStep(f, g, T)

\* The recursive definition of a sum has a solution.
LEMMA SumExists ==
    ASSUME NEW f, NEW S, IsFiniteSet(S)
    PROVE  \E g : g = [T \in SUBSET S |-> SumStep(f, g, T)]
  <1> DEFINE Small(n) == {T \in SUBSET S : Cardinality(T) <= n}
             U == {n \in Nat : \E g : g = [T \in Small(n) |-> SumStep(f, g, T)]}
  <1>1. ASSUME NEW T \in SUBSET S
        PROVE  /\ IsFiniteSet(T) /\ Cardinality(T) \in Nat /\ Cardinality(T) <= Cardinality(S)
               /\ Cardinality(T) = 0 <=> T = {}
               /\ \A x \in T : Cardinality(T \ {x}) = Cardinality(T) - 1
    <2>1. IsFiniteSet(T) /\ Cardinality(T) <= Cardinality(S)
      BY FS_Subset
    <2>2. Cardinality(T) \in Nat /\ (Cardinality(T) = 0 <=> T = {})
      BY <2>1, FS_CardinalityType, FS_EmptySet
    <2>3. ASSUME NEW x \in T PROVE Cardinality(T \ {x}) = Cardinality(T) - 1
      BY <2>1, FS_RemoveElement
    <2> QED BY <2>1, <2>2, <2>3
  <1>2. 0 \in U
    <2>1. [T \in Small(0) |-> SumStep(f, [R \in Small(0) |-> 0], T)] = [R \in Small(0) |-> 0]
      BY <1>1 DEF SumStep
    <2> QED BY <2>1
  <1>3. ASSUME NEW n \in Nat, n \in U PROVE n + 1 \in U
    <2>1. PICK g : g = [T \in Small(n) |-> SumStep(f, g, T)]
      BY <1>3
    <2> DEFINE h == [T \in Small(n + 1) |-> SumStep(f, g, T)]
    <2>2. ASSUME NEW T \in Small(n + 1) PROVE SumStep(f, g, T) = SumStep(f, h, T)
      <3>1. CASE T = {}
        BY <3>1 DEF SumStep
      <3>2. CASE T # {}
        <4> DEFINE x == CHOOSE x \in T : TRUE
        <4>1. x \in T
          BY <3>2
        <4>2. T \ {x} \in Small(n) /\ T \ {x} \in Small(n + 1)
          <5> HIDE DEF x
          <5> QED BY <1>1, <4>1
        <4>3. h[T \ {x}] = g[T \ {x}]
          <5> HIDE DEF x
          <5>1. h[T \ {x}] = SumStep(f, g, T \ {x})
            BY <4>2
          <5>2. g[T \ {x}] = SumStep(f, g, T \ {x})
            <6> HIDE DEF h, Small
            <6> QED BY <2>1, <4>2
          <5> QED BY <5>1, <5>2
        <4> HIDE DEF h
        <4> QED BY <3>2, <4>3 DEF SumStep
      <3> QED BY <3>1, <3>2
    <2>3. h = [T \in Small(n + 1) |-> SumStep(f, h, T)]
      <3> HIDE DEF Small
      <3>1. \A T \in Small(n + 1) : SumStep(f, g, T) = SumStep(f, h, T)
        <4> HIDE DEF h
        <4> QED BY <2>2
      <3> DEFINE A(T) == SumStep(f, g, T)
                 B(T) == SumStep(f, h, T)
      <3>2. \A T \in Small(n + 1) : A(T) = B(T)
        BY <3>1
      <3>3. h = [T \in Small(n + 1) |-> A(T)]
        OBVIOUS
      <3> HIDE DEF h, A, B
      <3>4. h = [T \in Small(n + 1) |-> B(T)]
        BY <3>2, <3>3
      <3> QED BY <3>4 DEF B
    <2> HIDE DEF h, Small
    <2> QED BY <2>3
  <1>4. Cardinality(S) \in U
    <2>1. Nat \subseteq U
      <3> HIDE DEF U
      <3> QED BY <1>2, <1>3, SetInduction
    <2> QED BY <2>1, FS_CardinalityType
  <1>5. Small(Cardinality(S)) = SUBSET S
    BY <1>1
  <1> QED BY <1>4, <1>5

\* A sum is the value of such a solution.
LEMMA SumIter ==
    ASSUME NEW f, NEW S, IsFiniteSet(S)
    PROVE  \E g : /\ Solves(g, f, S)
                  /\ SumFunctionOnSet(f, S) = g[S]
  <1> DEFINE g == CHOOSE h : h = [T \in SUBSET S |-> SumStep(f, h, T)]
  <1>1. g = [T \in SUBSET S |-> SumStep(f, g, T)]
    <2> QED BY SumExists
  <1>2. SumFunctionOnSet(f, S) = g[S]
    BY DEF SumFunctionOnSet, FoldFunctionOnSet, MapThenFoldSet, SumStep
  <1> HIDE DEF g
  <1> QED BY <1>1, <1>2 DEF Solves

\* Solutions for equal summands agree.
LEMMA SumsAgree ==
    ASSUME NEW f, NEW h, NEW g, NEW k, NEW S, IsFiniteSet(S), \A x \in S : f[x] = h[x],
           Solves(g, f, S),
           Solves(k, h, S)
    PROVE  g[S] = k[S]
  <1> DEFINE P == {T \in SUBSET S : g[T] = k[T]}
  <1>1. {} \in P
    <2>1. g[{}] = SumStep(f, g, {}) /\ k[{}] = SumStep(h, k, {})
      BY DEF Solves
    <2> QED BY <2>1 DEF SumStep
  <1>2. ASSUME NEW T \in SUBSET S, T # {}, \A x \in T : T \ {x} \in P
        PROVE  T \in P
    <2> DEFINE x == CHOOSE x \in T : TRUE
    <2>1. x \in T
      BY <1>2
    <2>2. g[T \ {x}] = k[T \ {x}] /\ f[x] = h[x]
      <3> HIDE DEF x
      <3> QED BY <1>2, <2>1
    <2>3. g[T] = f[x] + g[T \ {x}]
      BY <1>2 DEF SumStep, Solves
    <2>4. k[T] = h[x] + k[T \ {x}]
      BY <1>2 DEF SumStep, Solves
    <2> HIDE DEF x
    <2> QED BY <2>2, <2>3, <2>4
  <1>3. S \in P
    <2> HIDE DEF P
    <2> QED BY <1>1, <1>2, FiniteInduction
  <1> QED BY <1>3

-----------------------------------------------------------------------------
(* Sums.                                                                   *)

\* Equal summands give equal sums.
LEMMA SumSame ==
    ASSUME NEW f, NEW h, NEW S, IsFiniteSet(S), \A x \in S : f[x] = h[x]
    PROVE  SumFunctionOnSet(f, S) = SumFunctionOnSet(h, S)
  <1>1. PICK g : Solves(g, f, S) /\ SumFunctionOnSet(f, S) = g[S]
    BY SumIter
  <1>2. PICK k : Solves(k, h, S) /\ SumFunctionOnSet(h, S) = k[S]
    BY SumIter
  <1> QED BY <1>1, <1>2, SumsAgree

\* The empty sum.
LEMMA SumEmpty == ASSUME NEW f PROVE SumFunctionOnSet(f, {}) = 0
  <1>1. IsFiniteSet({})
    BY FS_EmptySet
  <1>2. PICK g : Solves(g, f, {}) /\ SumFunctionOnSet(f, {}) = g[{}]
    BY <1>1, SumIter
  <1> QED BY <1>2 DEF SumStep, Solves

\* A sum of integers is an integer, and any summand can be taken out first.
LEMMA SumRemove ==
    ASSUME NEW f, NEW S, IsFiniteSet(S), \A x \in S : f[x] \in Int
    PROVE  /\ SumFunctionOnSet(f, S) \in Int
           /\ \A x \in S : /\ SumFunctionOnSet(f, S) = f[x] + SumFunctionOnSet(f, S \ {x})
                           /\ SumFunctionOnSet(f, S \ {x}) \in Int
  <1>1. PICK g : Solves(g, f, S) /\ SumFunctionOnSet(f, S) = g[S]
    BY SumIter
  <1> DEFINE I == {T \in SUBSET S : g[T] \in Int}
             P == {T \in SUBSET S : \A y \in T : g[T] = f[y] + g[T \ {y}]}
  <1>2. ASSUME NEW T \in SUBSET S, T # {}
        PROVE  \E z \in T : g[T] = f[z] + g[T \ {z}]
    <2> DEFINE z == CHOOSE z \in T : TRUE
    <2>1. z \in T
      BY <1>2
    <2>2. g[T] = f[z] + g[T \ {z}]
      BY <1>1, <1>2 DEF SumStep, Solves
    <2> HIDE DEF z
    <2> QED BY <2>1, <2>2
  <1>3. g[{}] = 0
    <2>1. g[{}] = SumStep(f, g, {})
      BY <1>1 DEF Solves
    <2> QED BY <2>1 DEF SumStep
  <1>4. \A T \in SUBSET S : IsFiniteSet(T) => T \in I
    <2>1. {} \in I
      BY <1>3
    <2>2. ASSUME NEW T \in SUBSET S, T # {}, \A y \in T : T \ {y} \in I
          PROVE  T \in I
      <3>1. PICK z \in T : g[T] = f[z] + g[T \ {z}]
        BY <1>2, <2>2
      <3>2. g[T \ {z}] \in Int /\ f[z] \in Int
        BY <2>2
      <3> QED BY <3>1, <3>2
    <2> HIDE DEF I
    <2> QED BY <2>1, <2>2, FiniteInduction
  <1>5. ASSUME NEW T \in SUBSET S PROVE g[T] \in Int
    <2>1. IsFiniteSet(T)
      BY FS_Subset
    <2> QED BY <1>4, <2>1
  <1>6. {} \in P
    OBVIOUS
  <1>7. ASSUME NEW T \in SUBSET S, T # {}, \A y \in T : T \ {y} \in P
        PROVE  T \in P
    <2>1. PICK z \in T : g[T] = f[z] + g[T \ {z}]
      BY <1>2, <1>7
    <2>2. ASSUME NEW y \in T PROVE g[T] = f[y] + g[T \ {y}]
      <3>1. CASE y = z
        BY <2>1, <3>1
      <3>2. CASE y # z
        <4>1. y \in T \ {z} /\ z \in T \ {y}
          BY <2>1, <3>2
        <4>2. (T \ {z}) \ {y} = (T \ {y}) \ {z}
          OBVIOUS
        <4>3. g[T \ {z}] = f[y] + g[(T \ {z}) \ {y}]
          BY <1>7, <2>1, <4>1
        <4>4. g[T \ {y}] = f[z] + g[(T \ {y}) \ {z}]
          BY <1>7, <4>1
        <4>5. /\ f[y] \in Int /\ f[z] \in Int
              /\ g[T] \in Int /\ g[T \ {y}] \in Int /\ g[T \ {z}] \in Int
              /\ g[(T \ {z}) \ {y}] \in Int
          BY <1>5
        <4> DEFINE d == (T \ {z}) \ {y}
        <4>6. g[T \ {z}] = f[y] + g[d] /\ g[T \ {y}] = f[z] + g[d] /\ g[d] \in Int
          BY <4>2, <4>3, <4>4, <4>5
        <4> HIDE DEF P, d
        <4> QED BY <2>1, <4>5, <4>6
      <3> QED BY <3>1, <3>2
    <2> QED BY <2>2
  <1>8. S \in P
    <2> HIDE DEF P
    <2> QED BY <1>6, <1>7, FiniteInduction
  <1>9. ASSUME NEW x \in S
        PROVE  g[S] = f[x] + g[S \ {x}] /\ g[S \ {x}] = SumFunctionOnSet(f, S \ {x})
    <2>1. g[S] = f[x] + g[S \ {x}]
      BY <1>8
    <2>2. IsFiniteSet(S \ {x}) /\ S \ {x} \in SUBSET S
      BY FS_RemoveElement
    <2> DEFINE R == S \ {x}
    <2>3. PICK k : /\ Solves(k, f, R)
                   /\ SumFunctionOnSet(f, R) = k[R]
      BY <2>2, SumIter
    <2>4. Solves(g, f, R)
      BY <1>1 DEF Solves
    <2>5. g[R] = k[R]
      <3>1. IsFiniteSet(R) /\ \A y \in R : f[y] = f[y]
        BY <2>2
      <3> HIDE DEF R
      <3> QED BY <3>1, <2>3, <2>4, SumsAgree
    <2> QED BY <2>1, <2>3, <2>5
  <1>10. \A x \in S : g[S \ {x}] \in Int
    BY <1>5
  <1> HIDE DEF P, I
  <1> QED BY <1>1, <1>5, <1>9, <1>10

\* Sums of naturals are naturals.
LEMMA SumNat ==
    ASSUME NEW f, NEW S, IsFiniteSet(S), \A x \in S : f[x] \in Nat
    PROVE  SumFunctionOnSet(f, S) \in Nat
  <1> DEFINE P == {T \in SUBSET S : SumFunctionOnSet(f, T) \in Nat}
  <1>1. {} \in P
    BY SumEmpty
  <1>2. ASSUME NEW T \in SUBSET S, IsFiniteSet(T), T # {}, \A x \in T : T \ {x} \in P
        PROVE  T \in P
    <2>1. PICK x \in T : TRUE
      BY <1>2
    <2>2. SumFunctionOnSet(f, T) = f[x] + SumFunctionOnSet(f, T \ {x})
      BY <1>2, SumRemove
    <2> QED BY <1>2, <2>2
  <1>3. S \in P
    <2> HIDE DEF P
    <2> QED BY <1>1, <1>2, FiniteInduction
  <1> QED BY <1>3

\* Adding an element adds its summand.
LEMMA SumAdd ==
    ASSUME NEW f, NEW S, IsFiniteSet(S), NEW x, x \notin S, \A y \in S \cup {x} : f[y] \in Int
    PROVE  SumFunctionOnSet(f, S \cup {x}) = f[x] + SumFunctionOnSet(f, S)
  <1>1. IsFiniteSet(S \cup {x}) /\ (S \cup {x}) \ {x} = S
    BY FS_AddElement
  <1> QED BY <1>1, SumRemove

\* A sum over one more element, and over one less.
LEMMA SumGrows ==
    ASSUME NEW f, NEW h, NEW S, NEW x, NEW c \in Int, IsFiniteSet(S), x \notin S, h[x] = c,
           \A y \in S : f[y] \in Int, \A y \in S : h[y] = f[y]
    PROVE  SumFunctionOnSet(h, S \cup {x}) = SumFunctionOnSet(f, S) + c
  <1>1. SumFunctionOnSet(h, S) = SumFunctionOnSet(f, S)
    BY SumSame
  <1>2. \A y \in S \cup {x} : h[y] \in Int
    OBVIOUS
  <1>3. SumFunctionOnSet(h, S \cup {x}) = h[x] + SumFunctionOnSet(h, S)
    BY <1>2, SumAdd
  <1>4. SumFunctionOnSet(f, S) \in Int
    BY SumRemove
  <1> QED BY <1>1, <1>3, <1>4

LEMMA SumShrinks ==
    ASSUME NEW f, NEW h, NEW S, NEW x \in S, NEW c \in Int, IsFiniteSet(S), f[x] = c,
           \A y \in S : f[y] \in Int, \A y \in S \ {x} : h[y] = f[y]
    PROVE  SumFunctionOnSet(h, S \ {x}) = SumFunctionOnSet(f, S) - c
  <1>1. IsFiniteSet(S \ {x})
    BY FS_RemoveElement
  <1>2. SumFunctionOnSet(h, S \ {x}) = SumFunctionOnSet(f, S \ {x})
    BY <1>1, SumSame
  <1>3. /\ SumFunctionOnSet(f, S) = f[x] + SumFunctionOnSet(f, S \ {x})
        /\ SumFunctionOnSet(f, S \ {x}) \in Int
    BY SumRemove
  <1> QED BY <1>2, <1>3

\* A sum after one summand has changed.
LEMMA SumUpdate ==
    ASSUME NEW f, NEW h, NEW S, NEW x \in S, NEW a \in Int, NEW b \in Int, IsFiniteSet(S),
           f[x] = a, h[x] = b, \A y \in S : f[y] \in Int, \A y \in S \ {x} : h[y] = f[y]
    PROVE  SumFunctionOnSet(h, S) = SumFunctionOnSet(f, S) - a + b
  <1>1. SumFunctionOnSet(h, S \ {x}) = SumFunctionOnSet(f, S) - a
    BY SumShrinks
  <1>2. \A y \in S : h[y] \in Int
    OBVIOUS
  <1>3. /\ SumFunctionOnSet(h, S) = h[x] + SumFunctionOnSet(h, S \ {x})
        /\ SumFunctionOnSet(h, S \ {x}) \in Int
    BY <1>2, SumRemove
  <1> QED BY <1>1, <1>3

\* A sum of naturals is at least each of them.
LEMMA SumBound ==
    ASSUME NEW f, NEW S, IsFiniteSet(S), \A y \in S : f[y] \in Nat, NEW x \in S
    PROVE  f[x] <= SumFunctionOnSet(f, S)
  <1>1. IsFiniteSet(S \ {x})
    BY FS_RemoveElement
  <1>2. SumFunctionOnSet(f, S \ {x}) \in Nat
    BY <1>1, SumNat
  <1>3. SumFunctionOnSet(f, S) = f[x] + SumFunctionOnSet(f, S \ {x})
    BY SumRemove
  <1> QED BY <1>2, <1>3

\* A sum of zeros.
LEMMA SumZero ==
    ASSUME NEW f, NEW S, IsFiniteSet(S), \A x \in S : f[x] = 0
    PROVE  SumFunctionOnSet(f, S) = 0
  <1> DEFINE P == {T \in SUBSET S : SumFunctionOnSet(f, T) = 0}
  <1>1. {} \in P
    BY SumEmpty
  <1>2. ASSUME NEW T \in SUBSET S, IsFiniteSet(T), T # {}, \A x \in T : T \ {x} \in P
        PROVE  T \in P
    <2>1. PICK x \in T : TRUE
      BY <1>2
    <2>2. \A y \in T : f[y] \in Int
      OBVIOUS
    <2>3. SumFunctionOnSet(f, T) = f[x] + SumFunctionOnSet(f, T \ {x})
      BY <1>2, <2>2, SumRemove
    <2> QED BY <1>2, <2>3
  <1>3. S \in P
    <2> HIDE DEF P
    <2> QED BY <1>1, <1>2, FiniteInduction
  <1> QED BY <1>3

=============================================================================
