----------------------------- MODULE SumsProof -----------------------------
(* What the sum of a function over a finite set is, whichever order        *)
(* SumFunctionOnSet takes the elements in.                                 *)
EXTENDS Integers, FiniteSets, Functions, FiniteSetTheorems, TLAPS

Picked(T) == CHOOSE x \in T : TRUE

(* g gives the sums of f over the subsets of S. *)
Unfolds(g, f, S) ==
    g = [T \in SUBSET S |-> IF T = {} THEN 0 ELSE f[Picked(T)] + g[T \ {Picked(T)}]]

SumsOf(f, S) == CHOOSE g : Unfolds(g, f, S)

LEMMA SumIs == \A f, S : SumFunctionOnSet(f, S) = SumsOf(f, S)[S]
BY DEF SumFunctionOnSet, FoldFunctionOnSet, MapThenFoldSet, SumsOf, Unfolds, Picked

(* A set of naturals that contains 0 and is closed under successor is all  *)
(* of Nat.  Stated for a set, which the provers can instantiate; it is     *)
(* the pigeonhole principle for n |-> n + 1 on a smallest gap.             *)
LEMMA SetInduction ==
    ASSUME NEW S, 0 \in S, \A n \in Nat : n \in S => n + 1 \in S
    PROVE  Nat \subseteq S
<1> SUFFICES ASSUME NEW m \in Nat, m \notin S PROVE FALSE
  OBVIOUS
<1> DEFINE below == (0..m) \cap S
           above == below \ {0}
           succ == [n \in below |-> n + 1]
<1>1. IsFiniteSet(below) /\ 0 \in below
  <2>1. IsFiniteSet(0..m)
    BY FS_Interval
  <2> QED BY <2>1, FS_Subset
<1>2. IsFiniteSet(above) /\ Cardinality(above) = Cardinality(below) - 1
  BY <1>1, FS_RemoveElement
<1>3. succ \in [below -> above]
  OBVIOUS
<1>4. Cardinality(below) \in Nat /\ Cardinality(above) \in Nat
  BY <1>1, <1>2, FS_CardinalityType
<1>5. \E x, y \in below : x # y /\ succ[x] = succ[y]
  <2> HIDE DEF below, above, succ
  <2> QED BY <1>1, <1>2, <1>3, <1>4, FS_PigeonHole
<1> QED BY <1>5

(* Induction over the subsets of a finite set, from smaller to larger.  As *)
(* in SetInduction, the property is a set.                                 *)
LEMMA SubsetInduction ==
    ASSUME NEW S, IsFiniteSet(S), NEW Good, {} \in Good,
           \A T \in SUBSET S : T # {} /\ (\A x \in T : T \ {x} \in Good) => T \in Good
    PROVE  SUBSET S \subseteq Good
<1> DEFINE Sizes == {n \in Nat : \A T \in SUBSET S : Cardinality(T) = n => T \in Good}
<1>1. \A T \in SUBSET S : IsFiniteSet(T) /\ Cardinality(T) \in Nat
  BY FS_Subset, FS_CardinalityType
<1>2. 0 \in Sizes
  BY <1>1, FS_EmptySet
<1>3. \A n \in Nat : n \in Sizes => n + 1 \in Sizes
  <2> SUFFICES ASSUME NEW n \in Nat, n \in Sizes,
                      NEW T \in SUBSET S, Cardinality(T) = n + 1
               PROVE  T \in Good
    OBVIOUS
  <2>1. T # {}
    <3>1. Cardinality({}) = 0
      BY FS_EmptySet
    <3> QED BY <3>1
  <2>2. \A x \in T : Cardinality(T \ {x}) = n
    BY <1>1, FS_RemoveElement
  <2>3. \A x \in T : T \ {x} \in Good
    BY <2>2
  <2> QED BY <2>1, <2>3
<1>4. Nat \subseteq Sizes
  <2> HIDE DEF Sizes
  <2> QED BY <1>2, <1>3, SetInduction
<1> QED BY <1>1, <1>4

(* The recursive definition of the sums defines a function. *)
LEMMA SumsDefined ==
    ASSUME NEW S, IsFiniteSet(S), NEW f, \A x \in S : f[x] \in Int
    PROVE  /\ SumsOf(f, S) \in [SUBSET S -> Int]
           /\ SumsOf(f, S)[{}] = 0
           /\ \A T \in (SUBSET S) \ {{}} :
                 SumsOf(f, S)[T] = f[Picked(T)] + SumsOf(f, S)[T \ {Picked(T)}]
<1> DEFINE Small(n) == {T \in SUBSET S : Cardinality(T) <= n}
           Next(g, T) == IF T = {} THEN 0 ELSE f[Picked(T)] + g[T \ {Picked(T)}]
           IsPart(g, n) == DOMAIN g = Small(n) /\ \A T \in Small(n) : g[T] = Next(g, T)
           Reached == {n \in Nat : \E g : IsPart(g, n)}
<1>1. \A T \in SUBSET S : IsFiniteSet(T) /\ Cardinality(T) \in Nat
                          /\ Cardinality(T) <= Cardinality(S)
  BY FS_Subset, FS_CardinalityType
<1>2. \A T : T # {} => Picked(T) \in T
  BY DEF Picked
<1>3. \A n \in Nat : \A T \in Small(n + 1) : T # {} => T \ {Picked(T)} \in Small(n)
  <2> SUFFICES ASSUME NEW n \in Nat, NEW T \in Small(n + 1), T # {}
               PROVE  T \ {Picked(T)} \in Small(n)
    OBVIOUS
  <2>1. Cardinality(T \ {Picked(T)}) = Cardinality(T) - 1
    BY <1>1, <1>2, FS_RemoveElement
  <2> QED BY <1>1, <2>1
<1>4. 0 \in Reached
  <2>1. Small(0) = {{}}
    BY <1>1, FS_EmptySet
  <2> DEFINE g == [T \in {{}} |-> 0]
  <2>2. IsPart(g, 0)
    BY <2>1
  <2> QED BY <2>2
<1>5. \A n \in Nat : n \in Reached => n + 1 \in Reached
  <2> SUFFICES ASSUME NEW n \in Nat, NEW g, IsPart(g, n)
               PROVE  \E h : IsPart(h, n + 1)
    <3> HIDE DEF IsPart
    <3> QED OBVIOUS
  <2> DEFINE h == [T \in Small(n + 1) |-> Next(g, T)]
  <2>1. \A T \in Small(n) : T \in Small(n + 1) /\ h[T] = g[T]
    BY <1>1
  <2>2. \A T \in Small(n + 1) : T # {} => h[T \ {Picked(T)}] = g[T \ {Picked(T)}]
    BY <1>3, <2>1
  <2>3. IsPart(h, n + 1)
    BY <2>2
  <2> QED BY <2>3
<1>6. Cardinality(S) \in Reached
  <2> HIDE DEF Reached
  <2> QED BY <1>1, <1>4, <1>5, SetInduction
<1>7. PICK g : IsPart(g, Cardinality(S))
  BY <1>6
<1>8. \E k : Unfolds(k, f, S)
  <2> DEFINE k == [T \in SUBSET S |-> g[T]]
  <2>1. Small(Cardinality(S)) = SUBSET S
    BY <1>1
  <2>2. \A T \in SUBSET S : k[T] = Next(k, T)
    BY <1>7, <2>1
  <2>3. Unfolds(k, f, S)
    BY <2>2 DEF Unfolds
  <2> QED BY <2>3
<1> DEFINE p == SumsOf(f, S)
<1>9. Unfolds(p, f, S)
  <2> HIDE DEF Unfolds
  <2> QED BY <1>8 DEF SumsOf
<1> HIDE DEF p
<1>10. /\ DOMAIN p = SUBSET S /\ p[{}] = 0
       /\ \A T \in (SUBSET S) \ {{}} : p[T] = f[Picked(T)] + p[T \ {Picked(T)}]
  BY <1>9 DEF Unfolds
<1>11. p \in [SUBSET S -> Int]
  <2> DEFINE Good == {T \in SUBSET S : p[T] \in Int}
  <2>1. {} \in Good
    BY <1>10
  <2>2. \A T \in SUBSET S : T # {} /\ (\A x \in T : T \ {x} \in Good) => T \in Good
    <3> SUFFICES ASSUME NEW T \in SUBSET S, T # {}, \A x \in T : T \ {x} \in Good
                 PROVE  T \in Good
      OBVIOUS
    <3>1. p[T] = f[Picked(T)] + p[T \ {Picked(T)}] /\ Picked(T) \in S
      BY <1>2, <1>10
    <3>2. p[T \ {Picked(T)}] \in Int /\ f[Picked(T)] \in Int
      BY <1>2, <3>1
    <3> QED BY <3>1, <3>2
  <2>3. SUBSET S \subseteq Good
    <3> HIDE DEF Good
    <3> QED BY <2>1, <2>2, SubsetInduction
  <2>4. p = [T \in SUBSET S |-> p[T]]
    BY <1>9 DEF Unfolds
  <2> QED BY <2>3, <2>4
<1> QED BY <1>10, <1>11 DEF p

(* Any element may be taken first. *)
LEMMA SumsAnyOrder ==
    ASSUME NEW S, IsFiniteSet(S), NEW f, \A x \in S : f[x] \in Int
    PROVE  \A T \in SUBSET S : \A x \in T :
               SumsOf(f, S)[T] = f[x] + SumsOf(f, S)[T \ {x}]
<1> DEFINE p == SumsOf(f, S)
           Good == {T \in SUBSET S : \A x \in T : p[T] = f[x] + p[T \ {x}]}
<1>1. /\ \A T \in SUBSET S : p[T] \in Int
      /\ \A T \in (SUBSET S) \ {{}} : p[T] = f[Picked(T)] + p[T \ {Picked(T)}]
  <2>1. /\ p \in [SUBSET S -> Int]
        /\ \A T \in (SUBSET S) \ {{}} : p[T] = f[Picked(T)] + p[T \ {Picked(T)}]
    BY SumsDefined
  <2> HIDE DEF p
  <2> QED BY <2>1
<1>2. \A T : T # {} => Picked(T) \in T
  BY DEF Picked
<1> HIDE DEF p
<1>3. {} \in Good
  OBVIOUS
<1>4. \A T \in SUBSET S : T # {} /\ (\A x \in T : T \ {x} \in Good) => T \in Good
  <2> SUFFICES ASSUME NEW T \in SUBSET S, NEW x \in T, \A z \in T : T \ {z} \in Good
               PROVE  p[T] = f[x] + p[T \ {x}]
    OBVIOUS
  <2> DEFINE y == Picked(T)
             R == T \ {x, y}
  <2>1. y \in T /\ p[T] = f[y] + p[T \ {y}]
    BY <1>1, <1>2
  <2> HIDE DEF y
  <2>2. CASE x # y
    <3>1. (T \ {y}) \ {x} = R /\ (T \ {x}) \ {y} = R
      OBVIOUS
    <3>2. p[T \ {y}] = f[x] + p[R] /\ p[T \ {x}] = f[y] + p[R]
      BY <2>1, <2>2, <3>1
    <3>3. f[x] \in Int /\ f[y] \in Int /\ p[R] \in Int
      BY <1>1, <2>1
    <3> HIDE DEF R
    <3> QED BY <2>1, <3>2, <3>3
  <2> QED BY <2>1, <2>2
<1>5. SUBSET S \subseteq Good
  <2> HIDE DEF Good
  <2> QED BY <1>3, <1>4, SubsetInduction
<1> QED BY <1>5 DEF p

(* A sum depends on the values over its set only. *)
LEMMA SumsAgree ==
    ASSUME NEW S, NEW R, IsFiniteSet(S), IsFiniteSet(R), NEW f, NEW g,
           \A x \in S : f[x] \in Int, \A x \in R : g[x] \in Int,
           NEW T \in SUBSET (S \cap R), \A x \in T : f[x] = g[x]
    PROVE  SumsOf(f, S)[T] = SumsOf(g, R)[T]
<1> DEFINE p == SumsOf(f, S)
           q == SumsOf(g, R)
           Good == {U \in SUBSET T : p[U] = q[U]}
<1>1. /\ p[{}] = 0
      /\ \A U \in (SUBSET S) \ {{}} : p[U] = f[Picked(U)] + p[U \ {Picked(U)}]
  BY SumsDefined
<1>2. /\ q[{}] = 0
      /\ \A U \in (SUBSET R) \ {{}} : q[U] = g[Picked(U)] + q[U \ {Picked(U)}]
  BY SumsDefined
<1>3. \A U : U # {} => Picked(U) \in U
  BY DEF Picked
<1> HIDE DEF p, q
<1>4. {} \in Good
  BY <1>1, <1>2
<1>5. \A U \in SUBSET T : U # {} /\ (\A x \in U : U \ {x} \in Good) => U \in Good
  BY <1>1, <1>2, <1>3
<1>6. SUBSET T \subseteq Good
  <2>1. IsFiniteSet(T)
    BY FS_Subset
  <2> HIDE DEF Good
  <2> QED BY <1>4, <1>5, <2>1, SubsetInduction
<1> QED BY <1>6 DEF p, q

-----------------------------------------------------------------------------
(* The facts the sums of payouts need. *)

LEMMA SumEmpty == \A f : SumFunctionOnSet(f, {}) = 0
BY SumIs, SumsDefined, FS_EmptySet

LEMMA SumInt ==
    ASSUME NEW S, IsFiniteSet(S), NEW f, \A x \in S : f[x] \in Int
    PROVE  SumFunctionOnSet(f, S) \in Int
<1>1. SumsOf(f, S) \in [SUBSET S -> Int]
  BY SumsDefined
<1>2. SumFunctionOnSet(f, S) = SumsOf(f, S)[S]
  BY SumIs
<1> QED BY <1>1, <1>2

LEMMA SumSame ==
    ASSUME NEW S, IsFiniteSet(S), NEW f, NEW g, \A x \in S : f[x] \in Int /\ f[x] = g[x]
    PROVE  SumFunctionOnSet(f, S) = SumFunctionOnSet(g, S)
BY SumIs, SumsAgree

LEMMA SumWithout ==
    ASSUME NEW S, IsFiniteSet(S), NEW f, \A x \in S : f[x] \in Int, NEW x \in S
    PROVE  SumFunctionOnSet(f, S) = f[x] + SumFunctionOnSet(f, S \ {x})
<1>1. SumsOf(f, S)[S] = f[x] + SumsOf(f, S)[S \ {x}]
  BY SumsAnyOrder
<1>2. SumsOf(f, S)[S \ {x}] = SumsOf(f, S \ {x})[S \ {x}]
  <2>1. IsFiniteSet(S \ {x})
    BY FS_Subset
  <2> QED BY <2>1, SumsAgree
<1> QED BY <1>1, <1>2, SumIs

LEMMA SumWith ==
    ASSUME NEW S, IsFiniteSet(S), NEW f, NEW x, x \notin S,
           \A y \in S \cup {x} : f[y] \in Int
    PROVE  SumFunctionOnSet(f, S \cup {x}) = f[x] + SumFunctionOnSet(f, S)
<1>1. IsFiniteSet(S \cup {x}) /\ (S \cup {x}) \ {x} = S
  BY FS_AddElement
<1> QED BY <1>1, SumWithout

LEMMA SumNat ==
    ASSUME NEW S, IsFiniteSet(S), NEW f, \A x \in S : f[x] \in Nat
    PROVE  SumFunctionOnSet(f, S) \in Nat
<1> DEFINE p == SumsOf(f, S)
           Good == {T \in SUBSET S : p[T] \in Nat}
<1>0. \A x \in S : f[x] \in Int
  OBVIOUS
<1>1. /\ p[{}] = 0
      /\ \A T \in SUBSET S : \A x \in T : p[T] = f[x] + p[T \ {x}]
  <2>1. p[{}] = 0
    BY <1>0, SumsDefined
  <2>2. \A T \in SUBSET S : \A x \in T : p[T] = f[x] + p[T \ {x}]
    <3> TAKE T \in SUBSET S
    <3> TAKE x \in T
    <3> QED BY <1>0, SumsAnyOrder
  <2> QED BY <2>1, <2>2
<1> HIDE DEF p
<1>2. {} \in Good
  BY <1>1
<1>3. \A T \in SUBSET S : T # {} /\ (\A x \in T : T \ {x} \in Good) => T \in Good
  <2> SUFFICES ASSUME NEW T \in SUBSET S, NEW x \in T, T \ {x} \in Good
               PROVE  T \in Good
    OBVIOUS
  <2>1. p[T] = f[x] + p[T \ {x}] /\ f[x] \in Nat /\ p[T \ {x}] \in Nat
    BY <1>1
  <2> QED BY <2>1
<1>4. S \in Good
  <2> HIDE DEF Good
  <2> QED BY <1>2, <1>3, SubsetInduction
<1> QED BY <1>4, SumIs DEF p

LEMMA SumZero ==
    ASSUME NEW S, IsFiniteSet(S), NEW f, \A x \in S : f[x] \in Int
    PROVE  (\A x \in S : f[x] = 0) => SumFunctionOnSet(f, S) = 0
<1> DEFINE p == SumsOf(f, S)
           Good == {T \in SUBSET S : p[T] = 0}
<1>1. p[{}] = 0
  BY SumsDefined
<1>2. \A T \in SUBSET S : \A x \in T : p[T] = f[x] + p[T \ {x}]
  <2> TAKE T \in SUBSET S
  <2> TAKE x \in T
  <2> QED BY SumsAnyOrder
<1> SUFFICES ASSUME \A x \in S : f[x] = 0 PROVE p[S] = 0
  BY SumIs
<1> HIDE DEF p
<1>3. {} \in Good
  BY <1>1
<1>4. \A T \in SUBSET S : T # {} /\ (\A x \in T : T \ {x} \in Good) => T \in Good
  <2> SUFFICES ASSUME NEW T \in SUBSET S, NEW x \in T, T \ {x} \in Good
               PROVE  T \in Good
    OBVIOUS
  <2>1. p[T] = f[x] + p[T \ {x}] /\ f[x] = 0 /\ p[T \ {x}] = 0
    BY <1>2
  <2> QED BY <2>1
<1>5. S \in Good
  <2> HIDE DEF Good
  <2> QED BY <1>3, <1>4, SubsetInduction
<1> QED BY <1>5

(* Changing one summand changes the sum by as much. *)
LEMMA SumUpdated ==
    ASSUME NEW S, IsFiniteSet(S), NEW f, NEW g, NEW x \in S,
           \A y \in S : f[y] \in Int /\ g[y] \in Int,
           \A y \in S \ {x} : g[y] = f[y]
    PROVE  SumFunctionOnSet(g, S) = SumFunctionOnSet(f, S) - f[x] + g[x]
<1> DEFINE rest == SumFunctionOnSet(f, S \ {x})
<1>1. IsFiniteSet(S \ {x})
  BY FS_RemoveElement
<1>2. SumFunctionOnSet(g, S \ {x}) = rest
  BY <1>1, SumSame
<1>3. /\ SumFunctionOnSet(f, S) = f[x] + rest
      /\ SumFunctionOnSet(g, S) = g[x] + rest
  BY <1>2, SumWithout
<1>4. rest \in Int
  BY <1>1, SumInt
<1> HIDE DEF rest
<1> QED BY <1>3, <1>4

=============================================================================
