---------------------------------- MODULE Sums ----------------------------------
(***************************************************************************)
(* Facts about finite sums, SumFunctionOnSet of the community module       *)
(* Functions: what it is for the empty set, and that any element may be    *)
(* taken out first.  A recursive function is a CHOOSE; that one exists is  *)
(* proved by induction, and induction from the least counterexample of a   *)
(* set, which needs no operator to be instantiated.                        *)
(***************************************************************************)
EXTENDS FiniteSetsExt, FiniteSetTheorems, TLAPS

\* A set of naturals that is not empty has a least element.
LEMMA LeastNumber ==
    ASSUME NEW B, B \subseteq Nat, B # {}
    PROVE  \E n \in B : \A m \in B : n <= m
<1>1. PICK n \in B : \A m \in B : ~(<<m, n>> \in OpToRel(<, Nat))
  BY NatLessThanWellFounded, WFMin
<1>2. \A m \in B : ~(m < n)
  <2> TAKE m \in B
  <2>1. m \in Nat /\ n \in Nat
    OBVIOUS
  <2>2. ASSUME m < n PROVE FALSE
    <3>1. <<m, n>> \in Nat \X Nat /\ <<m, n>>[1] = m /\ <<m, n>>[2] = n
      BY <2>1
    <3>2. <<m, n>> \in OpToRel(<, Nat)
      BY <2>2, <3>1 DEF OpToRel
    <3> QED
      BY <1>1, <3>2
  <2> QED
    BY <2>2
<1> QED
  BY <1>2

\* Of subsets of a finite set, one loses its membership with any element.
LEMMA LeastSet ==
    ASSUME NEW S, IsFiniteSet(S), NEW W, W \subseteq SUBSET S, W # {}
    PROVE  \E T \in W : \A x \in T : T \ {x} \notin W
<1> DEFINE B == {n \in Nat : \E T \in W : Cardinality(T) = n}
<1>1. \A T \in SUBSET S : IsFiniteSet(T) /\ Cardinality(T) \in Nat
  BY FS_Subset, FS_CardinalityType
<1>2. B # {}
  BY <1>1
<1>3. PICK n \in B : \A m \in B : n <= m
  BY <1>2, LeastNumber
<1>4. PICK T \in W : Cardinality(T) = n
  BY <1>3
<1>5. ASSUME NEW x \in T PROVE T \ {x} \notin W
  <2>1. Cardinality(T \ {x}) = n - 1
    BY <1>1, <1>4, FS_RemoveElement
  <2>2. n \in Nat
    BY <1>3
  <2> QED
    BY <1>1, <1>3, <2>1, <2>2
<1> QED
  BY <1>5

\* A family of finite sets that has {} and grows by any element has every one.
LEMMA FiniteInduction ==
    ASSUME NEW S, IsFiniteSet(S), NEW G, {} \in G,
           \A T \in SUBSET S : \A x \in S : T \in G /\ x \notin T => T \cup {x} \in G
    PROVE  S \in G
<1> SUFFICES ASSUME S \notin G PROVE FALSE
  OBVIOUS
<1>1. PICK T \in (SUBSET S) \ G : \A x \in T : T \ {x} \notin (SUBSET S) \ G
  BY LeastSet
<1>2. PICK x : x \in T
  BY <1>1
<1>3. T \ {x} \in G /\ T \ {x} \in SUBSET S /\ x \in S /\ x \notin T \ {x}
  BY <1>1, <1>2
<1>4. (T \ {x}) \cup {x} \in G
  BY <1>3
<1>5. (T \ {x}) \cup {x} = T
  BY <1>2
<1> QED
  BY <1>1, <1>4, <1>5

-----------------------------------------------------------------------------
(* The recursive function behind a sum                                       *)

Pick(T) == CHOOSE x \in T : TRUE
\* g gives the sum of f over every subset of S.
Sums(g, f, S) ==
    g = [T \in SUBSET S |-> IF T = {} THEN 0 ELSE f[Pick(T)] + g[T \ {Pick(T)}]]
\* g does so for the subsets of at most n elements.
SumsUpTo(g, f, S, n) ==
    \A T \in SUBSET S : Cardinality(T) <= n =>
        g[T] = IF T = {} THEN 0 ELSE f[Pick(T)] + g[T \ {Pick(T)}]

\* Such functions exist, from smaller subsets to larger ones.
LEMMA SumsExist ==
    ASSUME NEW S, IsFiniteSet(S), NEW f, \A x \in S : f[x] \in Int
    PROVE  \E g \in [SUBSET S -> Int] : Sums(g, f, S)
<1> DEFINE B == {n \in Nat : ~\E g \in [SUBSET S -> Int] : SumsUpTo(g, f, S, n)}
<1>1. \A T \in SUBSET S : /\ IsFiniteSet(T) /\ Cardinality(T) \in Nat
                          /\ Cardinality(T) <= Cardinality(S)
                          /\ Cardinality(T) = 0 <=> T = {}
  BY FS_Subset, FS_CardinalityType, FS_EmptySet
<1>2. \A T \in SUBSET S : T # {} => /\ Pick(T) \in T /\ T \ {Pick(T)} \in SUBSET S
                                    /\ Cardinality(T \ {Pick(T)}) = Cardinality(T) - 1
  BY <1>1, FS_RemoveElement DEF Pick
<1>3. B = {}
  <2> SUFFICES ASSUME B # {} PROVE FALSE
    OBVIOUS
  <2>1. PICK n \in B : \A m \in B : n <= m
    BY LeastNumber
  <2>2. CASE n = 0
    <3> DEFINE g == [T \in SUBSET S |-> 0]
    <3>1. g \in [SUBSET S -> Int] /\ SumsUpTo(g, f, S, 0)
      BY <1>1 DEF SumsUpTo
    <3> QED
      BY <2>1, <2>2, <3>1
  <2>3. CASE n # 0
    <3>0. n \in Nat /\ n - 1 \in Nat
      BY <2>3
    <3>1. n \in Nat /\ n - 1 \in Nat /\ n - 1 \notin B
      <4> HIDE DEF B
      <4> QED
        BY <2>1, <3>0
    <3>2. PICK g \in [SUBSET S -> Int] : SumsUpTo(g, f, S, n - 1)
      BY <3>1
    <3> DEFINE h == [T \in SUBSET S |-> IF Cardinality(T) = n
                                        THEN f[Pick(T)] + g[T \ {Pick(T)}] ELSE g[T]]
    <3>3. h \in [SUBSET S -> Int]
      BY <1>1, <1>2, <2>3, <3>1
    <3>4. \A T \in SUBSET S : T # {} /\ Cardinality(T) <= n =>
             h[T \ {Pick(T)}] = g[T \ {Pick(T)}]
      BY <1>1, <1>2, <3>1
    <3>5. SumsUpTo(h, f, S, n)
      <4> SUFFICES ASSUME NEW T \in SUBSET S, Cardinality(T) <= n
                   PROVE  h[T] = IF T = {} THEN 0 ELSE f[Pick(T)] + h[T \ {Pick(T)}]
        BY DEF SumsUpTo
      <4>1. CASE Cardinality(T) = n
        BY <1>1, <2>3, <3>4, <4>1
      <4>2. CASE Cardinality(T) # n
        <5>1. Cardinality(T) <= n - 1 /\ h[T] = g[T]
          BY <1>1, <3>1, <4>2
        <5>2. g[T] = IF T = {} THEN 0 ELSE f[Pick(T)] + g[T \ {Pick(T)}]
          BY <3>2, <5>1 DEF SumsUpTo
        <5> QED
          BY <3>4, <5>1, <5>2
      <4> QED
        BY <4>1, <4>2
    <3> QED
      BY <2>1, <3>3, <3>5
  <2> QED
    BY <2>2, <2>3
<1>4. Cardinality(S) \in Nat /\ Cardinality(S) \notin B
  BY <1>1, <1>3
<1>5. PICK g \in [SUBSET S -> Int] : SumsUpTo(g, f, S, Cardinality(S))
  BY <1>4
<1>6. Sums(g, f, S)
  BY <1>1, <1>5 DEF Sums, SumsUpTo
<1> QED
  BY <1>6

\* The sum is the value of one of them.
LEMMA SumIsOne ==
    ASSUME NEW S, IsFiniteSet(S), NEW f, \A x \in S : f[x] \in Int
    PROVE  \E g : Sums(g, f, S) /\ SumFunctionOnSet(f, S) = g[S]
<1> DEFINE c == CHOOSE g : Sums(g, f, S)
<1>1. Sums(c, f, S)
  BY SumsExist
<1>2. SumFunctionOnSet(f, S) = c[S]
  BY DEF SumFunctionOnSet, FoldFunctionOnSet, MapThenFoldSet, Sums, Pick
<1> QED
  BY <1>1, <1>2

-----------------------------------------------------------------------------
(* Sums                                                                      *)

\* Nothing sums to 0.
LEMMA SumEmpty == ASSUME NEW f PROVE SumFunctionOnSet(f, {}) = 0
<1>1. IsFiniteSet({})
  BY FS_EmptySet
<1>2. PICK g : Sums(g, f, {}) /\ SumFunctionOnSet(f, {}) = g[{}]
  BY <1>1, SumIsOne
<1> QED
  BY <1>2 DEF Sums

\* Two such functions agree on the subsets they share, so what is summed over a
\* part depends on the values in that part only.
LEMMA SumsAgree ==
    ASSUME NEW S, IsFiniteSet(S), NEW f, NEW h, \A x \in S : f[x] = h[x],
           NEW R, S \subseteq R, NEW g, Sums(g, f, R),
           NEW Q, S \subseteq Q, NEW k, Sums(k, h, Q)
    PROVE  g[S] = k[S]
<1> DEFINE W == {T \in SUBSET S : g[T] # k[T]}
<1>1. ASSUME NEW T \in W, \A x \in T : T \ {x} \notin W PROVE FALSE
  <2>1. /\ g[T] = IF T = {} THEN 0 ELSE f[Pick(T)] + g[T \ {Pick(T)}]
        /\ k[T] = IF T = {} THEN 0 ELSE h[Pick(T)] + k[T \ {Pick(T)}]
    BY DEF Sums
  <2>2. T # {} /\ Pick(T) \in T
    BY <2>1 DEF Pick
  <2>3. g[T \ {Pick(T)}] = k[T \ {Pick(T)}]
    BY <1>1, <2>2
  <2> QED
    BY <2>1, <2>2, <2>3
<1>2. W = {}
  BY <1>1, LeastSet
<1> QED
  BY <1>2

\* Any element may be taken out first.
TakesOut(g, f, S, x) == g[S] = f[x] + g[S \ {x}]

\* The sums a recursive function gives do not depend on the element CHOOSE takes.
LEMMA SumsRemove ==
    ASSUME NEW S, IsFiniteSet(S), NEW f, \A x \in S : f[x] \in Int,
           NEW g \in [SUBSET S -> Int], Sums(g, f, S), NEW x \in S
    PROVE  TakesOut(g, f, S, x)
<1> DEFINE W == {T \in SUBSET S : \E y \in T : g[T] # f[y] + g[T \ {y}]}
<1>1. ASSUME NEW T \in W, \A y \in T : T \ {y} \notin W PROVE FALSE
  <2>1. PICK y \in T : g[T] # f[y] + g[T \ {y}]
    OBVIOUS
  <2>2. PICK z \in T : g[T] = f[z] + g[T \ {z}]
    <3>1. Pick(T) \in T
      BY DEF Pick
    <3> QED
      BY <3>1 DEF Sums
  <2>3. y # z
    BY <2>1, <2>2
  <2>4. g[T \ {z}] = f[y] + g[(T \ {z}) \ {y}]
    BY <1>1, <2>3
  <2>5. g[T \ {y}] = f[z] + g[(T \ {y}) \ {z}]
    BY <1>1, <2>3
  <2> DEFINE u == g[(T \ {y}) \ {z}]
  <2>6. (T \ {z}) \ {y} = (T \ {y}) \ {z}
    OBVIOUS
  <2>7. u \in Int /\ f[y] \in Int /\ f[z] \in Int
    OBVIOUS
  <2>8. g[T] = f[z] + (f[y] + u) /\ f[y] + g[T \ {y}] = f[y] + (f[z] + u)
    BY <2>2, <2>4, <2>5, <2>6
  <2>9. f[z] + (f[y] + u) = f[y] + (f[z] + u)
    <3> HIDE DEF u
    <3> QED
      BY <2>7
  <2> QED
    BY <2>1, <2>8, <2>9
<1>2. W = {}
  BY <1>1, LeastSet
<1> QED
  BY <1>2 DEF TakesOut

\* A sum over a finite set: an element taken out, and what is left.
LEMMA SumRemove ==
    ASSUME NEW S, IsFiniteSet(S), NEW f, \A x \in S : f[x] \in Int, NEW x \in S
    PROVE  /\ SumFunctionOnSet(f, S \ {x}) \in Int
           /\ SumFunctionOnSet(f, S) = f[x] + SumFunctionOnSet(f, S \ {x})
<1> DEFINE R == S \ {x}
<1>1. PICK g \in [SUBSET S -> Int] : Sums(g, f, S)
  BY SumsExist
<1>2. PICK a : Sums(a, f, S) /\ SumFunctionOnSet(f, S) = a[S]
  BY SumIsOne
<1>3. IsFiniteSet(R) /\ R \subseteq S /\ \A y \in R : f[y] \in Int
  BY FS_RemoveElement
<1>4. PICK b : Sums(b, f, R) /\ SumFunctionOnSet(f, R) = b[R]
  BY <1>3, SumIsOne
<1>5. a[S] = g[S]
  BY <1>1, <1>2, SumsAgree
<1>6. b[R] = g[R]
  BY <1>1, <1>3, <1>4, SumsAgree
<1>7. g[S] = f[x] + g[R]
  <2>1. g[S] = f[x] + g[S \ {x}]
    <3>1. TakesOut(g, f, S, x)
      BY <1>1, SumsRemove
    <3> QED
      BY <3>1 DEF TakesOut
  <2> QED
    BY <2>1
<1>8. g[R] \in Int
  BY <1>1, <1>3
<1> QED
  BY <1>2, <1>4, <1>5, <1>6, <1>7, <1>8

\* A sum of integers is an integer.
LEMMA SumInt ==
    ASSUME NEW S, IsFiniteSet(S), NEW f, \A x \in S : f[x] \in Int
    PROVE  SumFunctionOnSet(f, S) \in Int
<1>1. PICK g \in [SUBSET S -> Int] : Sums(g, f, S)
  BY SumsExist
<1>2. PICK a : Sums(a, f, S) /\ SumFunctionOnSet(f, S) = a[S]
  BY SumIsOne
<1>3. a[S] = g[S] /\ g[S] \in Int
  BY <1>1, <1>2, SumsAgree
<1> QED
  BY <1>2, <1>3

\* A sum depends only on the values summed.
LEMMA SumSame ==
    ASSUME NEW S, IsFiniteSet(S), NEW f, NEW h,
           \A x \in S : f[x] \in Int /\ f[x] = h[x]
    PROVE  SumFunctionOnSet(f, S) = SumFunctionOnSet(h, S)
<1>1. \A x \in S : h[x] \in Int
  OBVIOUS
<1>2. PICK a : Sums(a, f, S) /\ SumFunctionOnSet(f, S) = a[S]
  BY SumIsOne
<1>3. PICK b : Sums(b, h, S) /\ SumFunctionOnSet(h, S) = b[S]
  BY <1>1, SumIsOne
<1>4. a[S] = b[S]
  BY <1>2, <1>3, SumsAgree
<1> QED
  BY <1>2, <1>3, <1>4

\* An element added.
LEMMA SumAdd ==
    ASSUME NEW S, IsFiniteSet(S), NEW f, NEW x, x \notin S,
           \A y \in S \cup {x} : f[y] \in Int
    PROVE  SumFunctionOnSet(f, S \cup {x}) = f[x] + SumFunctionOnSet(f, S)
<1>1. IsFiniteSet(S \cup {x}) /\ x \in S \cup {x} /\ (S \cup {x}) \ {x} = S
  BY FS_AddElement
<1> QED
  BY <1>1, SumRemove

\* Term by term, a sum of greater numbers is greater.
LEMMA SumMonotone ==
    ASSUME NEW S, IsFiniteSet(S), NEW f, NEW h,
           \A x \in S : f[x] \in Int /\ h[x] \in Int /\ f[x] <= h[x]
    PROVE  SumFunctionOnSet(f, S) <= SumFunctionOnSet(h, S)
<1> DEFINE G == {T \in SUBSET S : SumFunctionOnSet(f, T) <= SumFunctionOnSet(h, T)}
<1>1. {} \in G
  BY SumEmpty
<1>2. ASSUME NEW T \in SUBSET S, NEW x \in S, T \in G, x \notin T
      PROVE  T \cup {x} \in G
  <2>1. IsFiniteSet(T) /\ T \cup {x} \in SUBSET S
    BY FS_Subset
  <2>2. SumFunctionOnSet(f, T) \in Int /\ SumFunctionOnSet(h, T) \in Int
    BY <2>1, SumInt
  <2>3. /\ SumFunctionOnSet(f, T \cup {x}) = f[x] + SumFunctionOnSet(f, T)
        /\ SumFunctionOnSet(h, T \cup {x}) = h[x] + SumFunctionOnSet(h, T)
    BY <1>2, <2>1, SumAdd
  <2>4. SumFunctionOnSet(f, T) <= SumFunctionOnSet(h, T)
    BY <1>2
  <2>5. SumFunctionOnSet(f, T \cup {x}) <= SumFunctionOnSet(h, T \cup {x})
    BY <2>2, <2>3, <2>4
  <2> QED
    BY <2>1, <2>5
<1>3. S \in G
  <2> HIDE DEF G
  <2> QED
    BY <1>1, <1>2, FiniteInduction
<1> QED
  BY <1>3

\* What one element changes in a sum, by coming, going or changing its value.
LEMMA SumChange ==
    ASSUME NEW S, IsFiniteSet(S), NEW f, NEW R, NEW h, NEW x,
           \A y \in S : f[y] \in Int,
           \A y \in R : h[y] \in Int,
           \A y : y # x => (y \in S <=> y \in R),
           \A y \in S : y # x => f[y] = h[y]
    PROVE  /\ SumFunctionOnSet(f, S) \in Int /\ SumFunctionOnSet(h, R) \in Int
           /\ SumFunctionOnSet(h, R) - (IF x \in R THEN h[x] ELSE 0)
                = SumFunctionOnSet(f, S) - (IF x \in S THEN f[x] ELSE 0)
<1> DEFINE T == S \ {x}
<1>1. T = R \ {x}
  OBVIOUS
<1>2. IsFiniteSet(T) /\ (x \notin S => S = T) /\ (x \notin R => R = T)
  BY <1>1, FS_RemoveElement
<1>3. IsFiniteSet(R)
  <2>1. x \in R => R = T \cup {x}
    BY <1>1
  <2> QED
    BY <1>2, <2>1, FS_AddElement, ZenonT(60)
<1>4. SumFunctionOnSet(f, T) = SumFunctionOnSet(h, T) /\ SumFunctionOnSet(f, T) \in Int
  <2>1. \A y \in T : f[y] \in Int /\ f[y] = h[y]
    OBVIOUS
  <2> HIDE DEF T
  <2> QED
    BY <1>2, <2>1, SumSame, SumInt
<1>5. SumFunctionOnSet(f, S) - (IF x \in S THEN f[x] ELSE 0) = SumFunctionOnSet(f, T)
  <2>1. CASE x \in S
    <3>1. SumFunctionOnSet(f, S) = f[x] + SumFunctionOnSet(f, T) /\ f[x] \in Int
      BY <2>1, SumRemove
    <3> HIDE DEF T
    <3> QED
      BY <1>4, <2>1, <3>1
  <2>2. CASE x \notin S
    <3> HIDE DEF T
    <3> QED
      BY <1>2, <1>4, <2>2
  <2> QED
    BY <2>1, <2>2
<1>6. SumFunctionOnSet(h, R) - (IF x \in R THEN h[x] ELSE 0) = SumFunctionOnSet(h, T)
  <2>1. CASE x \in R
    <3>1. SumFunctionOnSet(h, R) = h[x] + SumFunctionOnSet(h, T) /\ h[x] \in Int
      BY <1>1, <1>3, <2>1, SumRemove
    <3> HIDE DEF T
    <3> QED
      BY <1>4, <2>1, <3>1
  <2>2. CASE x \notin R
    <3> HIDE DEF T
    <3> QED
      BY <1>2, <1>4, <2>2
  <2> QED
    BY <2>1, <2>2
<1> QED
  BY <1>3, <1>4, <1>5, <1>6, SumInt

\* No term of a sum of naturals is greater than the sum.
LEMMA SumNat ==
    ASSUME NEW S, IsFiniteSet(S), NEW f, \A x \in S : f[x] \in Nat
    PROVE  /\ SumFunctionOnSet(f, S) \in Nat
           /\ \A x \in S : f[x] <= SumFunctionOnSet(f, S)
<1> DEFINE G == {T \in SUBSET S : SumFunctionOnSet(f, T) \in Nat}
<1>1. {} \in G
  BY SumEmpty
<1>2. ASSUME NEW T \in SUBSET S, NEW x \in S, T \in G, x \notin T
      PROVE  T \cup {x} \in G
  <2>1. IsFiniteSet(T) /\ T \cup {x} \in SUBSET S
    BY FS_Subset
  <2>2. SumFunctionOnSet(f, T \cup {x}) = f[x] + SumFunctionOnSet(f, T)
    <3>1. \A y \in T \cup {x} : f[y] \in Int
      OBVIOUS
    <3> QED
      BY <1>2, <2>1, <3>1, SumAdd
  <2>3. SumFunctionOnSet(f, T) \in Nat
    BY <1>2
  <2>4. SumFunctionOnSet(f, T \cup {x}) \in Nat
    BY <2>2, <2>3
  <2> QED
    BY <2>1, <2>4
<1>3. \A T \in SUBSET S : T \in G
  <2> SUFFICES ASSUME NEW T \in SUBSET S PROVE T \in G
    OBVIOUS
  <2>1. IsFiniteSet(T) /\ \A U \in SUBSET T : \A x \in T : U \in SUBSET S /\ x \in S
    BY FS_Subset
  <2>2. \A U \in SUBSET T : \A x \in T : U \in G /\ x \notin U => U \cup {x} \in G
    BY <1>2, <2>1
  <2> HIDE DEF G
  <2> QED
    BY <1>1, <2>1, <2>2, FiniteInduction
<1>4. ASSUME NEW x \in S PROVE f[x] <= SumFunctionOnSet(f, S)
  <2>1. SumFunctionOnSet(f, S) = f[x] + SumFunctionOnSet(f, S \ {x})
    BY SumRemove
  <2>2. SumFunctionOnSet(f, S \ {x}) \in Nat
    BY <1>3
  <2> QED
    BY <2>1, <2>2
<1> QED
  BY <1>3, <1>4

\* A sum of zeros.
LEMMA SumZero ==
    ASSUME NEW S, IsFiniteSet(S), NEW f, \A x \in S : f[x] = 0
    PROVE  SumFunctionOnSet(f, S) = 0
<1> DEFINE G == {T \in SUBSET S : SumFunctionOnSet(f, T) = 0}
<1>1. {} \in G
  BY SumEmpty
<1>2. ASSUME NEW T \in SUBSET S, NEW x \in S, T \in G, x \notin T
      PROVE  T \cup {x} \in G
  <2>1. IsFiniteSet(T) /\ \A y \in T \cup {x} : f[y] \in Int
    BY FS_Subset
  <2>2. SumFunctionOnSet(f, T \cup {x}) = f[x] + SumFunctionOnSet(f, T)
    BY <1>2, <2>1, SumAdd
  <2> QED
    BY <1>2, <2>2
<1>3. S \in G
  <2> HIDE DEF G
  <2> QED
    BY <1>1, <1>2, FiniteInduction
<1> QED
  BY <1>3

\* A sum of sums.
LEMMA SumPlus ==
    ASSUME NEW S, IsFiniteSet(S), NEW f, NEW h, NEW k,
           \A x \in S : f[x] \in Int /\ h[x] \in Int /\ k[x] = f[x] + h[x]
    PROVE  SumFunctionOnSet(k, S) = SumFunctionOnSet(f, S) + SumFunctionOnSet(h, S)
<1> DEFINE G == {T \in SUBSET S : SumFunctionOnSet(k, T)
                                    = SumFunctionOnSet(f, T) + SumFunctionOnSet(h, T)}
<1>1. {} \in G
  BY SumEmpty
<1>2. ASSUME NEW T \in SUBSET S, NEW x \in S, T \in G, x \notin T
      PROVE  T \cup {x} \in G
  <2>1. IsFiniteSet(T) /\ T \cup {x} \in SUBSET S
    BY FS_Subset
  <2>2. \A y \in T \cup {x} : f[y] \in Int /\ h[y] \in Int /\ k[y] \in Int
    OBVIOUS
  <2>3. SumFunctionOnSet(f, T) \in Int /\ SumFunctionOnSet(h, T) \in Int
    BY <2>1, <2>2, SumInt
  <2>4. /\ SumFunctionOnSet(f, T \cup {x}) = f[x] + SumFunctionOnSet(f, T)
        /\ SumFunctionOnSet(h, T \cup {x}) = h[x] + SumFunctionOnSet(h, T)
        /\ SumFunctionOnSet(k, T \cup {x}) = k[x] + SumFunctionOnSet(k, T)
    BY <1>2, <2>1, <2>2, SumAdd
  <2>5. SumFunctionOnSet(k, T) = SumFunctionOnSet(f, T) + SumFunctionOnSet(h, T)
    BY <1>2
  <2>6. SumFunctionOnSet(k, T \cup {x})
          = SumFunctionOnSet(f, T \cup {x}) + SumFunctionOnSet(h, T \cup {x})
    BY <2>2, <2>3, <2>4, <2>5
  <2> QED
    BY <2>1, <2>6
<1>3. S \in G
  <2> HIDE DEF G
  <2> QED
    BY <1>1, <1>2, FiniteInduction
<1> QED
  BY <1>3

\* Zeros may be left out.
LEMMA SumSupport ==
    ASSUME NEW S, IsFiniteSet(S), NEW R \in SUBSET S, NEW f,
           \A x \in S : f[x] \in Int, \A x \in S : x \notin R => f[x] = 0
    PROVE  SumFunctionOnSet(f, S) = SumFunctionOnSet(f, R)
<1> DEFINE G == {T \in SUBSET (S \ R) : SumFunctionOnSet(f, R \cup T) = SumFunctionOnSet(f, R)}
<1>1. {} \in G
  <2>1. R \cup {} = R
    OBVIOUS
  <2> QED
    BY <2>1
<1>2. ASSUME NEW T \in SUBSET (S \ R), NEW x \in S \ R, T \in G, x \notin T
      PROVE  T \cup {x} \in G
  <2>1. R \cup T \in SUBSET S /\ x \notin R \cup T /\ R \cup (T \cup {x}) = (R \cup T) \cup {x}
    BY <1>2
  <2>2. IsFiniteSet(R \cup T)
    BY <2>1, FS_Subset
  <2>3. \A y \in (R \cup T) \cup {x} : f[y] \in Int
    OBVIOUS
  <2>4. SumFunctionOnSet(f, (R \cup T) \cup {x}) = f[x] + SumFunctionOnSet(f, R \cup T)
    BY <2>1, <2>3, <2>2, SumAdd
  <2>5. SumFunctionOnSet(f, R \cup T) \in Int
    BY <2>3, <2>2, SumInt
  <2>6. SumFunctionOnSet(f, (R \cup T) \cup {x}) = SumFunctionOnSet(f, R)
    BY <1>2, <2>4, <2>5
  <2> QED
    BY <2>1, <2>6
<1>3. S \ R \in G
  <2> HIDE DEF G
  <2>1. IsFiniteSet(S \ R)
    BY FS_Subset
  <2> QED
    BY <1>1, <1>2, <2>1, FiniteInduction
<1>4. R \cup (S \ R) = S
  OBVIOUS
<1> QED
  BY <1>3, <1>4

\* A part and the rest.
LEMMA SumSplit ==
    ASSUME NEW S, IsFiniteSet(S), NEW R \in SUBSET S, NEW f, \A x \in S : f[x] \in Int
    PROVE  /\ SumFunctionOnSet(f, R) \in Int /\ SumFunctionOnSet(f, S \ R) \in Int
           /\ SumFunctionOnSet(f, S) = SumFunctionOnSet(f, R) + SumFunctionOnSet(f, S \ R)
<1> DEFINE a == [x \in S |-> IF x \in R THEN f[x] ELSE 0]
           b == [x \in S |-> IF x \in R THEN 0 ELSE f[x]]
<1>1. /\ \A x \in S : a[x] \in Int /\ b[x] \in Int /\ f[x] = a[x] + b[x]
      /\ \A x \in R : f[x] \in Int /\ f[x] = a[x]
      /\ \A x \in S \ R : f[x] \in Int /\ f[x] = b[x]
      /\ \A x \in S : x \notin R => a[x] = 0
      /\ \A x \in S : x \notin S \ R => b[x] = 0
  OBVIOUS
<1>2. IsFiniteSet(R) /\ IsFiniteSet(S \ R) /\ S \ R \in SUBSET S
  BY FS_Subset
<1> HIDE DEF a, b
<1>3. SumFunctionOnSet(f, S) = SumFunctionOnSet(a, S) + SumFunctionOnSet(b, S)
  BY <1>1, SumPlus
<1>4. SumFunctionOnSet(a, S) = SumFunctionOnSet(a, R)
  BY <1>1, SumSupport
<1>5. SumFunctionOnSet(b, S) = SumFunctionOnSet(b, S \ R)
  BY <1>1, <1>2, SumSupport
<1>6. SumFunctionOnSet(f, R) = SumFunctionOnSet(a, R)
  BY <1>1, <1>2, SumSame
<1>7. SumFunctionOnSet(f, S \ R) = SumFunctionOnSet(b, S \ R)
  BY <1>1, <1>2, SumSame
<1>8. SumFunctionOnSet(f, R) \in Int /\ SumFunctionOnSet(f, S \ R) \in Int
  BY <1>1, <1>2, SumInt
<1> QED
  BY <1>3, <1>4, <1>5, <1>6, <1>7, <1>8

\* A factor may be taken out.
LEMMA SumTimes ==
    ASSUME NEW S, IsFiniteSet(S), NEW c \in Int, NEW f, NEW h,
           \A x \in S : f[x] \in Int /\ h[x] = c * f[x]
    PROVE  SumFunctionOnSet(h, S) = c * SumFunctionOnSet(f, S)
<1> DEFINE G == {T \in SUBSET S : SumFunctionOnSet(h, T) = c * SumFunctionOnSet(f, T)}
<1>1. {} \in G
  BY SumEmpty
<1>2. ASSUME NEW T \in SUBSET S, NEW x \in S, T \in G, x \notin T
      PROVE  T \cup {x} \in G
  <2>1. IsFiniteSet(T) /\ T \cup {x} \in SUBSET S
    BY FS_Subset
  <2>2. \A y \in T \cup {x} : f[y] \in Int /\ h[y] \in Int
    <3> TAKE y \in T \cup {x}
    <3>1. f[y] \in Int /\ h[y] = c * f[y]
      OBVIOUS
    <3> QED
      BY <3>1
  <2>3. SumFunctionOnSet(f, T) \in Int
    BY <2>1, <2>2, SumInt
  <2>4. /\ SumFunctionOnSet(f, T \cup {x}) = f[x] + SumFunctionOnSet(f, T)
        /\ SumFunctionOnSet(h, T \cup {x}) = h[x] + SumFunctionOnSet(h, T)
    BY <1>2, <2>1, <2>2, SumAdd
  <2>5. SumFunctionOnSet(h, T) = c * SumFunctionOnSet(f, T)
    BY <1>2
  <2>6. f[x] \in Int /\ h[x] = c * f[x]
    OBVIOUS
  <2>7. \A a, b \in Int : c * a + c * b = c * (a + b)
    OBVIOUS
  <2>8. SumFunctionOnSet(h, T \cup {x}) = c * SumFunctionOnSet(f, T \cup {x})
    BY <2>3, <2>4, <2>5, <2>6, <2>7
  <2> QED
    BY <2>1, <2>8
<1>3. S \in G
  <2> HIDE DEF G
  <2> QED
    BY <1>1, <1>2, FiniteInduction
<1> QED
  BY <1>3

\* The same for the rows of a finite table, of which some are summed.
RowChanges(f, S, h, R, x) ==
    /\ SumFunctionOnSet(f, S) \in Nat /\ SumFunctionOnSet(h, R) \in Nat
    /\ SumFunctionOnSet(h, R) - (IF x \in R THEN h[x] ELSE 0)
         = SumFunctionOnSet(f, S) - (IF x \in S THEN f[x] ELSE 0)
    /\ x \in S => f[x] <= SumFunctionOnSet(f, S)

\* A sum over a table of which one row changes, or comes in, or goes out.
LEMMA SumRowChanges ==
    ASSUME NEW U, IsFiniteSet(U), NEW S \in SUBSET U, NEW R \in SUBSET U, NEW f, NEW h, NEW x,
           \A y \in U : f[y] \in Nat /\ h[y] \in Nat,
           \A y \in U : y # x => f[y] = h[y] /\ (y \in S <=> y \in R)
    PROVE  RowChanges(f, S, h, R, x)
<1>1. IsFiniteSet(S) /\ IsFiniteSet(R)
  BY FS_Subset
<1>2. /\ \A y \in S : f[y] \in Nat /\ f[y] \in Int
      /\ \A y \in R : h[y] \in Nat /\ h[y] \in Int
  OBVIOUS
<1>3. /\ \A y : y # x => (y \in S <=> y \in R)
      /\ \A y \in S : y # x => f[y] = h[y]
  OBVIOUS
<1>4. SumFunctionOnSet(h, R) - (IF x \in R THEN h[x] ELSE 0)
        = SumFunctionOnSet(f, S) - (IF x \in S THEN f[x] ELSE 0)
  BY <1>1, <1>2, <1>3, SumChange
<1>5. SumFunctionOnSet(f, S) \in Nat /\ (x \in S => f[x] <= SumFunctionOnSet(f, S))
  BY <1>1, <1>2, SumNat
<1>6. SumFunctionOnSet(h, R) \in Nat
  BY <1>1, <1>2, SumNat
<1> QED
  BY <1>4, <1>5, <1>6 DEF RowChanges
================================================================================
