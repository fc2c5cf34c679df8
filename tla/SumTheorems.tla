---------------------------- MODULE SumTheorems ----------------------------
(***************************************************************************)
(* The sum of a function over a finite set, as module Functions defines it *)
(* by recursion over subsets: that the recursion has a solution, that the  *)
(* order of the summands does not matter, and what follows for types,      *)
(* single changes and comparisons.  Everything rests on one fact: among    *)
(* the subsets of a finite set that violate a claim there is a minimal one.*)
(***************************************************************************)
EXTENDS Integers, Functions, FiniteSets, FiniteSetTheorems, WellFoundedInduction, TLAPS

\* The least counterexample: a non-empty family of subsets of a finite set has a minimal
\* member.
LEMMA MinimalSubset ==
  ASSUME NEW S, IsFiniteSet(S), NEW T, T \subseteq SUBSET S, T # {}
  PROVE  \E m \in T : \A y \in T : y \subseteq m => y = m
<1>1. T \subseteq FiniteSubsetsOf(S)
  BY FS_Subset DEF FiniteSubsetsOf
<1>2. \E x \in T : \A y \in T : ~ (<<y, x>> \in StrictSubsetOrdering(S))
  BY <1>1, WFMin, FS_StrictSubsetOrderingWellFounded
<1> QED
  BY <1>2 DEF StrictSubsetOrdering

\* The least counterexample among the numbers.
LEMMA MinimalNumber ==
  ASSUME NEW T, T \subseteq Nat, T # {}
  PROVE  \E m \in T : \A k \in T : m <= k
<1>1. PICK n \in T : TRUE
  OBVIOUS
<1> DEFINE Numbers == 0..n
           Below   == {0..k : k \in {k \in T : k <= n}}
<1>2. Below \subseteq SUBSET Numbers /\ Below # {}
  BY <1>1
<1>3. IsFiniteSet(Numbers)
  BY <1>1, FS_Interval
<1>4. PICK s \in Below : \A y \in Below : y \subseteq s => y = s
  <2> HIDE DEF Below, Numbers
  <2> QED
    BY <1>2, <1>3, MinimalSubset
<1>5. PICK m \in T : m <= n /\ s = 0..m
  OBVIOUS
<1>6. ASSUME NEW k \in T, k < m
      PROVE  FALSE
  <2>1. k \in Nat /\ m \in Nat /\ n \in Nat
    OBVIOUS
  <2>2. 0..k \in Below /\ 0..k \subseteq 0..m
    BY <1>5, <1>6, <2>1
  <2>3. m \in 0..m /\ m \notin 0..k
    BY <1>6, <2>1
  <2> QED
    BY <1>4, <1>5, <2>2, <2>3
<1> QED
  BY <1>6

----------------------------------------------------------------------------
(* The recursion                                                           *)

First(s) == CHOOSE x \in s : TRUE

\* g solves the recursion that sums f over the subsets of S.
Sums(f, S, g) ==
  g = [s \in SUBSET S |-> IF s = {} THEN 0 ELSE f[First(s)] + g[s \ {First(s)}]]

\* The fold of the library, with its recursive function as the solution it is chosen to be.
LEMMA SumIsSolution ==
  ASSUME NEW f, NEW S
  PROVE  SumFunctionOnSet(f, S) = (CHOOSE g : Sums(f, S, g))[S]
  BY DEF SumFunctionOnSet, FoldFunctionOnSet, MapThenFoldSet, Sums, First

\* The element the fold takes next is one that is left.
LEMMA FirstIsMember == \A s : s # {} => First(s) \in s
  BY DEF First

\* Two solutions agree wherever both are defined.
LEMMA SolutionsAgree ==
  ASSUME NEW f, NEW S, IsFiniteSet(S), NEW V \in SUBSET S, NEW W \in SUBSET S,
         NEW g, NEW h, Sums(f, V, g), Sums(f, W, h)
  PROVE  \A s \in SUBSET (V \cap W) : g[s] = h[s]
<1> DEFINE T == {s \in SUBSET (V \cap W) : g[s] # h[s]}
<1> SUFFICES ASSUME T # {} PROVE FALSE
  OBVIOUS
<1>1. PICK m \in T : \A y \in T : y \subseteq m => y = m
  <2>1. T \subseteq SUBSET S
    OBVIOUS
  <2> HIDE DEF T
  <2> QED
    BY <2>1, MinimalSubset
<1>2. m \in SUBSET V /\ m \in SUBSET W /\ g[m] # h[m]
  OBVIOUS
<1>3. m # {}
  BY <1>2 DEF Sums
<1>4. First(m) \in m
  BY <1>3, FirstIsMember
<1>5. g[m \ {First(m)}] = h[m \ {First(m)}]
  BY <1>1, <1>4
<1>6. g[m] = f[First(m)] + g[m \ {First(m)}] /\ h[m] = f[First(m)] + h[m \ {First(m)}]
  BY <1>2, <1>3 DEF Sums
<1> QED
  BY <1>2, <1>5, <1>6

\* Every finite set has a solution.
LEMMA SolutionExists ==
  ASSUME NEW f, NEW S, IsFiniteSet(S)
  PROVE  \E g : Sums(f, S, g)
<1> DEFINE T == {V \in SUBSET S : ~ \E g : Sums(f, V, g)}
           G(V) == CHOOSE g : Sums(f, V, g)
<1> SUFFICES ASSUME T # {} PROVE FALSE
  OBVIOUS
<1>1. PICK U \in T : \A y \in T : y \subseteq U => y = U
  <2>1. T \subseteq SUBSET S
    OBVIOUS
  <2> HIDE DEF T
  <2> QED
    BY <2>1, MinimalSubset
<1>2. ASSUME NEW V \in SUBSET U, V # U
      PROVE  Sums(f, V, G(V))
  BY <1>1, <1>2
<1> DEFINE Rest(s) == s \ {First(s)}
           h == [s \in SUBSET U |-> IF s = {} THEN 0 ELSE f[First(s)] + G(Rest(s))[Rest(s)]]
<1>3. ASSUME NEW s \in SUBSET U, s # {}
      PROVE  h[Rest(s)] = G(Rest(s))[Rest(s)]
  <2> DEFINE r == Rest(s)
  <2>1. r \in SUBSET U /\ r # U
    BY <1>3, FirstIsMember
  <2>2. Sums(f, r, G(r))
    BY <1>2, <2>1
  <2>3. CASE r = {}
    <3>1. h[r] = 0
      BY <2>1, <2>3
    <3>2. G(r)[r] = 0
      BY <2>2, <2>3 DEF Sums
    <3> QED
      BY <3>1, <3>2
  <2>4. CASE r # {}
    <3>1. Rest(r) \in SUBSET U /\ Rest(r) # U /\ Rest(r) \in SUBSET r
      BY <2>1
    <3>2. Sums(f, Rest(r), G(Rest(r)))
      BY <1>2, <3>1
    <3>3. G(r)[r] = f[First(r)] + G(r)[Rest(r)]
      BY <2>2, <2>4 DEF Sums
    <3>4. G(r)[Rest(r)] = G(Rest(r))[Rest(r)]
      <4>1. U \in SUBSET S
        OBVIOUS
      <4>2. r \in SUBSET S /\ Rest(r) \in SUBSET S /\ Rest(r) \in SUBSET (r \cap Rest(r))
        BY <4>1, <2>1, <3>1
      <4> HIDE DEF G, Rest, r
      <4> QED
        BY <4>2, <2>2, <3>2, SolutionsAgree
    <3>5. h[r] = f[First(r)] + G(Rest(r))[Rest(r)]
      BY <2>1, <2>4
    <3> QED
      BY <3>3, <3>4, <3>5
  <2> QED
    BY <2>3, <2>4
<1>4. Sums(f, U, h)
  <2>1. h = [s \in SUBSET U |-> IF s = {} THEN 0 ELSE f[First(s)] + h[Rest(s)]]
    <3> HIDE DEF G, Rest
    <3> QED
      BY <1>3
  <2> HIDE DEF h
  <2> QED
    BY <2>1 DEF Sums
<1> QED
  BY <1>1, <1>4

\* The recursion as an equation: the empty sum, and the summand that is taken first.
LEMMA SumStep ==
  ASSUME NEW f, NEW S, IsFiniteSet(S)
  PROVE  /\ SumFunctionOnSet(f, {}) = 0
         /\ S # {} => SumFunctionOnSet(f, S) = f[First(S)] + SumFunctionOnSet(f, S \ {First(S)})
<1> DEFINE G(V) == CHOOSE g : Sums(f, V, g)
<1>1. \A V \in SUBSET S : Sums(f, V, G(V))
  BY FS_Subset, SolutionExists
<1>2. \A V : SumFunctionOnSet(f, V) = G(V)[V]
  BY SumIsSolution
<1> HIDE DEF G
<1>3. SumFunctionOnSet(f, {}) = 0
  <2>1. Sums(f, {}, G({}))
    BY <1>1
  <2> QED
    BY <1>2, <2>1 DEF Sums
<1>4. ASSUME S # {}
      PROVE  SumFunctionOnSet(f, S) = f[First(S)] + SumFunctionOnSet(f, S \ {First(S)})
  <2> DEFINE r == S \ {First(S)}
  <2>1. Sums(f, S, G(S)) /\ Sums(f, r, G(r))
    BY <1>1
  <2>2. G(S)[S] = f[First(S)] + G(S)[r]
    BY <2>1, <1>4 DEF Sums
  <2>3. G(S)[r] = G(r)[r]
    <3>1. r \in SUBSET S /\ S \in SUBSET S /\ r \in SUBSET (S \cap r)
      OBVIOUS
    <3> HIDE DEF r
    <3> QED
      BY <2>1, <3>1, SolutionsAgree
  <2> QED
    BY <1>2, <2>2, <2>3
<1> QED
  BY <1>3, <1>4

\* The sum of nothing.
LEMMA SumEmpty == \A f : SumFunctionOnSet(f, {}) = 0
  BY FS_EmptySet, SumStep

\* A sum of integers is one.
LEMMA SumType ==
  ASSUME NEW S, IsFiniteSet(S), NEW f, \A x \in S : f[x] \in Int
  PROVE  SumFunctionOnSet(f, S) \in Int
<1> DEFINE T == {V \in SUBSET S : SumFunctionOnSet(f, V) \notin Int}
<1> SUFFICES ASSUME T # {} PROVE FALSE
  OBVIOUS
<1>1. PICK U \in T : \A y \in T : y \subseteq U => y = U
  <2>1. T \subseteq SUBSET S
    OBVIOUS
  <2> HIDE DEF T
  <2> QED
    BY <2>1, MinimalSubset
<1>2. IsFiniteSet(U)
  BY FS_Subset
<1>3. U # {}
  BY SumEmpty
<1>4. First(U) \in U
  BY <1>3, FirstIsMember
<1>5. SumFunctionOnSet(f, U \ {First(U)}) \in Int
  BY <1>1, <1>4
<1> QED
  BY <1>2, <1>3, <1>4, <1>5, SumStep

\* Any summand may be taken first: the order does not matter.
LEMMA SumAny ==
  ASSUME NEW S, IsFiniteSet(S), NEW f, \A x \in S : f[x] \in Int, NEW x \in S
  PROVE  SumFunctionOnSet(f, S) = f[x] + SumFunctionOnSet(f, S \ {x})
<1> DEFINE Sum(V) == SumFunctionOnSet(f, V)
           T == {V \in SUBSET S : \E z \in V : Sum(V) # f[z] + Sum(V \ {z})}
<1> SUFFICES ASSUME T # {} PROVE FALSE
  OBVIOUS
<1>1. PICK U \in T : \A y \in T : y \subseteq U => y = U
  <2>1. T \subseteq SUBSET S
    OBVIOUS
  <2> HIDE DEF T
  <2> QED
    BY <2>1, MinimalSubset
<1>2. PICK z \in U : Sum(U) # f[z] + Sum(U \ {z})
  BY <1>1
<1> DEFINE a == First(U)
           V == U \ {a}
<1>3. U \in SUBSET S /\ a \in U
  BY FirstIsMember
<1>4. \A W \in SUBSET S : IsFiniteSet(W) /\ Sum(W) \in Int
  <2>1. ASSUME NEW W \in SUBSET S
        PROVE  IsFiniteSet(W) /\ Sum(W) \in Int
    BY FS_Subset, SumType
  <2> QED
    BY <2>1
<1>5. Sum(U) = f[a] + Sum(V)
  BY <1>2, <1>3, <1>4, SumStep
<1>6. z # a
  BY <1>2, <1>5
<1>7. z \in V /\ V \in SUBSET S /\ V \notin T
  BY <1>1, <1>3, <1>6
<1>8. Sum(V) = f[z] + Sum(V \ {z})
  BY <1>7
<1> DEFINE W == U \ {z}
<1>9. Sum(W) = f[a] + Sum(W \ {a})
  <2>1. a \in W /\ W \in SUBSET S /\ W \notin T
    BY <1>1, <1>2, <1>3, <1>6
  <2> QED
    BY <2>1
<1>10. W \ {a} = V \ {z}
  OBVIOUS
<1>11. f[a] \in Int /\ f[z] \in Int /\ Sum(V \ {z}) \in Int
  BY <1>3, <1>4, <1>7
<1>12. Sum(U) # f[z] + Sum(W)
  BY <1>2
<1>13. Sum(W) = f[a] + Sum(V \ {z})
  BY <1>9, <1>10
<1> HIDE DEF Sum, T, V, W, a
<1>14. Sum(U) = f[a] + (f[z] + Sum(V \ {z}))
  BY <1>5, <1>8
<1>15. Sum(U) # f[z] + (f[a] + Sum(V \ {z}))
  BY <1>12, <1>13
<1> QED
  BY <1>14, <1>15, <1>11

\* The sum depends on the summands only.
LEMMA SumSame ==
  ASSUME NEW S, IsFiniteSet(S), NEW f, NEW g, \A x \in S : f[x] = g[x]
  PROVE  SumFunctionOnSet(f, S) = SumFunctionOnSet(g, S)
<1> DEFINE T == {V \in SUBSET S : SumFunctionOnSet(f, V) # SumFunctionOnSet(g, V)}
<1> SUFFICES ASSUME T # {} PROVE FALSE
  OBVIOUS
<1>1. PICK U \in T : \A y \in T : y \subseteq U => y = U
  <2>1. T \subseteq SUBSET S
    OBVIOUS
  <2> HIDE DEF T
  <2> QED
    BY <2>1, MinimalSubset
<1>2. IsFiniteSet(U)
  BY FS_Subset
<1>3. U # {}
  BY SumEmpty
<1>4. First(U) \in U
  BY <1>3, FirstIsMember
<1>5. SumFunctionOnSet(f, U \ {First(U)}) = SumFunctionOnSet(g, U \ {First(U)})
  BY <1>1, <1>4
<1>7. /\ SumFunctionOnSet(f, U) = f[First(U)] + SumFunctionOnSet(f, U \ {First(U)})
      /\ SumFunctionOnSet(g, U) = g[First(U)] + SumFunctionOnSet(g, U \ {First(U)})
  BY <1>2, <1>3, SumStep
<1>8. First(U) \in S
  BY <1>4
<1> HIDE DEF T
<1> QED
  BY <1>1, <1>5, <1>7, <1>8 DEF T

\* A comparison of all summands is one of the sums.
LEMMA SumMonotone ==
  ASSUME NEW S, IsFiniteSet(S), NEW f, NEW g,
         \A x \in S : f[x] \in Int /\ g[x] \in Int /\ f[x] <= g[x]
  PROVE  SumFunctionOnSet(f, S) <= SumFunctionOnSet(g, S)
<1> DEFINE T == {V \in SUBSET S : ~(SumFunctionOnSet(f, V) <= SumFunctionOnSet(g, V))}
<1> SUFFICES ASSUME T # {} PROVE FALSE
  OBVIOUS
<1>1. PICK U \in T : \A y \in T : y \subseteq U => y = U
  <2>1. T \subseteq SUBSET S
    OBVIOUS
  <2> HIDE DEF T
  <2> QED
    BY <2>1, MinimalSubset
<1>2. IsFiniteSet(U)
  BY FS_Subset
<1>3. U # {}
  BY SumEmpty
<1>4. First(U) \in U
  BY <1>3, FirstIsMember
<1> DEFINE V == U \ {First(U)}
<1>5. SumFunctionOnSet(f, V) <= SumFunctionOnSet(g, V)
  BY <1>1, <1>4
<1>6. SumFunctionOnSet(f, V) \in Int /\ SumFunctionOnSet(g, V) \in Int
  BY FS_Subset, SumType
<1>7. /\ SumFunctionOnSet(f, U) = f[First(U)] + SumFunctionOnSet(f, U \ {First(U)})
      /\ SumFunctionOnSet(g, U) = g[First(U)] + SumFunctionOnSet(g, U \ {First(U)})
  BY <1>2, <1>3, SumStep
<1>8. First(U) \in S
  BY <1>4
<1> HIDE DEF T, V
<1> QED
  BY <1>1, <1>5, <1>6, <1>7, <1>8 DEF T, V

\* Sums add up position by position.
LEMMA SumAdd ==
  ASSUME NEW S, IsFiniteSet(S), NEW f, NEW g, NEW h,
         \A x \in S : f[x] \in Int /\ g[x] \in Int /\ h[x] = f[x] + g[x]
  PROVE  SumFunctionOnSet(h, S) = SumFunctionOnSet(f, S) + SumFunctionOnSet(g, S)
<1> DEFINE T == {V \in SUBSET S :
                   SumFunctionOnSet(h, V) # SumFunctionOnSet(f, V) + SumFunctionOnSet(g, V)}
<1> SUFFICES ASSUME T # {} PROVE FALSE
  OBVIOUS
<1>1. PICK U \in T : \A y \in T : y \subseteq U => y = U
  <2>1. T \subseteq SUBSET S
    OBVIOUS
  <2> HIDE DEF T
  <2> QED
    BY <2>1, MinimalSubset
<1>2. IsFiniteSet(U)
  BY FS_Subset
<1>3. U # {}
  <2>1. SumFunctionOnSet(f, {}) = 0 /\ SumFunctionOnSet(g, {}) = 0 /\ SumFunctionOnSet(h, {}) = 0
    BY SumEmpty
  <2>2. SumFunctionOnSet(h, {}) = SumFunctionOnSet(f, {}) + SumFunctionOnSet(g, {})
    BY <2>1
  <2> QED
    BY <2>2
<1>4. First(U) \in U
  BY <1>3, FirstIsMember
<1> DEFINE V == U \ {First(U)}
<1>5. SumFunctionOnSet(h, V) = SumFunctionOnSet(f, V) + SumFunctionOnSet(g, V)
  BY <1>1, <1>4
<1>6. SumFunctionOnSet(f, V) \in Int /\ SumFunctionOnSet(g, V) \in Int
  BY FS_Subset, SumType
<1>7. /\ SumFunctionOnSet(f, U) = f[First(U)] + SumFunctionOnSet(f, U \ {First(U)})
      /\ SumFunctionOnSet(g, U) = g[First(U)] + SumFunctionOnSet(g, U \ {First(U)})
      /\ SumFunctionOnSet(h, U) = h[First(U)] + SumFunctionOnSet(h, U \ {First(U)})
  BY <1>2, <1>3, SumStep
<1>8. First(U) \in S
  BY <1>4
<1> HIDE DEF T, V
<1> QED
  BY <1>1, <1>5, <1>6, <1>7, <1>8 DEF T, V

\* A constant factor comes out of the sum.
LEMMA SumScale ==
  ASSUME NEW S, IsFiniteSet(S), NEW f, NEW g, NEW c \in Int,
         \A x \in S : f[x] \in Int /\ g[x] = c * f[x]
  PROVE  SumFunctionOnSet(g, S) = c * SumFunctionOnSet(f, S)
<1> DEFINE T == {V \in SUBSET S : SumFunctionOnSet(g, V) # c * SumFunctionOnSet(f, V)}
<1> SUFFICES ASSUME T # {} PROVE FALSE
  OBVIOUS
<1>1. PICK U \in T : \A y \in T : y \subseteq U => y = U
  <2>1. T \subseteq SUBSET S
    OBVIOUS
  <2> HIDE DEF T
  <2> QED
    BY <2>1, MinimalSubset
<1>2. IsFiniteSet(U)
  BY FS_Subset
<1>3. U # {}
  <2>1. \A k \in Int : k * 0 = 0
    OBVIOUS
  <2>2. SumFunctionOnSet(f, {}) = 0 /\ SumFunctionOnSet(g, {}) = 0
    BY SumEmpty
  <2> QED
    BY <2>1, <2>2
<1>4. First(U) \in U
  BY <1>3, FirstIsMember
<1> DEFINE V == U \ {First(U)}
<1>5. SumFunctionOnSet(g, V) = c * SumFunctionOnSet(f, V)
  BY <1>1, <1>4
<1>6. SumFunctionOnSet(f, V) \in Int
  BY FS_Subset, SumType
<1>7. /\ SumFunctionOnSet(f, U) = f[First(U)] + SumFunctionOnSet(f, U \ {First(U)})
      /\ SumFunctionOnSet(g, U) = g[First(U)] + SumFunctionOnSet(g, U \ {First(U)})
  BY <1>2, <1>3, SumStep
<1>8. First(U) \in S
  BY <1>4
<1> HIDE DEF T, V
<1> QED
  BY <1>1, <1>5, <1>6, <1>7, <1>8 DEF T, V

----------------------------------------------------------------------------
(* What follows without looking at the recursion again                     *)

\* One summand changed: the sum changes by as much.
LEMMA SumChange ==
  ASSUME NEW S, IsFiniteSet(S), NEW f, NEW g, NEW x \in S,
         \A y \in S : f[y] \in Int /\ g[y] \in Int,
         \A y \in S \ {x} : g[y] = f[y]
  PROVE  SumFunctionOnSet(g, S) = SumFunctionOnSet(f, S) + (g[x] - f[x])
<1> DEFINE R == S \ {x}
<1>1. IsFiniteSet(R)
  BY FS_Subset
<1>2. SumFunctionOnSet(f, S) = f[x] + SumFunctionOnSet(f, R)
  BY SumAny
<1>3. SumFunctionOnSet(g, S) = g[x] + SumFunctionOnSet(g, R)
  BY SumAny
<1>4. SumFunctionOnSet(g, R) = SumFunctionOnSet(f, R)
  BY <1>1, SumSame
<1>5. SumFunctionOnSet(f, R) \in Int
  BY <1>1, SumType
<1> HIDE DEF R
<1> QED
  BY <1>2, <1>3, <1>4, <1>5

\* What one summand loses another gains: the sum stays.
LEMMA SumMoved ==
  ASSUME NEW S, IsFiniteSet(S), NEW f, NEW g, NEW x \in S, NEW y \in S, x # y,
         \A z \in S : f[z] \in Int /\ g[z] \in Int,
         \A z \in S \ {x, y} : g[z] = f[z],
         g[x] = f[x] - 1, g[y] = f[y] + 1
  PROVE  SumFunctionOnSet(g, S) = SumFunctionOnSet(f, S)
<1> DEFINE mid == [z \in S |-> IF z = x THEN g[x] ELSE f[z]]
<1>1. /\ \A z \in S : mid[z] \in Int
      /\ \A z \in S \ {x} : mid[z] = f[z]
      /\ \A z \in S \ {y} : g[z] = mid[z]
  OBVIOUS
<1>2. mid[x] = f[x] - 1 /\ g[y] = mid[y] + 1
  OBVIOUS
<1> HIDE DEF mid
<1>3. SumFunctionOnSet(mid, S) = SumFunctionOnSet(f, S) - 1
  <2>1. SumFunctionOnSet(mid, S) = SumFunctionOnSet(f, S) + (mid[x] - f[x])
    <3>1. \A z \in S : f[z] \in Int /\ mid[z] \in Int
      BY <1>1
    <3> QED
      BY ONLY IsFiniteSet(S), x \in S, <1>1, <3>1, SumChange
  <2>2. mid[x] - f[x] = -1 /\ SumFunctionOnSet(f, S) \in Int
    BY <1>2, SumType
  <2> QED
    BY <2>1, <2>2
<1>4. SumFunctionOnSet(g, S) = SumFunctionOnSet(mid, S) + 1
  <2>1. SumFunctionOnSet(g, S) = SumFunctionOnSet(mid, S) + (g[y] - mid[y])
    <3>1. \A z \in S : mid[z] \in Int /\ g[z] \in Int
      BY <1>1
    <3> QED
      BY ONLY IsFiniteSet(S), y \in S, <1>1, <3>1, SumChange
  <2>2. g[y] - mid[y] = 1
    BY <1>1, <1>2
  <2> QED
    BY <2>1, <2>2
<1>5. SumFunctionOnSet(f, S) \in Int
  BY SumType
<1> QED
  BY <1>3, <1>4, <1>5

\* Counting is summing ones.
LEMMA SumCounts ==
  ASSUME NEW S, IsFiniteSet(S), NEW f, NEW R \in SUBSET S,
         \A x \in S : f[x] = IF x \in R THEN 1 ELSE 0
  PROVE  SumFunctionOnSet(f, S) = Cardinality(R)
<1> DEFINE T == {V \in SUBSET S : SumFunctionOnSet(f, V) # Cardinality(R \cap V)}
<1>1. T = {}
  <2> SUFFICES ASSUME T # {} PROVE FALSE
    OBVIOUS
  <2>1. PICK U \in T : \A y \in T : y \subseteq U => y = U
    <3>1. T \subseteq SUBSET S
      OBVIOUS
    <3> HIDE DEF T
    <3> QED
      BY <3>1, MinimalSubset
  <2>2. IsFiniteSet(U)
    BY FS_Subset
  <2>3. U # {}
    <3>1. Cardinality(R \cap {}) = 0
      BY FS_EmptySet
    <3> QED
      BY <3>1, SumEmpty
  <2> DEFINE a == First(U)
             V == U \ {a}
  <2>4. a \in U
    BY <2>3, FirstIsMember
  <2>5. SumFunctionOnSet(f, V) = Cardinality(R \cap V)
    BY <2>1, <2>4
  <2>6. SumFunctionOnSet(f, U) = f[a] + SumFunctionOnSet(f, V)
    BY <2>2, <2>3, SumStep
  <2>7. IsFiniteSet(R \cap V) /\ Cardinality(R \cap V) \in Nat
    BY <2>2, FS_Subset, FS_CardinalityType
  <2>8. CASE a \in R
    <3>1. R \cap U = (R \cap V) \cup {a} /\ a \notin R \cap V
      BY <2>4, <2>8
    <3>2. Cardinality(R \cap U) = Cardinality(R \cap V) + 1
      BY <2>7, <3>1, FS_AddElement
    <3>3. f[a] = 1
      BY <2>4, <2>8
    <3>4. SumFunctionOnSet(f, U) = Cardinality(R \cap U)
      BY <2>5, <2>6, <2>7, <3>2, <3>3
    <3> QED
      BY <2>1, <3>4
  <2>9. CASE a \notin R
    <3>1. R \cap U = R \cap V
      BY <2>9
    <3>2. f[a] = 0
      BY <2>4, <2>9
    <3>3. SumFunctionOnSet(f, U) = Cardinality(R \cap U)
      <4> DEFINE c == Cardinality(R \cap V)
      <4>1. c \in Nat /\ SumFunctionOnSet(f, U) = 0 + c
        BY <2>5, <2>6, <2>7, <3>2
      <4>2. c = Cardinality(R \cap U)
        BY <3>1
      <4> HIDE DEF c
      <4> QED
        BY <4>1, <4>2
    <3> QED
      BY <2>1, <3>3
  <2> QED
    BY <2>8, <2>9
<1>2. R \cap S = R
  OBVIOUS
<1>3. SumFunctionOnSet(f, S) = Cardinality(R \cap S)
  BY <1>1
<1> QED
  BY <1>2, <1>3

\* The same summands under other names add up to the same.
LEMMA SumRenamed ==
  ASSUME NEW S, IsFiniteSet(S), NEW f, NEW g, NEW name,
         \A x \in S : f[x] \in Int /\ g[name[x]] = f[x],
         \A x, y \in S : name[x] = name[y] => x = y
  PROVE  /\ IsFiniteSet({name[x] : x \in S})
         /\ SumFunctionOnSet(g, {name[x] : x \in S}) = SumFunctionOnSet(f, S)
<1> DEFINE N(V) == {name[x] : x \in V}
           T == {V \in SUBSET S :
                   ~(IsFiniteSet(N(V)) /\ SumFunctionOnSet(g, N(V)) = SumFunctionOnSet(f, V))}
<1> SUFFICES ASSUME T # {} PROVE FALSE
  OBVIOUS
<1>1. PICK U \in T : \A y \in T : y \subseteq U => y = U
  <2>1. T \subseteq SUBSET S
    OBVIOUS
  <2> HIDE DEF T
  <2> QED
    BY <2>1, MinimalSubset
<1>2. IsFiniteSet(U) /\ U \in SUBSET S
  BY FS_Subset
<1>3. U # {}
  <2>1. N({}) = {}
    OBVIOUS
  <2>2. IsFiniteSet(N({})) /\ SumFunctionOnSet(g, N({})) = SumFunctionOnSet(f, {})
    BY <2>1, SumEmpty, FS_EmptySet
  <2> HIDE DEF N
  <2> QED
    BY <2>2
<1> DEFINE a == First(U)
           V == U \ {a}
<1>4. a \in U
  BY <1>3, FirstIsMember
<1>5. IsFiniteSet(N(V)) /\ SumFunctionOnSet(g, N(V)) = SumFunctionOnSet(f, V)
  <2>1. V \in SUBSET S /\ V \notin T
    BY <1>1, <1>2, <1>4
  <2> HIDE DEF N, V
  <2> QED
    BY <2>1
<1>6. N(U) = N(V) \cup {name[a]} /\ name[a] \notin N(V)
  BY <1>2, <1>4
<1>7. IsFiniteSet(N(U))
  <2>1. IsFiniteSet(N(V) \cup {name[a]})
    BY <1>5, FS_AddElement
  <2> HIDE DEF N, V, a
  <2> QED
    BY <1>6, <2>1
<1>8. \A z \in N(U) : g[z] \in Int
  BY <1>2
<1>9. SumFunctionOnSet(g, N(U)) = g[name[a]] + SumFunctionOnSet(g, N(U) \ {name[a]})
  <2>1. name[a] \in N(U)
    BY <1>6
  <2> HIDE DEF N
  <2> QED
    BY <1>7, <1>8, <2>1, SumAny
<1>10. N(U) \ {name[a]} = N(V)
  BY <1>6
<1>11. SumFunctionOnSet(f, U) = f[a] + SumFunctionOnSet(f, V)
  BY <1>2, <1>3, SumStep
<1>12. g[name[a]] = f[a]
  BY <1>2, <1>4
<1>13. SumFunctionOnSet(g, N(U)) = SumFunctionOnSet(f, U)
  BY <1>5, <1>9, <1>10, <1>11, <1>12
<1>14. U \in T
  BY <1>1
<1> HIDE DEF N, V, a
<1> QED
  BY <1>7, <1>13, <1>14

\* Two sets without a common member: the sum over both is the sum of the sums.
LEMMA SumUnion ==
  ASSUME NEW A, NEW Z, IsFiniteSet(A), IsFiniteSet(Z), A \cap Z = {},
         NEW f, \A x \in A \cup Z : f[x] \in Int
  PROVE  SumFunctionOnSet(f, A \cup Z) = SumFunctionOnSet(f, A) + SumFunctionOnSet(f, Z)
<1> DEFINE Sum(V) == SumFunctionOnSet(f, V)
           T == {V \in SUBSET A : Sum(V \cup Z) # Sum(V) + Sum(Z)}
<1> SUFFICES ASSUME T # {} PROVE FALSE
  OBVIOUS
<1>1. PICK U \in T : \A y \in T : y \subseteq U => y = U
  <2>1. T \subseteq SUBSET A
    OBVIOUS
  <2> HIDE DEF T
  <2> QED
    BY <2>1, MinimalSubset
<1>2. U \in SUBSET A /\ Sum(U \cup Z) # Sum(U) + Sum(Z)
  OBVIOUS
<1>3. IsFiniteSet(U) /\ IsFiniteSet(U \cup Z)
  BY <1>2, FS_Subset, FS_Union
<1>4. Sum(Z) \in Int /\ Sum(U) \in Int
  BY <1>2, <1>3, SumType
<1>5. U # {}
  <2>1. Sum({}) = 0 /\ {} \cup Z = Z
    BY SumEmpty
  <2>2. Sum({} \cup Z) = Sum({}) + Sum(Z)
    BY <1>4, <2>1
  <2> HIDE DEF Sum
  <2> QED
    BY <1>2, <2>2
<1>6. PICK a \in U : TRUE
  BY <1>5
<1> DEFINE V == U \ {a}
<1>7. V \in SUBSET A /\ V \notin T /\ IsFiniteSet(V)
  BY <1>1, <1>2, <1>3, <1>6, FS_Subset
<1>8. Sum(V \cup Z) = Sum(V) + Sum(Z) /\ Sum(V) \in Int
  BY <1>7, SumType
<1>9. Sum(U) = f[a] + Sum(V)
  BY <1>2, <1>3, <1>6, SumAny
<1>10. Sum(U \cup Z) = f[a] + Sum((U \cup Z) \ {a})
  <2> DEFINE W == U \cup Z
  <2>1. IsFiniteSet(W) /\ a \in W /\ \A x \in W : f[x] \in Int
    BY <1>2, <1>3, <1>6
  <2> HIDE DEF W
  <2>2. Sum(W) = f[a] + Sum(W \ {a})
    BY <2>1, SumAny
  <2> QED
    BY <2>2 DEF W
<1>11. (U \cup Z) \ {a} = V \cup Z
  BY <1>2, <1>6
<1>12. f[a] \in Int
  BY <1>2, <1>6
<1>13. Sum(U \cup Z) = f[a] + Sum(V \cup Z)
  BY <1>10, <1>11
<1> HIDE DEF Sum, T, V
<1> QED
  BY <1>2, <1>4, <1>8, <1>9, <1>12, <1>13

\* A sum of equal summands.
LEMMA SumConstant ==
  ASSUME NEW S, IsFiniteSet(S), NEW c \in Int, NEW f, \A x \in S : f[x] = c
  PROVE  SumFunctionOnSet(f, S) = c * Cardinality(S)
<1> DEFINE one == [x \in S |-> 1]
<1>1. \A x \in S : one[x] \in Int /\ f[x] = c * one[x] /\ one[x] = IF x \in S THEN 1 ELSE 0
  OBVIOUS
<1> HIDE DEF one
<1>2. SumFunctionOnSet(one, S) = Cardinality(S)
  BY <1>1, SumCounts
<1>3. SumFunctionOnSet(f, S) = c * SumFunctionOnSet(one, S)
  BY <1>1, SumScale
<1> QED
  BY <1>2, <1>3
=============================================================================
