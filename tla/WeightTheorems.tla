--------------------------- MODULE WeightTheorems ---------------------------
(***************************************************************************)
(* What the operators that compute weights guarantee.  Of the initial      *)
(* allocation: the rounded-down shares lie within the bounds, there are as *)
(* many backends with a fraction as points left over, and every allocation *)
(* is one of 100 points.  Of the decision loop: its weights keep to the    *)
(* limits its bounds keep to, their sum stays, and where it breaks off it  *)
(* has made the greedy allocation.                                         *)
(***************************************************************************)
EXTENDS Allocation, GreedyAllocation, SumTheorems

----------------------------------------------------------------------------
(* Arithmetic                                                              *)

\* Multiplying by a number that is not negative keeps an order.
LEMMA MulMono ==
  ASSUME NEW a \in Nat, NEW b \in Nat, NEW c \in Nat, a <= b
  PROVE  c * a <= c * b /\ c * a \in Nat /\ c * b \in Nat
  OBVIOUS

\* A positive factor can be taken off both sides.
LEMMA MulCancel ==
  ASSUME NEW a \in Int, NEW b \in Int, NEW c \in Nat \ {0}
  PROVE  /\ c * a <= c * b => a <= b
         /\ c * a < c * b => a < b
  OBVIOUS

\* Multiplication distributes.
LEMMA MulAdd ==
  ASSUME NEW a \in Int, NEW b \in Int, NEW c \in Int
  PROVE  c * (a + b) = (c * a) + (c * b) /\ c * (a - b) = (c * a) - (c * b) /\ c * a \in Int
  OBVIOUS

\* Integer division.
LEMMA DivMod ==
  ASSUME NEW a \in Nat, NEW b \in Nat \ {0}
  PROVE  /\ a \div b \in Nat
         /\ a % b \in 0..(b - 1)
         /\ a = (b * (a \div b)) + (a % b)
  OBVIOUS

----------------------------------------------------------------------------
(* Lists of backends                                                       *)

\* The positions of a list are finitely many, and its bounds are numbers up to 100.
LEMMA ListTypes ==
  ASSUME NEW bs, IsBackends(bs)
  PROVE  /\ IsFiniteSet(DOMAIN bs)
         /\ DOMAIN bs = 1..Len(bs) /\ Len(bs) \in Nat
         /\ \A i \in DOMAIN bs : bs[i].min \in Nat /\ bs[i].max \in Nat
<1>1. DOMAIN bs = 1..Len(bs) /\ Len(bs) \in Nat
  BY DEF IsBackends
<1>2. IsFiniteSet(1..Len(bs))
  BY <1>1, FS_Interval
<1>3. \A i \in DOMAIN bs : bs[i].min \in Nat /\ bs[i].max \in Nat
  <2> SUFFICES ASSUME NEW i \in DOMAIN bs PROVE bs[i].min \in Nat /\ bs[i].max \in Nat
    OBVIOUS
  <2>1. IsBackend(bs[i])
    BY DEF IsBackends
  <2>2. \A n \in 0..100 : n \in Nat
    OBVIOUS
  <2> QED
    BY <2>1, <2>2 DEF IsBackend, Full
<1> QED
  BY <1>1, <1>2, <1>3

\* The sums are integers, and a valid list has room for 100 points.
LEMMA SumTypes ==
  ASSUME NEW bs, IsBackends(bs)
  PROVE  /\ MinSum(bs) \in Int /\ MaxSum(bs) \in Int
         /\ TotalHead(bs) \in Int /\ Remainder(bs) \in Int
<1>1. /\ IsFiniteSet(DOMAIN bs)
      /\ \A i \in DOMAIN bs : bs[i].min \in Int /\ bs[i].max \in Int
  BY ListTypes
<1>2. MinSum(bs) \in Int
  <2> DEFINE f == [i \in DOMAIN bs |-> bs[i].min]
  <2>1. \A i \in DOMAIN bs : f[i] \in Int
    BY <1>1
  <2>2. MinSum(bs) = SumFunctionOnSet(f, DOMAIN bs)
    BY DEF MinSum, SumFunction
  <2> HIDE DEF f
  <2> QED
    BY <1>1, <2>1, <2>2, SumType
<1>3. MaxSum(bs) \in Int
  <2> DEFINE f == [i \in DOMAIN bs |-> bs[i].max]
  <2>1. \A i \in DOMAIN bs : f[i] \in Int
    BY <1>1
  <2>2. MaxSum(bs) = SumFunctionOnSet(f, DOMAIN bs)
    BY DEF MaxSum, SumFunction
  <2> HIDE DEF f
  <2> QED
    BY <1>1, <2>1, <2>2, SumType
<1> QED
  BY <1>2, <1>3 DEF TotalHead, Remainder, Full

\* The headrooms of a valid list are numbers that add up to TotalHead.
LEMMA HeadroomSum ==
  ASSUME NEW bs, IsBackends(bs), ValidSpec(bs)
  PROVE  /\ \A i \in DOMAIN bs : Headroom(bs, i) \in Nat
         /\ SumFunctionOnSet([i \in DOMAIN bs |-> Headroom(bs, i)], DOMAIN bs) = TotalHead(bs)
<1> DEFINE f == [i \in DOMAIN bs |-> bs[i].min]
           g == [i \in DOMAIN bs |-> Headroom(bs, i)]
           h == [i \in DOMAIN bs |-> bs[i].max]
<1>1. /\ IsFiniteSet(DOMAIN bs)
      /\ \A i \in DOMAIN bs : bs[i].min \in Int /\ bs[i].max \in Int
  BY ListTypes
<1>2. \A i \in DOMAIN bs : Headroom(bs, i) \in Nat
  BY <1>1 DEF ValidSpec, Headroom
<1>3. \A i \in DOMAIN bs : f[i] \in Int /\ g[i] \in Int /\ h[i] = f[i] + g[i]
  BY <1>1, <1>2 DEF Headroom
<1>4. MinSum(bs) = SumFunctionOnSet(f, DOMAIN bs) /\ MaxSum(bs) = SumFunctionOnSet(h, DOMAIN bs)
  BY DEF MinSum, MaxSum, SumFunction
<1>5. SumFunctionOnSet(g, DOMAIN bs) = TotalHead(bs)
  <2> HIDE DEF f, g, h
  <2>1. SumFunctionOnSet(h, DOMAIN bs) = SumFunctionOnSet(f, DOMAIN bs) + SumFunctionOnSet(g, DOMAIN bs)
    BY <1>1, <1>3, SumAdd
  <2>2. SumFunctionOnSet(g, DOMAIN bs) \in Int /\ MinSum(bs) \in Int
    BY <1>1, <1>3, SumType, SumTypes
  <2> QED
    BY <1>4, <2>1, <2>2 DEF TotalHead
<1> QED
  BY <1>2, <1>5

\* Past the early return there are points to hand out, and no more than there is room for.
LEMMA PointsToShare ==
  ASSUME NEW bs, IsBackends(bs), ValidSpec(bs), ~MinimumsOnly(bs)
  PROVE  /\ Remainder(bs) \in Nat \ {0} /\ TotalHead(bs) \in Nat \ {0}
         /\ Remainder(bs) <= TotalHead(bs)
  BY SumTypes DEF MinimumsOnly, ValidSpec, Remainder, TotalHead, Full

\* The early return of a valid list: its minimums already are the whole.
LEMMA MinimumsAreAll ==
  ASSUME NEW bs, IsBackends(bs), ValidSpec(bs), MinimumsOnly(bs)
  PROVE  MinSum(bs) = Full
  BY SumTypes DEF MinimumsOnly, ValidSpec, Remainder, TotalHead, Full

\* A rounded-down share leaves the backend within its bounds, and room for the point that
\* may come on top if anything was rounded off.
LEMMA SharesFit ==
  ASSUME NEW bs, IsBackends(bs), ValidSpec(bs), ~MinimumsOnly(bs), NEW i \in DOMAIN bs
  PROVE  /\ Whole(bs, i) \in Nat /\ Frac(bs, i) \in 0..(TotalHead(bs) - 1)
         /\ Remainder(bs) * Headroom(bs, i) = (TotalHead(bs) * Whole(bs, i)) + Frac(bs, i)
         /\ bs[i].min + Whole(bs, i) <= bs[i].max
         /\ Frac(bs, i) > 0 => i \in Roomy(bs)
<1> DEFINE R == Remainder(bs)
           T == TotalHead(bs)
           H == Headroom(bs, i)
           W == Whole(bs, i)
           F == Frac(bs, i)
<1>1. R \in Nat \ {0} /\ T \in Nat \ {0} /\ R <= T /\ H \in Nat
  BY PointsToShare, HeadroomSum
<1>2. W = (R * H) \div T /\ F = (R * H) % T
  BY DEF Whole, Frac
<1>3. H = bs[i].max - bs[i].min /\ bs[i].min \in Int /\ bs[i].max \in Int
  BY ListTypes DEF Headroom
<1> HIDE DEF R, T, H, W, F
<1>4. H * R <= H * T /\ H * R \in Nat /\ H * T \in Nat /\ R * H = H * R /\ H * T = T * H
  BY <1>1, MulMono
<1>5. W \in Nat /\ F \in 0..(T - 1) /\ R * H = (T * W) + F
  BY <1>1, <1>2, <1>4, DivMod
<1>6. T * W \in Int /\ T * H \in Int
  BY <1>1, <1>4, <1>5
<1>7. T * W <= T * H /\ (F > 0 => T * W < T * H)
  BY <1>1, <1>4, <1>5, <1>6
<1>8. W <= H /\ (F > 0 => W < H)
  BY <1>1, <1>5, <1>7, MulCancel
<1>9. bs[i].min + W <= bs[i].max /\ (F > 0 => bs[i].min + W < bs[i].max)
  BY <1>3, <1>5, <1>8
<1> QED
  BY <1>5, <1>9 DEF R, T, H, W, F, Roomy

\* The positions with a fraction that was rounded off.
Rounded(bs) == {i \in DOMAIN bs : Frac(bs, i) > 0}

\* There are at least as many positions with a fraction as points left over: the loop
\* never runs out of backends that can still take one.
LEMMA LeftoverFits ==
  ASSUME NEW bs, IsBackends(bs), ValidSpec(bs), ~MinimumsOnly(bs)
  PROVE  /\ Leftover(bs) \in Nat
         /\ Rounded(bs) \subseteq Roomy(bs) /\ IsFiniteSet(Rounded(bs))
         /\ Leftover(bs) <= Cardinality(Rounded(bs))
<1> DEFINE D == DOMAIN bs
           R == Remainder(bs)
           T == TotalHead(bs)
           C == Cardinality(Rounded(bs))
           head  == [i \in D |-> Headroom(bs, i)]
           exact == [i \in D |-> R * Headroom(bs, i)]
           whole == [i \in D |-> Whole(bs, i)]
           scaled == [i \in D |-> T * Whole(bs, i)]
           frac  == [i \in D |-> Frac(bs, i)]
           zero  == [i \in D |-> 0 * 0]
           ones  == [i \in D |-> IF i \in Rounded(bs) THEN 1 ELSE 0]
           caps  == [i \in D |-> T * (IF i \in Rounded(bs) THEN 1 ELSE 0)]
           Sum(f) == SumFunctionOnSet(f, D)
<1>1. R \in Nat \ {0} /\ T \in Nat \ {0} /\ R <= T
  BY PointsToShare
<1>2. IsFiniteSet(D)
  BY ListTypes
<1>3. \A i \in D : /\ Headroom(bs, i) \in Nat
                   /\ Whole(bs, i) \in Nat /\ Frac(bs, i) \in 0..(T - 1)
                   /\ R * Headroom(bs, i) = (T * Whole(bs, i)) + Frac(bs, i)
                   /\ Frac(bs, i) > 0 => i \in Roomy(bs)
  BY HeadroomSum, SharesFit
<1>4. Rounded(bs) \subseteq Roomy(bs) /\ Rounded(bs) \subseteq D
  BY <1>3 DEF Rounded
<1>5. IsFiniteSet(Rounded(bs)) /\ C \in Nat
  BY <1>2, <1>4, FS_Subset, FS_CardinalityType
<1>6. Sum(head) = T
  BY HeadroomSum
<1>7. Leftover(bs) = R - Sum(whole)
  BY DEF Leftover, SumFunction
<1>8. /\ \A i \in D : head[i] \in Int /\ exact[i] = R * head[i]
      /\ \A i \in D : whole[i] \in Int /\ scaled[i] = T * whole[i] /\ scaled[i] \in Int
      /\ \A i \in D : frac[i] \in Int /\ exact[i] = scaled[i] + frac[i]
      /\ \A i \in D : ones[i] = (IF i \in Rounded(bs) THEN 1 ELSE 0) /\ ones[i] \in Int
      /\ \A i \in D : caps[i] = T * ones[i] /\ caps[i] \in Int
      /\ \A i \in D : 0 <= frac[i] /\ frac[i] <= caps[i]
      /\ \A i \in D : zero[i] = 0
  <2> SUFFICES ASSUME NEW i \in D
               PROVE  /\ head[i] \in Int /\ exact[i] = R * head[i]
                      /\ whole[i] \in Int /\ scaled[i] = T * whole[i] /\ scaled[i] \in Int
                      /\ frac[i] \in Int /\ exact[i] = scaled[i] + frac[i]
                      /\ ones[i] = (IF i \in Rounded(bs) THEN 1 ELSE 0) /\ ones[i] \in Int
                      /\ caps[i] = T * ones[i] /\ caps[i] \in Int
                      /\ 0 <= frac[i] /\ frac[i] <= caps[i]
                      /\ zero[i] = 0
    OBVIOUS
  <2>1. /\ Headroom(bs, i) \in Nat
        /\ Whole(bs, i) \in Nat /\ Frac(bs, i) \in 0..(T - 1)
        /\ R * Headroom(bs, i) = (T * Whole(bs, i)) + Frac(bs, i)
    BY <1>3
  <2>2. T * Whole(bs, i) \in Int
    BY <1>1, <2>1, MulAdd
  <2>3. i \in Rounded(bs) <=> Frac(bs, i) > 0
    BY DEF Rounded
  <2>4. T * 1 = T /\ T * 0 = 0
    BY <1>1
  <2>5. Frac(bs, i) <= T * (IF i \in Rounded(bs) THEN 1 ELSE 0)
    BY <1>1, <2>1, <2>3, <2>4
  <2>6. T * (IF i \in Rounded(bs) THEN 1 ELSE 0) \in Int
    BY <1>1, <2>4
  <2> QED
    BY <2>1, <2>2, <2>5, <2>6
<1> HIDE DEF D, R, T, head, exact, whole, scaled, frac, zero, ones, caps
<1>9. Sum(exact) = R * T
  <2>1. Sum(exact) = R * Sum(head)
    BY <1>1, <1>2, <1>8, SumScale
  <2> QED
    BY <1>6, <2>1
<1>10. Sum(scaled) = T * Sum(whole)
  BY <1>1, <1>2, <1>8, SumScale
<1>11. Sum(exact) = Sum(scaled) + Sum(frac)
  BY <1>2, <1>8, SumAdd
<1>12. Sum(ones) = C
  BY <1>2, <1>4, <1>8, SumCounts DEF D
<1>13. Sum(caps) = T * C
  BY <1>1, <1>2, <1>8, <1>12, SumScale
<1>14. Sum(zero) <= Sum(frac) /\ Sum(frac) <= Sum(caps)
  BY <1>2, <1>8, SumMonotone
<1>15. Sum(zero) = 0
  <2> DEFINE R0 == {}
  <2>1. R0 \in SUBSET D /\ \A i \in D : zero[i] = IF i \in R0 THEN 1 ELSE 0
    BY <1>8
  <2>2. Sum(zero) = Cardinality(R0)
    BY <1>2, <2>1, SumCounts
  <2> QED
    BY <2>2, FS_EmptySet
<1>16. Sum(whole) \in Int /\ Sum(frac) \in Int
  BY <1>2, <1>8, SumType
<1>17. T * (R - Sum(whole)) = Sum(frac)
  <2>1. T * (R - Sum(whole)) = (T * R) - (T * Sum(whole)) /\ T * R \in Int /\ T * Sum(whole) \in Int
    BY <1>1, <1>16, MulAdd
  <2>2. T * R = R * T
    BY <1>1
  <2> QED
    BY <1>9, <1>10, <1>11, <1>16, <2>1, <2>2
<1>18. T * 0 <= T * (R - Sum(whole)) /\ T * (R - Sum(whole)) <= T * C
  BY <1>1, <1>13, <1>14, <1>15, <1>17
<1>19. R - Sum(whole) \in Int
  BY <1>1, <1>16
<1>20. 0 <= R - Sum(whole) /\ R - Sum(whole) <= C
  BY <1>1, <1>5, <1>18, <1>19, MulCancel
<1> QED
  BY <1>4, <1>5, <1>7, <1>19, <1>20 DEF D

\* The whole shares and a point for each of the positions S: what is then still missing.
LEMMA GivenSum ==
  ASSUME NEW bs, IsBackends(bs), ValidSpec(bs), ~MinimumsOnly(bs), NEW S \in SUBSET DOMAIN bs,
         NEW w, \A i \in DOMAIN bs : w[i] = bs[i].min + Whole(bs, i) + IF i \in S THEN 1 ELSE 0
  PROVE  SumFunctionOnSet(w, DOMAIN bs) = (Full - Leftover(bs)) + Cardinality(S)
<1> DEFINE D == DOMAIN bs
           mins  == [i \in D |-> bs[i].min]
           whole == [i \in D |-> Whole(bs, i)]
           base  == [i \in D |-> bs[i].min + Whole(bs, i)]
           ones  == [i \in D |-> IF i \in S THEN 1 ELSE 0]
           Sum(f) == SumFunctionOnSet(f, D)
<1>1. IsFiniteSet(D) /\ \A i \in D : bs[i].min \in Int /\ Whole(bs, i) \in Int
  BY ListTypes, SharesFit
<1>2. /\ \A i \in D : mins[i] \in Int /\ whole[i] \in Int /\ base[i] = mins[i] + whole[i]
      /\ \A i \in D : base[i] \in Int /\ ones[i] \in Int /\ w[i] = base[i] + ones[i]
      /\ \A i \in D : ones[i] = IF i \in S THEN 1 ELSE 0
  BY <1>1
<1>3. Sum(mins) = MinSum(bs) /\ Leftover(bs) = Remainder(bs) - Sum(whole)
  BY DEF MinSum, Leftover, SumFunction
<1> HIDE DEF D, mins, whole, base, ones
<1>4. Sum(base) = Sum(mins) + Sum(whole)
  BY <1>1, <1>2, SumAdd
<1>5. Sum(w) = Sum(base) + Sum(ones)
  BY <1>1, <1>2, SumAdd
<1>6. Sum(ones) = Cardinality(S)
  BY <1>1, <1>2, SumCounts DEF D
<1>7. Sum(whole) \in Int /\ Sum(mins) \in Int /\ Sum(ones) \in Int
  BY <1>1, <1>2, SumType
<1>8. Sum(w) = (Full - Leftover(bs)) + Cardinality(S)
  BY <1>3, <1>4, <1>5, <1>6, <1>7 DEF Remainder, Full
<1> QED
  BY <1>8 DEF D

\* A set the loop may serve has as many positions as there are points left over.
LEMMA ServedExactly ==
  ASSUME NEW bs, IsBackends(bs), ValidSpec(bs), ~MinimumsOnly(bs), NEW S \in ServedSets(bs)
  PROVE  S \in SUBSET DOMAIN bs /\ S \subseteq Roomy(bs) /\ Cardinality(S) = Leftover(bs)
<1>1. S \subseteq Roomy(bs) /\ Roomy(bs) \subseteq DOMAIN bs
  BY DEF ServedSets, Roomy
<1>2. IsFiniteSet(Roomy(bs))
  BY <1>1, ListTypes, FS_Subset
<1>3. Cardinality(Rounded(bs)) <= Cardinality(Roomy(bs)) /\ Cardinality(Roomy(bs)) \in Nat
  BY <1>2, LeftoverFits, FS_Subset, FS_CardinalityType
<1>4. Leftover(bs) \in Nat /\ Leftover(bs) <= Cardinality(Rounded(bs)) /\ Cardinality(Rounded(bs)) \in Nat
  BY LeftoverFits, FS_CardinalityType
<1>5. ~(Cardinality(Roomy(bs)) < Leftover(bs))
  BY <1>3, <1>4
<1> QED
  BY <1>1, <1>5 DEF ServedSets

\* The names of a valid list are distinct.
LEMMA NamesDistinct ==
  ASSUME NEW bs, IsBackends(bs), ValidSpec(bs), NEW i \in DOMAIN bs, NEW j \in DOMAIN bs,
         bs[i].name = bs[j].name
  PROVE  i = j
<1> DEFINE name == [k \in DOMAIN bs |-> bs[k].name]
<1>1. name \in Surjection(DOMAIN bs, Named(bs))
  BY DEF Surjection, Named
<1>2. IsFiniteSet(DOMAIN bs) /\ Cardinality(DOMAIN bs) = Len(bs)
  <2>1. DOMAIN bs = 1..Len(bs) /\ Len(bs) \in Nat
    BY ListTypes
  <2>2. IsFiniteSet(1..Len(bs)) /\ Cardinality(1..Len(bs)) = IF 1 > Len(bs) THEN 0 ELSE Len(bs) - 1 + 1
    BY <2>1, FS_Interval
  <2> QED
    BY <2>1, <2>2
<1>3. Cardinality(DOMAIN bs) = Cardinality(Named(bs))
  BY <1>2 DEF ValidSpec
<1>4. name \in Injection(DOMAIN bs, Named(bs))
  BY <1>1, <1>2, <1>3, FS_SurjSameCardinalityImpliesInj
<1> QED
  BY <1>4 DEF Injection, IsInjective

\* Weights by name are weights by position: each under its name, with the same sum.
LEMMA ByNameKeeps ==
  ASSUME NEW bs, IsBackends(bs), ValidSpec(bs), NEW w, \A i \in DOMAIN bs : w[i] \in Int
  PROVE  /\ DOMAIN ByName(bs, w) = Named(bs) /\ IsFiniteSet(Named(bs))
         /\ \A i \in DOMAIN bs : ByName(bs, w)[bs[i].name] = w[i]
         /\ SumFunction(ByName(bs, w)) = SumFunctionOnSet(w, DOMAIN bs)
<1> DEFINE name == [i \in DOMAIN bs |-> bs[i].name]
           g == ByName(bs, w)
<1>1. DOMAIN g = Named(bs)
  BY DEF ByName
<1>2. \A i \in DOMAIN bs : g[bs[i].name] = w[i]
  <2> SUFFICES ASSUME NEW i \in DOMAIN bs PROVE g[bs[i].name] = w[i]
    OBVIOUS
  <2> DEFINE k == CHOOSE j \in DOMAIN bs : bs[j].name = bs[i].name
  <2>1. k \in DOMAIN bs /\ bs[k].name = bs[i].name
    OBVIOUS
  <2>2. k = i
    BY <2>1, NamesDistinct
  <2>3. bs[i].name \in Named(bs)
    BY DEF Named
  <2> QED
    BY <2>2, <2>3 DEF ByName
<1>3. \A i \in DOMAIN bs : w[i] \in Int /\ g[name[i]] = w[i]
  BY <1>2
<1>4. \A i, j \in DOMAIN bs : name[i] = name[j] => i = j
  BY NamesDistinct
<1>5. Named(bs) = {name[i] : i \in DOMAIN bs}
  BY DEF Named
<1>6. IsFiniteSet(DOMAIN bs)
  BY ListTypes
<1>7. SumFunction(g) = SumFunctionOnSet(g, Named(bs))
  BY <1>1 DEF SumFunction
<1> HIDE DEF name, g
<1>8. IsFiniteSet({name[i] : i \in DOMAIN bs})
      /\ SumFunctionOnSet(g, {name[i] : i \in DOMAIN bs}) = SumFunctionOnSet(w, DOMAIN bs)
  <2> DEFINE D == DOMAIN bs
  <2> HIDE DEF D
  <2>1. \A i \in D : w[i] \in Int /\ g[name[i]] = w[i]
    BY <1>3 DEF D
  <2>2. (\A i, j \in D : name[i] = name[j] => i = j) /\ IsFiniteSet(D)
    BY <1>4, <1>6 DEF D
  <2>3. IsFiniteSet({name[i] : i \in D})
        /\ SumFunctionOnSet(g, {name[i] : i \in D}) = SumFunctionOnSet(w, D)
    BY <2>1, <2>2, SumRenamed
  <2> QED
    BY <2>3 DEF D
<1> QED
  BY <1>1, <1>2, <1>5, <1>7, <1>8 DEF g

\* Whatever the order of equal remainders: an initial allocation of a valid list names its
\* backends, adds up to 100 and keeps every bound.
LEMMA InitialWeightsSplit ==
  ASSUME NEW bs, IsBackends(bs), ValidSpec(bs), NEW w \in InitialWeights(bs)
  PROVE  /\ DOMAIN w = Named(bs)
         /\ SumFunction(w) = Full
         /\ \A i \in DOMAIN bs : /\ w[bs[i].name] \in Int
                                 /\ bs[i].min <= w[bs[i].name] /\ w[bs[i].name] <= bs[i].max
<1>0. \A i \in DOMAIN bs : bs[i].min \in Int /\ bs[i].max \in Int /\ bs[i].min <= bs[i].max
  BY ListTypes DEF ValidSpec
<1>1. CASE MinimumsOnly(bs)
  <2> DEFINE v == [i \in DOMAIN bs |-> bs[i].min]
  <2>1. w = ByName(bs, v) /\ SumFunctionOnSet(v, DOMAIN bs) = MinSum(bs)
    BY <1>1 DEF InitialWeights, MinSum, SumFunction
  <2>2. \A i \in DOMAIN bs : v[i] \in Int /\ v[i] = bs[i].min
    BY <1>0
  <2>3. MinSum(bs) = Full
    BY <1>1, MinimumsAreAll
  <2> HIDE DEF v
  <2>4. /\ DOMAIN w = Named(bs)
        /\ \A i \in DOMAIN bs : w[bs[i].name] = v[i]
        /\ SumFunction(w) = SumFunctionOnSet(v, DOMAIN bs)
    BY <2>1, <2>2, ByNameKeeps
  <2> QED
    BY <1>0, <2>1, <2>2, <2>3, <2>4
<1>2. CASE ~MinimumsOnly(bs)
  <2>1. PICK S \in ServedSets(bs) :
          w = ByName(bs, [i \in DOMAIN bs |-> bs[i].min + Whole(bs, i) + IF i \in S THEN 1 ELSE 0])
    BY <1>2 DEF InitialWeights
  <2> DEFINE v == [i \in DOMAIN bs |-> bs[i].min + Whole(bs, i) + IF i \in S THEN 1 ELSE 0]
  <2>2. S \in SUBSET DOMAIN bs /\ S \subseteq Roomy(bs) /\ Cardinality(S) = Leftover(bs)
    BY <1>2, ServedExactly
  <2>3. \A i \in DOMAIN bs : Whole(bs, i) \in Nat /\ bs[i].min + Whole(bs, i) <= bs[i].max
    BY <1>2, SharesFit
  <2>4. \A i \in DOMAIN bs : /\ v[i] = bs[i].min + Whole(bs, i) + IF i \in S THEN 1 ELSE 0
                             /\ v[i] \in Int
    BY <1>0, <2>3
  <2>5. \A i \in DOMAIN bs : bs[i].min <= v[i] /\ v[i] <= bs[i].max
    BY <1>0, <2>2, <2>3, <2>4 DEF Roomy
  <2>6. w = ByName(bs, v)
    BY <2>1
  <2> HIDE DEF v
  <2>7. SumFunctionOnSet(v, DOMAIN bs) = (Full - Leftover(bs)) + Cardinality(S)
    BY <1>2, <2>2, <2>4, GivenSum
  <2>8. SumFunctionOnSet(v, DOMAIN bs) = Full
    BY <1>2, <2>2, <2>7, LeftoverFits DEF Full
  <2>9. /\ DOMAIN w = Named(bs)
        /\ \A i \in DOMAIN bs : w[bs[i].name] = v[i]
        /\ SumFunction(w) = SumFunctionOnSet(v, DOMAIN bs)
    BY <2>4, <2>6, ByNameKeeps
  <2> QED
    BY <2>4, <2>5, <2>8, <2>9
<1> QED
  BY <1>1, <1>2

----------------------------------------------------------------------------
(* The decision loop, as its callers see it                                *)

Run(i, n, run) ==
  run = [k \in 0..n |-> IF k = 0 THEN LoopStart(i) ELSE LoopBody(i, run[k - 1])]

\* The loop, run for any number of iterations, has a result.
LEMMA RunExists == \A i : \A n \in Nat : \E run : Run(i, n, run)
<1> SUFFICES ASSUME NEW i, NEW n \in Nat, \A run : ~Run(i, n, run) PROVE FALSE
  OBVIOUS
<1> DEFINE T == {k \in Nat : \A run : ~Run(i, k, run)}
<1>1. PICK m \in T : \A k \in T : m <= k
  <2>1. T \subseteq Nat /\ T # {}
    OBVIOUS
  <2> HIDE DEF T
  <2> QED
    BY <2>1, MinimalNumber
<1>2. m \in Nat /\ \A run : ~Run(i, m, run)
  OBVIOUS
<1>3. m # 0
  <2> DEFINE run == [k \in 0..0 |-> LoopStart(i)]
  <2>1. run = [k \in 0..0 |-> IF k = 0 THEN LoopStart(i) ELSE LoopBody(i, run[k - 1])]
    <3>1. \A k \in 0..0 : k = 0
      OBVIOUS
    <3> QED
      BY <3>1
  <2> HIDE DEF run
  <2> QED
    BY <1>2, <2>1 DEF Run
<1>4. m - 1 \in Nat /\ m - 1 < m
  BY <1>2, <1>3
<1>5. m - 1 \notin T
  BY <1>1, <1>2, <1>4
<1>6. PICK run : Run(i, m - 1, run)
  BY <1>4, <1>5
<1> DEFINE next == [k \in 0..m |-> IF k = m THEN LoopBody(i, run[m - 1]) ELSE run[k]]
<1>7. \A k \in 0..m : next[k] = IF k = 0 THEN LoopStart(i) ELSE LoopBody(i, next[k - 1])
  <2> SUFFICES ASSUME NEW k \in 0..m
               PROVE  next[k] = IF k = 0 THEN LoopStart(i) ELSE LoopBody(i, next[k - 1])
    OBVIOUS
  <2>1. CASE k = m
    <3>1. next[m - 1] = run[m - 1] /\ next[m] = LoopBody(i, run[m - 1])
      BY <1>2, <1>4
    <3> QED
      BY <1>3, <2>1, <3>1
  <2>2. CASE k # m /\ k # 0
    <3>1. k \in 0..(m - 1) /\ k - 1 \in 0..m /\ k - 1 # m
      BY <1>2, <2>2
    <3>2. run[k] = LoopBody(i, run[k - 1])
      BY <1>6, <2>2, <3>1 DEF Run
    <3> QED
      BY <2>2, <3>1, <3>2
  <2>3. CASE k # m /\ k = 0
    <3>1. 0 \in 0..(m - 1)
      BY <1>4
    <3> QED
      BY <1>6, <2>3, <3>1 DEF Run
  <2> QED
    BY <2>1, <2>2, <2>3
<1>8. next = [k \in 0..m |-> IF k = 0 THEN LoopStart(i) ELSE LoopBody(i, next[k - 1])]
  <2>1. next = [k \in 0..m |-> next[k]]
    OBVIOUS
  <2> HIDE DEF next
  <2> QED
    BY <1>7, <2>1
<1> HIDE DEF next
<1> QED
  BY <1>2, <1>8 DEF Run

\* What the loop leaves behind is the end of such a run.
LEMMA LoopRuns ==
  ASSUME NEW i, LoopBound(i) \in Nat
  PROVE  \E run : Run(i, LoopBound(i), run) /\ LoopEnd(i) = run[LoopBound(i)]
<1> DEFINE N   == LoopBound(i)
           run == CHOOSE run : run = [k \in 0..N |-> IF k = 0 THEN LoopStart(i) ELSE LoopBody(i, run[k - 1])]
<1>1. LoopEnd(i) = run[N]
  BY DEF LoopEnd
<1>2. run = [k \in 0..N |-> IF k = 0 THEN LoopStart(i) ELSE LoopBody(i, run[k - 1])]
  BY RunExists DEF Run
<1> HIDE DEF run
<1> QED
  BY <1>1, <1>2 DEF Run

\* The input of a call: finitely many backends with integer bounds and weights.
Regular(i) ==
  /\ IsFiniteSet(Backends(i))
  /\ \A b \in Backends(i) : /\ i.bounds[b].min \in Int /\ i.bounds[b].max \in Int
                            /\ StartWeight(i, b) \in Int
  /\ i.step \in Nat

\* Limits that the bounds keep to.
Encloses(i, lo, hi) ==
  \A b \in Backends(i) : /\ lo[b] \in Int /\ hi[b] \in Int
                         /\ lo[b] <= i.bounds[b].min /\ i.bounds[b].max <= hi[b]
                         /\ lo[b] <= StartWeight(i, b) /\ StartWeight(i, b) <= hi[b]

\* Weights within the limits that add up to what they did at the start.
Within(i, lo, hi, cur) ==
  /\ cur \in [Backends(i) -> Int]
  /\ \A b \in Backends(i) : lo[b] <= cur[b] /\ cur[b] <= hi[b]
  /\ SumFunctionOnSet(cur, Backends(i)) = SumFunctionOnSet(LoopStart(i).current, Backends(i))

\* No backend has moved further than what is gone of its budget.
Paid(i, st) ==
  /\ st.budget \in [Backends(i) -> Nat]
  /\ \A b \in Backends(i) :
       /\ st.current[b] - StartWeight(i, b) <= i.step - st.budget[b]
       /\ StartWeight(i, b) - st.current[b] <= i.step - st.budget[b]

Kept(i, lo, hi, st) == Within(i, lo, hi, st.current) /\ Paid(i, st)

\* Two different backends each spend one point of their budgets.
LEMMA BudgetsSpent ==
  ASSUME NEW B, NEW d \in B, NEW r \in B, d # r,
         NEW bud \in [B -> Nat], bud[d] > 0, bud[r] > 0,
         NEW left, left = [bud EXCEPT ![d] = @ - 1, ![r] = @ - 1]
  PROVE  /\ left \in [B -> Nat] /\ left[d] = bud[d] - 1 /\ left[r] = bud[r] - 1
         /\ \A b \in B \ {d, r} : left[b] = bud[b]
<1> DEFINE mid == [bud EXCEPT ![d] = @ - 1]
<1>1. bud[d] - 1 \in Nat /\ bud[r] - 1 \in Nat
  OBVIOUS
<1>2. mid \in [B -> Nat] /\ mid[d] = bud[d] - 1 /\ \A b \in B \ {d} : mid[b] = bud[b]
  BY <1>1
<1>3. left = [mid EXCEPT ![r] = @ - 1]
  OBVIOUS
<1> HIDE DEF mid
<1> QED
  BY <1>1, <1>2, <1>3


\* An iteration takes a point where it may be taken, gives it where it may be given and
\* charges both.
LEMMA BodyKeeps ==
  ASSUME NEW i, Regular(i), NEW lo, NEW hi, Encloses(i, lo, hi), NEW st, Kept(i, lo, hi, st)
  PROVE  Kept(i, lo, hi, LoopBody(i, st))
<1> DEFINE donors     == {b \in Unhealthy(i) : PickDonor(i, st.current, st.budget, b)}
           recipients == {b \in Healthy(i) : PickRecipient(i, st.current, st.budget, b)}
           d == CHOOSE b \in donors : TRUE
           r == CHOOSE b \in recipients : TRUE
           B == Backends(i)
           cur == st.current
           new == [cur EXCEPT ![d] = @ - 1, ![r] = @ + 1]
           bud == st.budget
           left == [bud EXCEPT ![d] = @ - 1, ![r] = @ - 1]
<1>1. CASE donors = {} \/ recipients = {}
  BY <1>1 DEF LoopBody
<1>2. CASE donors # {} /\ recipients # {}
  <2>1. d \in donors /\ r \in recipients
    BY <1>2
  <2>2. /\ d \in B /\ r \in B /\ d # r /\ cur[d] > i.bounds[d].min /\ cur[r] < i.bounds[r].max
        /\ bud[d] > 0 /\ bud[r] > 0
    BY <2>1 DEF PickDonor, PickRecipient, CanGive, CanTake, Unhealthy, Healthy
  <2>3. LoopBody(i, st).current = new /\ LoopBody(i, st).budget = left
    BY <1>2 DEF LoopBody
  <2>4. /\ cur \in [B -> Int] /\ IsFiniteSet(B)
        /\ \A b \in B : lo[b] <= cur[b] /\ cur[b] <= hi[b]
        /\ \A b \in B : /\ lo[b] \in Int /\ hi[b] \in Int
                        /\ i.bounds[b].min \in Int /\ i.bounds[b].max \in Int
                        /\ lo[b] <= i.bounds[b].min /\ i.bounds[b].max <= hi[b]
        /\ bud \in [B -> Nat] /\ i.step \in Nat
        /\ \A b \in B : /\ StartWeight(i, b) \in Int
                        /\ cur[b] - StartWeight(i, b) <= i.step - bud[b]
                        /\ StartWeight(i, b) - cur[b] <= i.step - bud[b]
    BY DEF Kept, Within, Paid, Encloses, Regular
  <2> DEFINE mid == [cur EXCEPT ![d] = @ - 1]
  <2> HIDE DEF donors, recipients, d, r, B, cur, bud, left
  <2>5. /\ mid \in [B -> Int] /\ mid[d] = cur[d] - 1 /\ \A b \in B \ {d} : mid[b] = cur[b]
        /\ new \in [B -> Int] /\ new[r] = mid[r] + 1 /\ \A b \in B \ {r} : new[b] = mid[b]
    BY <2>2, <2>4
  <2>6. \A b \in B : lo[b] <= new[b] /\ new[b] <= hi[b]
    <3> SUFFICES ASSUME NEW b \in B PROVE lo[b] <= new[b] /\ new[b] <= hi[b]
      OBVIOUS
    <3>1. CASE b = d
      BY <2>2, <2>4, <2>5, <3>1
    <3>2. CASE b = r
      BY <2>2, <2>4, <2>5, <3>2
    <3>3. CASE b # d /\ b # r
      BY <2>4, <2>5, <3>3
    <3> QED
      BY <3>1, <3>2, <3>3
  <2>13. /\ left \in [B -> Nat] /\ left[d] = bud[d] - 1 /\ left[r] = bud[r] - 1
         /\ \A b \in B \ {d, r} : left[b] = bud[b]
    BY <2>2, <2>4, BudgetsSpent DEF left
  <2>14. ASSUME NEW b \in B
         PROVE  /\ new[b] - StartWeight(i, b) <= i.step - left[b]
                /\ StartWeight(i, b) - new[b] <= i.step - left[b]
    <3>1. /\ cur[b] \in Int /\ bud[b] \in Int /\ StartWeight(i, b) \in Int /\ i.step \in Int
          /\ cur[b] - StartWeight(i, b) <= i.step - bud[b]
          /\ StartWeight(i, b) - cur[b] <= i.step - bud[b]
      BY <2>4
    <3>2. CASE b = d
      BY <2>2, <2>5, <2>13, <3>1, <3>2
    <3>3. CASE b = r
      BY <2>2, <2>5, <2>13, <3>1, <3>3
    <3>4. CASE b # d /\ b # r
      BY <2>5, <2>13, <3>1, <3>4
    <3> QED
      BY <3>2, <3>3, <3>4
  <2>7. (\A b \in B : cur[b] \in Int /\ mid[b] \in Int /\ new[b] \in Int)
    BY <2>4, <2>5
  <2> HIDE DEF mid, new
  <2>8. SumFunctionOnSet(mid, B) = SumFunctionOnSet(cur, B) + (mid[d] - cur[d])
    BY <2>2, <2>4, <2>5, <2>7, SumChange
  <2>9. SumFunctionOnSet(new, B) = SumFunctionOnSet(mid, B) + (new[r] - mid[r])
    BY <2>2, <2>4, <2>5, <2>7, SumChange
  <2>10. SumFunctionOnSet(cur, B) \in Int /\ SumFunctionOnSet(mid, B) \in Int
    BY <2>4, <2>7, SumType
  <2>11. SumFunctionOnSet(new, B) = SumFunctionOnSet(cur, B)
    BY <2>2, <2>5, <2>7, <2>8, <2>9, <2>10
  <2>12. SumFunctionOnSet(cur, B) = SumFunctionOnSet(LoopStart(i).current, B)
    BY DEF Kept, Within, B, cur
  <2>15. Within(i, lo, hi, LoopBody(i, st).current)
    BY <2>3, <2>5, <2>6, <2>11, <2>12 DEF Within, B
  <2>16. Paid(i, LoopBody(i, st))
    BY <2>3, <2>13, <2>14 DEF Paid, B
  <2> QED
    BY <2>15, <2>16 DEF Kept
<1> QED
  BY <1>1, <1>2

\* However many iterations: the weights keep to any limits the bounds and the start keep
\* to, their sum stays, and no backend moves further than the step.
LEMMA LoopKeeps ==
  ASSUME NEW i, Regular(i), NEW lo, NEW hi, Encloses(i, lo, hi)
  PROVE  Kept(i, lo, hi, LoopEnd(i))
<1> DEFINE N == LoopBound(i)
<1>1. N \in Nat
  <2>1. IsFiniteSet(Unhealthy(i))
    BY FS_Subset DEF Regular, Unhealthy
  <2>2. Cardinality(Unhealthy(i)) \in Nat /\ i.step \in Nat
    BY <2>1, FS_CardinalityType DEF Regular
  <2> QED
    BY <2>2 DEF LoopBound
<1>2. PICK run : Run(i, N, run) /\ LoopEnd(i) = run[N]
  BY <1>1, LoopRuns
<1> HIDE DEF N
<1>4. \A k \in 0..N : run[k] = IF k = 0 THEN LoopStart(i) ELSE LoopBody(i, run[k - 1])
  BY <1>2 DEF Run
<1> DEFINE T == {k \in 0..N : ~Kept(i, lo, hi, run[k])}
<1>5. SUFFICES ASSUME T # {} PROVE FALSE
  BY <1>1, <1>2, <1>5
<1>6. PICK m \in T : \A k \in T : m <= k
  <2>1. T \subseteq Nat
    BY <1>1
  <2> HIDE DEF T
  <2> QED
    BY <1>5, <2>1, MinimalNumber
<1>7. m \in 0..N /\ ~Kept(i, lo, hi, run[m])
  OBVIOUS
<1>8. CASE m = 0
  <2>1. run[m] = LoopStart(i)
    BY <1>4, <1>7, <1>8
  <2>2. LoopStart(i).current = [b \in Backends(i) |-> StartWeight(i, b)]
    BY DEF LoopStart
  <2>3. Within(i, lo, hi, LoopStart(i).current)
    BY <2>2 DEF Within, Regular, Encloses
  <2>4. LoopStart(i).budget = [b \in Backends(i) |-> i.step]
    BY DEF LoopStart
  <2>5. Paid(i, LoopStart(i))
    BY <2>2, <2>4 DEF Paid, Regular
  <2> QED
    BY <1>7, <2>1, <2>3, <2>5 DEF Kept
<1>9. CASE m # 0
  <2>1. m - 1 \in 0..N /\ m - 1 < m
    BY <1>1, <1>7, <1>9
  <2>2. m - 1 \notin T
    BY <1>1, <1>6, <1>7, <2>1
  <2>3. Kept(i, lo, hi, run[m - 1])
    BY <2>1, <2>2
  <2>4. run[m] = LoopBody(i, run[m - 1])
    BY <1>4, <1>7, <1>9
  <2> QED
    BY <1>7, <2>3, <2>4, BodyKeeps
<1> QED
  BY <1>8, <1>9

\* What a call returns: the weights it was given, or others within the same limits that add
\* up to the same and are no further than the step from where they were.
LEMMA EvaluateKeeps ==
  ASSUME NEW i, Regular(i), NEW lo, NEW hi, Encloses(i, lo, hi), Evaluate(i).changed
  PROVE  /\ Within(i, lo, hi, Evaluate(i).weights)
         /\ \A b \in Backends(i) : Evaluate(i).weights[b] - StartWeight(i, b) \in (-i.step)..i.step
<1>1. Within(i, lo, hi, LoopEnd(i).current) /\ Paid(i, LoopEnd(i))
  BY LoopKeeps DEF Kept
<1>2. Evaluate(i).weights = LoopEnd(i).current
  BY DEF Evaluate
<1>3. ASSUME NEW b \in Backends(i)
      PROVE  LoopEnd(i).current[b] - StartWeight(i, b) \in (-i.step)..i.step
  <2>1. /\ LoopEnd(i).current[b] \in Int /\ LoopEnd(i).budget[b] \in Nat
        /\ StartWeight(i, b) \in Int /\ i.step \in Nat
    BY <1>1 DEF Within, Paid, Regular
  <2> QED
    BY <1>1, <2>1 DEF Paid
<1> QED
  BY <1>1, <1>2, <1>3

----------------------------------------------------------------------------
(* Inputs, verdicts and iterations                                         *)

\* The verdicts are disjoint, so a donor is never its own recipient.
LEMMA VerdictsDisjoint == \A i : Unhealthy(i) \cap Healthy(i) = {}
  BY DEF Unhealthy, Healthy

\* The verdicts are about declared backends.
LEMMA VerdictsDeclared ==
  \A i : Unhealthy(i) \subseteq Backends(i) /\ Healthy(i) \subseteq Backends(i)
  BY DEF Unhealthy, Healthy

\* A typed input has integer scores, bounds and start weights.
LEMMA InputTypes ==
  ASSUME NEW i, IsInput(i), NEW b \in Backends(i)
  PROVE  /\ i.step \in Int
         /\ i.bounds[b].min \in Int /\ i.bounds[b].max \in Int
         /\ StartWeight(i, b) \in Int
         /\ Score(i, b) \in Int
         /\ b \in Int
<1>1. IsInput(i)
  OBVIOUS
<1>2. i.step \in Int /\ i.bounds[b].min \in Int /\ i.bounds[b].max \in Int
  BY <1>1 DEF IsInput, Backends
<1>3. StartWeight(i, b) \in Int
  BY <1>1 DEF IsInput, StartWeight
<1>4. \A s \in DOMAIN i.signals : i.signals[s].threshold \in Int
  BY <1>1 DEF IsInput
<1>5. \A s \in SignalNames : OtherThreshold(i, s) \in Int
  BY <1>4 DEF OtherThreshold, SignalNames
<1>6. \A s \in SignalNames : Excess(i, s, b) \in Int
  <2> SUFFICES ASSUME NEW s \in SignalNames PROVE Excess(i, s, b) \in Int
    OBVIOUS
  <2>1. CASE ~Breaches(i, s, b)
    BY <2>1 DEF Excess
  <2>2. CASE Breaches(i, s, b)
    <3>1. i.signals[s].samples[b] \in Int /\ i.signals[s].threshold \in Int
      BY <1>1, <2>2 DEF Breaches, Reports, IsInput
    <3>2. OtherThreshold(i, s) \in Int
      BY <1>5
    <3>3. (i.signals[s].samples[b] - i.signals[s].threshold) \in Int
      BY <3>1
    <3> QED
      BY <2>2, <3>2, <3>3 DEF Excess
  <2> QED
    BY <2>1, <2>2
<1>7. Score(i, b) \in Int
  BY <1>6 DEF Score, SignalNames
<1>8. b \in Int
  BY <1>1, NamesAreOrdered DEF IsInput, Backends
<1> QED
  BY <1>2, <1>3, <1>7, <1>8

\* Of two backends one is strictly ahead of the other, in both orders.
LEMMA OrdersTotal ==
  ASSUME NEW i, IsInput(i), NEW d \in Backends(i), NEW e \in Backends(i)
  PROVE  /\ ~(WorseThan(i, d, e) /\ WorseThan(i, e, d))
         /\ ~(BetterThan(i, d, e) /\ BetterThan(i, e, d))
         /\ d # e => WorseThan(i, d, e) \/ WorseThan(i, e, d)
         /\ d # e => BetterThan(i, d, e) \/ BetterThan(i, e, d)
         /\ ~WorseThan(i, d, d) /\ ~BetterThan(i, d, d)
<1>1. Score(i, d) \in Int /\ Score(i, e) \in Int /\ d \in Int /\ e \in Int
  BY InputTypes
<1> QED
  BY <1>1 DEF WorseThan, BetterThan

\* An input has finitely many backends.
LEMMA InputFinite ==
  ASSUME NEW i, IsInput(i)
  PROVE  /\ IsFiniteSet(Backends(i)) /\ IsFiniteSet(Unhealthy(i)) /\ IsFiniteSet(Healthy(i))
         /\ LoopBound(i) = i.step * Cardinality(Unhealthy(i))
         /\ Cardinality(Unhealthy(i)) \in Nat /\ i.step \in Int /\ LoopBound(i) \in Int
         /\ ~Holds(i) => i.step > 0 /\ LoopBound(i) \in Nat
<1>1. IsFiniteSet(Backends(i)) /\ i.step \in Int
  BY DEF IsInput, Backends
<1>2. IsFiniteSet(Unhealthy(i)) /\ IsFiniteSet(Healthy(i))
  BY <1>1, VerdictsDeclared, FS_Subset
<1>3. Cardinality(Unhealthy(i)) \in Nat
  BY <1>2, FS_CardinalityType
<1>4. ~Holds(i) => i.step > 0
  BY <1>1 DEF Holds
<1>5. LoopBound(i) = i.step * Cardinality(Unhealthy(i))
  BY DEF LoopBound
<1>6. LoopBound(i) \in Int /\ (i.step > 0 => LoopBound(i) \in Nat)
  BY <1>1, <1>3, <1>5
<1> QED
  BY <1>1, <1>2, <1>3, <1>4, <1>5, <1>6

Exhausted(i, cur, bud) ==
  \/ \A b \in Unhealthy(i) : ~CanGive(i, cur, bud, b)
  \/ \A b \in Healthy(i)   : ~CanTake(i, cur, bud, b)

\* What a point moved from d to r makes of the weights and of the budgets, and of the
\* state of the loop.
PointMoved(w, d, r)  == [w EXCEPT ![d] = @ - 1, ![r] = @ + 1]
PointsSpent(w, d, r) == [w EXCEPT ![d] = @ - 1, ![r] = @ - 1]
Moving(st, d, r) ==
  [current |-> PointMoved(st.current, d, r), budget |-> PointsSpent(st.budget, d, r), shifted |-> st.shifted + 1]

\* While a donor and a recipient can be picked, an iteration is a Shift between them.
LEMMA BodyIsShift ==
  ASSUME NEW i, IsInput(i), NEW st, NEW d, NEW r,
         PickDonor(i, st.current, st.budget, d), PickRecipient(i, st.current, st.budget, r)
  PROVE  LoopBody(i, st) = Moving(st, d, r)
<1> DEFINE donors     == {b \in Unhealthy(i) : PickDonor(i, st.current, st.budget, b)}
           recipients == {b \in Healthy(i) : PickRecipient(i, st.current, st.budget, b)}
<1>1. donors = {d}
  <2>1. d \in donors
    BY DEF PickDonor
  <2>2. ASSUME NEW e \in donors, e # d PROVE FALSE
    <3>1. d \in Unhealthy(i) /\ e \in Unhealthy(i) /\ WorseThan(i, d, e) /\ WorseThan(i, e, d)
      BY <2>2 DEF PickDonor
    <3> QED
      BY <3>1, VerdictsDeclared, OrdersTotal
  <2> QED
    BY <2>1, <2>2
<1>2. recipients = {r}
  <2>1. r \in recipients
    BY DEF PickRecipient
  <2>2. ASSUME NEW e \in recipients, e # r PROVE FALSE
    <3>1. r \in Healthy(i) /\ e \in Healthy(i) /\ BetterThan(i, r, e) /\ BetterThan(i, e, r)
      BY <2>2 DEF PickRecipient
    <3> QED
      BY <3>1, VerdictsDeclared, OrdersTotal
  <2> QED
    BY <2>1, <2>2
<1>3. (CHOOSE b \in donors : TRUE) = d /\ (CHOOSE b \in recipients : TRUE) = r
  BY <1>1, <1>2
<1> QED
  BY <1>1, <1>2, <1>3 DEF LoopBody, Moving, PointMoved, PointsSpent

\* Otherwise it changes nothing.
LEMMA BodyIsIdle ==
  ASSUME NEW i, NEW st, Exhausted(i, st.current, st.budget)
  PROVE  LoopBody(i, st) = st
  BY DEF LoopBody, Exhausted, PickDonor, PickRecipient

\* A run that stands still once stands still to its end.
LEMMA RunStays ==
  ASSUME NEW i, NEW N \in Nat, NEW run, Run(i, N, run), NEW m \in 0..N,
         LoopBody(i, run[m]) = run[m]
  PROVE  run[N] = run[m]
<1> DEFINE T == {k \in m..N : run[k] # run[m]}
<1> SUFFICES ASSUME T # {} PROVE FALSE
  OBVIOUS
<1>1. PICK k \in T : \A j \in T : k <= j
  <2>1. T \subseteq Nat
    OBVIOUS
  <2> HIDE DEF T
  <2> QED
    BY <2>1, MinimalNumber
<1>2. k \in m..N /\ run[k] # run[m] /\ k # m
  OBVIOUS
<1>3. k - 1 \in m..N /\ k - 1 < k /\ k \in 0..N /\ k # 0
  BY <1>2
<1>4. run[k - 1] = run[m]
  BY <1>1, <1>3
<1>5. run[k] = LoopBody(i, run[k - 1])
  BY <1>3 DEF Run
<1> QED
  BY <1>2, <1>4, <1>5

\* No more points are spent on a side than the step allows each of its backends.
LEMMA SpentWithinBound ==
  ASSUME NEW i, IsInput(i), NEW spent, \A b \in Unhealthy(i) : spent[b] \in Int /\ spent[b] <= i.step
  PROVE  SumFunctionOnSet(spent, Unhealthy(i)) <= LoopBound(i)
<1> DEFINE full == [b \in Unhealthy(i) |-> i.step]
<1>1. IsFiniteSet(Unhealthy(i)) /\ i.step \in Int
  BY InputFinite
<1>2. \A b \in Unhealthy(i) : full[b] = i.step
  OBVIOUS
<1> HIDE DEF full
<1>3. SumFunctionOnSet(full, Unhealthy(i)) = LoopBound(i)
  BY <1>1, <1>2, SumConstant DEF LoopBound
<1>4. \A b \in Unhealthy(i) : spent[b] \in Int /\ full[b] \in Int /\ spent[b] <= full[b]
  BY <1>1, <1>2
<1>5. SumFunctionOnSet(spent, Unhealthy(i)) <= SumFunctionOnSet(full, Unhealthy(i))
  BY <1>1, <1>4, SumMonotone
<1> QED
  BY <1>3, <1>5

\* A capacity is a number of points.
LEMMA CapacityTypes ==
  ASSUME NEW i, IsInput(i), NEW b \in Backends(i)
  PROVE  Capacity(i, b) \in Nat
<1>1. i.step \in Int /\ i.bounds[b].min \in Int /\ i.bounds[b].max \in Int /\ StartWeight(i, b) \in Int
  BY InputTypes
<1>2. PICK room : room = IF b \in Unhealthy(i) THEN StartWeight(i, b) - i.bounds[b].min
                                              ELSE i.bounds[b].max - StartWeight(i, b)
  OBVIOUS
<1>3. room \in Int
  BY <1>1, <1>2
<1>4. Capacity(i, b) = AtLeastZero(Least(i.step, room))
  BY <1>2 DEF Capacity
<1> QED
  BY <1>1, <1>3, <1>4 DEF AtLeastZero, Least

\* Capacities over a set are the sum of any function that gives them on it.
LEMMA CapacitiesAre ==
  ASSUME NEW i, NEW S, IsFiniteSet(S), NEW cap, \A b \in S : cap[b] = Capacity(i, b)
  PROVE  Capacities(i, S) = SumFunctionOnSet(cap, S)
<1> DEFINE own == [b \in S |-> Capacity(i, b)]
<1>1. \A b \in S : own[b] = cap[b]
  OBVIOUS
<1> HIDE DEF own
<1>2. SumFunctionOnSet(own, S) = SumFunctionOnSet(cap, S)
  BY <1>1, SumSame
<1> QED
  BY <1>2 DEF Capacities, own

\* Points spent in an order, every member of it filled before the next is begun: each has
\* spent what the total leaves it after those ahead, as far as its capacity allows.
LEMMA SpentInOrder ==
  ASSUME NEW S, IsFiniteSet(S), NEW b \in S, NEW A, NEW Z, S = (A \cup {b}) \cup Z,
         b \notin A, b \notin Z, A \cap Z = {},
         NEW spent, NEW cap,
         \A e \in S : spent[e] \in Nat /\ cap[e] \in Nat /\ spent[e] <= cap[e],
         spent[b] > 0 => \A e \in A : spent[e] = cap[e],
         spent[b] < cap[b] => \A e \in Z : spent[e] = 0
  PROVE  spent[b] = AtLeastZero(Least(cap[b], SumFunctionOnSet(spent, S) - SumFunctionOnSet(cap, A)))
<1> DEFINE none == [e \in Z |-> 0]
<1>1. IsFiniteSet(A) /\ IsFiniteSet(Z) /\ IsFiniteSet(A \cup {b})
  BY FS_Subset
<1>2. PICK onA : onA = SumFunctionOnSet(spent, A)
  OBVIOUS
<1>3. PICK onZ : onZ = SumFunctionOnSet(spent, Z)
  OBVIOUS
<1>4. PICK fullA : fullA = SumFunctionOnSet(cap, A)
  OBVIOUS
<1>5. PICK total : total = SumFunctionOnSet(spent, S)
  OBVIOUS
<1>6. onA \in Int /\ onZ \in Int /\ fullA \in Int
  BY <1>1, <1>2, <1>3, <1>4, SumType
<1>7. total = (onA + spent[b]) + onZ
  <2> DEFINE Ab == A \cup {b}
  <2>1. IsFiniteSet(Ab) /\ Ab \cap Z = {} /\ b \in Ab /\ Ab \ {b} = A /\ S = Ab \cup Z
    BY <1>1
  <2>2. (\A e \in Ab : spent[e] \in Int) /\ (\A e \in Ab \cup Z : spent[e] \in Int)
    BY <2>1
  <2> HIDE DEF Ab
  <2>3. SumFunctionOnSet(spent, Ab \cup Z) = SumFunctionOnSet(spent, Ab) + SumFunctionOnSet(spent, Z)
    BY <1>1, <2>1, <2>2, SumUnion
  <2>4. SumFunctionOnSet(spent, Ab) = spent[b] + SumFunctionOnSet(spent, Ab \ {b})
    BY <2>1, <2>2, SumAny
  <2>5. spent[b] \in Int
    OBVIOUS
  <2>6. SumFunctionOnSet(spent, Ab) = spent[b] + onA
    BY <1>2, <2>1, <2>4
  <2>7. total = SumFunctionOnSet(spent, Ab) + onZ
    BY <1>3, <1>5, <2>1, <2>3
  <2> QED
    BY <1>6, <2>5, <2>6, <2>7
<1>8. onA <= fullA
  BY <1>1, <1>2, <1>4, SumMonotone
<1>9. spent[b] > 0 => onA = fullA
  BY <1>1, <1>2, <1>4, SumSame
<1>10. onZ >= 0 /\ (spent[b] < cap[b] => onZ = 0)
  <2>1. \A e \in Z : none[e] = 0
    OBVIOUS
  <2> HIDE DEF none
  <2>2. SumFunctionOnSet(none, Z) = 0 * Cardinality(Z) /\ Cardinality(Z) \in Nat
    BY <1>1, <2>1, SumConstant, FS_CardinalityType
  <2>3. SumFunctionOnSet(none, Z) = 0
    BY <2>2
  <2>4. SumFunctionOnSet(none, Z) <= SumFunctionOnSet(spent, Z)
    BY <1>1, <2>1, SumMonotone
  <2>5. ASSUME spent[b] < cap[b]
        PROVE  SumFunctionOnSet(none, Z) = SumFunctionOnSet(spent, Z)
    BY <1>1, <2>1, <2>5, SumSame
  <2> QED
    BY <1>3, <1>6, <2>3, <2>4, <2>5
<1>11. PICK p, c : p = spent[b] /\ c = cap[b]
  OBVIOUS
<1>12. p \in Nat /\ c \in Nat /\ p <= c
  BY <1>11
<1>13. p = AtLeastZero(Least(c, total - fullA))
  BY <1>6, <1>7, <1>8, <1>9, <1>10, <1>11, <1>12 DEF AtLeastZero, Least
<1> QED
  BY <1>4, <1>5, <1>11, <1>13

----------------------------------------------------------------------------
(* One side of a transfer: points spent in an order, a member's first only *)
(* when those ahead of it have spent all they can                          *)

\* A strict order of the members, given as its set of pairs.
Ranked(S, ahead) ==
  /\ \A a, b \in S : ~(<<a, b>> \in ahead /\ <<b, a>> \in ahead)
  /\ \A a, b \in S : a # b => <<a, b>> \in ahead \/ <<b, a>> \in ahead
  /\ \A a, b, c \in S : <<a, b>> \in ahead /\ <<b, c>> \in ahead => <<a, c>> \in ahead

Side(S, ahead, spent, cap, n) ==
  /\ \A b \in S : spent[b] \in Nat /\ cap[b] \in Nat /\ spent[b] <= cap[b]
  /\ \A a, b \in S : <<a, b>> \in ahead /\ spent[b] > 0 => spent[a] = cap[a]
  /\ SumFunctionOnSet(spent, S) = n

\* Some member is ahead of all others.
LEMMA FirstExists ==
  ASSUME NEW S, IsFiniteSet(S), NEW ahead, Ranked(S, ahead), NEW C, C \subseteq S, C # {}
  PROVE  \E x \in C : \A e \in C \ {x} : <<x, e>> \in ahead
<1> DEFINE Up(x) == {e \in C : <<e, x>> \in ahead}
           Ups   == {Up(x) : x \in C}
<1>1. Ups \subseteq SUBSET S /\ Ups # {}
  OBVIOUS
<1>2. PICK U \in Ups : \A V \in Ups : V \subseteq U => V = U
  <2> HIDE DEF Ups
  <2> QED
    BY <1>1, MinimalSubset
<1>3. PICK x \in C : U = Up(x)
  OBVIOUS
<1>4. ASSUME NEW y \in Up(x) PROVE FALSE
  <2>1. y \in C /\ y \in S /\ x \in S /\ <<y, x>> \in ahead
    OBVIOUS
  <2>2. Up(y) \subseteq Up(x)
    BY <2>1 DEF Ranked
  <2>3. y \notin Up(y)
    BY <2>1 DEF Ranked
  <2>4. Up(y) = Up(x)
    <3>1. Up(y) \in Ups
      BY <2>1
    <3> HIDE DEF Up, Ups
    <3> QED
      BY <1>2, <1>3, <2>2, <3>1
  <2> QED
    BY <1>4, <2>3, <2>4
<1>5. ASSUME NEW e \in C \ {x} PROVE <<x, e>> \in ahead
  BY <1>4 DEF Ranked
<1> QED
  BY <1>5

\* A point spent by the first member that can spend one.
LEMMA PointSpent ==
  ASSUME NEW S, IsFiniteSet(S), NEW ahead, Ranked(S, ahead),
         NEW spent, NEW cap, NEW n, Side(S, ahead, spent, cap, n),
         NEW x \in S, spent[x] < cap[x],
         \A e \in S \ {x} : spent[e] < cap[e] => <<x, e>> \in ahead,
         NEW new, new[x] = spent[x] + 1, \A e \in S \ {x} : new[e] = spent[e]
  PROVE  Side(S, ahead, new, cap, n + 1)
<1>1. \A b \in S : spent[b] \in Nat /\ cap[b] \in Nat /\ spent[b] <= cap[b]
  BY DEF Side
<1>2. \A b \in S : new[b] \in Nat /\ new[b] <= cap[b]
  <2> SUFFICES ASSUME NEW b \in S PROVE new[b] \in Nat /\ new[b] <= cap[b]
    OBVIOUS
  <2>1. CASE b = x
    BY <1>1, <2>1
  <2>2. CASE b # x
    BY <1>1, <2>2
  <2> QED
    BY <2>1, <2>2
<1>3. ASSUME NEW a \in S, NEW b \in S, <<a, b>> \in ahead, new[b] > 0
      PROVE  new[a] = cap[a]
  <2>1. spent[a] = cap[a]
    <3>1. CASE b = x
      <4>1. a # x /\ <<x, a>> \notin ahead
        BY <1>3, <3>1 DEF Ranked
      <4>2. ~(spent[a] < cap[a])
        BY <4>1
      <4> QED
        BY <1>1, <4>2
    <3>2. CASE b # x
      BY <1>3, <3>2 DEF Side
    <3> QED
      BY <3>1, <3>2
  <2>2. a # x
    BY <1>1, <2>1
  <2> QED
    BY <2>1, <2>2
<1>4. SumFunctionOnSet(new, S) = SumFunctionOnSet(spent, S) + (new[x] - spent[x])
  <2>1. \A b \in S : spent[b] \in Int /\ new[b] \in Int
    BY <1>1, <1>2
  <2> QED
    BY <2>1, SumChange
<1>5. SumFunctionOnSet(spent, S) = n /\ n \in Int
  BY <1>1, SumType DEF Side
<1>6. SumFunctionOnSet(new, S) = n + 1
  BY <1>1, <1>4, <1>5
<1> QED
  BY <1>1, <1>2, <1>3, <1>6 DEF Side

\* No more is spent than can be, and all of it when no member can go on.
LEMMA SideTotal ==
  ASSUME NEW S, IsFiniteSet(S), NEW ahead, NEW spent, NEW cap, NEW n, Side(S, ahead, spent, cap, n)
  PROVE  /\ n \in Int /\ SumFunctionOnSet(cap, S) \in Int /\ n <= SumFunctionOnSet(cap, S)
         /\ (\A b \in S : ~(spent[b] < cap[b])) => n = SumFunctionOnSet(cap, S)
<1>1. \A b \in S : spent[b] \in Int /\ cap[b] \in Int /\ spent[b] <= cap[b]
  BY DEF Side
<1>2. SumFunctionOnSet(spent, S) = n
  BY DEF Side
<1>3. SumFunctionOnSet(spent, S) \in Int /\ SumFunctionOnSet(cap, S) \in Int
  BY <1>1, SumType
<1>4. SumFunctionOnSet(spent, S) <= SumFunctionOnSet(cap, S)
  BY <1>1, SumMonotone
<1>5. ASSUME \A b \in S : ~(spent[b] < cap[b])
      PROVE  SumFunctionOnSet(spent, S) = SumFunctionOnSet(cap, S)
  <2>1. \A b \in S : spent[b] = cap[b]
    BY <1>1, <1>5
  <2> QED
    BY <2>1, SumSame
<1> QED
  BY <1>2, <1>3, <1>4, <1>5

\* What each member has spent is what the total leaves it after those ahead.
LEMMA SideServed ==
  ASSUME NEW S, IsFiniteSet(S), NEW ahead, Ranked(S, ahead),
         NEW spent, NEW cap, NEW n, Side(S, ahead, spent, cap, n),
         NEW b \in S, NEW A, A = {e \in S : <<e, b>> \in ahead}
  PROVE  spent[b] = AtLeastZero(Least(cap[b], n - SumFunctionOnSet(cap, A)))
<1> DEFINE Z == {e \in S : <<b, e>> \in ahead}
<1>1. S = (A \cup {b}) \cup Z /\ b \notin A /\ b \notin Z /\ A \cap Z = {}
  BY DEF Ranked
<1>2. \A e \in S : spent[e] \in Nat /\ cap[e] \in Nat /\ spent[e] <= cap[e]
  BY DEF Side
<1>3. spent[b] > 0 => \A e \in A : spent[e] = cap[e]
  BY DEF Side
<1>4. ASSUME spent[b] < cap[b], NEW e \in Z PROVE spent[e] = 0
  <2>1. spent[e] > 0 => spent[b] = cap[b]
    BY DEF Side
  <2> QED
    BY <1>2, <1>4, <2>1
<1>5. SumFunctionOnSet(spent, S) = n
  BY DEF Side
<1>6. IsFiniteSet(S) /\ b \in S /\ (spent[b] < cap[b] => \A e \in Z : spent[e] = 0)
  BY <1>4
<1> HIDE DEF Z
<1>7. spent[b] = AtLeastZero(Least(cap[b], SumFunctionOnSet(spent, S) - SumFunctionOnSet(cap, A)))
  BY ONLY <1>1, <1>2, <1>3, <1>6, SpentInOrder
<1> QED
  BY <1>5, <1>7

----------------------------------------------------------------------------
(* The loop spends on both sides at once                                   *)

Worse(i)  == {p \in Unhealthy(i) \X Unhealthy(i) : WorseThan(i, p[1], p[2])}
Better(i) == {p \in Healthy(i) \X Healthy(i) : BetterThan(i, p[1], p[2])}

Spent(i, st) == [b \in Backends(i) |-> i.step - st.budget[b]]
Room(i)      == [b \in Backends(i) |-> Capacity(i, b)]

\* The weights are what the points spent make of the start, and on either side as many are
\* spent as the loop has shifted, in order.
Progress(i, st) ==
  /\ st.current \in [Backends(i) -> Int] /\ st.budget \in [Backends(i) -> Int] /\ st.shifted \in Nat
  /\ \A b \in Backends(i) :
       st.current[b] = IF b \in Unhealthy(i) THEN StartWeight(i, b) - Spent(i, st)[b]
                       ELSE IF b \in Healthy(i) THEN StartWeight(i, b) + Spent(i, st)[b]
                       ELSE StartWeight(i, b)
  /\ Side(Unhealthy(i), Worse(i), Spent(i, st), Room(i), st.shifted)
  /\ Side(Healthy(i), Better(i), Spent(i, st), Room(i), st.shifted)

\* Both lists of backends are ranked.
LEMMA SidesRanked ==
  ASSUME NEW i, IsInput(i)
  PROVE  /\ Ranked(Unhealthy(i), Worse(i)) /\ Ranked(Healthy(i), Better(i))
         /\ \A a, b \in Unhealthy(i) : <<a, b>> \in Worse(i) <=> WorseThan(i, a, b)
         /\ \A a, b \in Healthy(i) : <<a, b>> \in Better(i) <=> BetterThan(i, a, b)
<1>1. \A b \in Backends(i) : Score(i, b) \in Int /\ b \in Int
  BY InputTypes
<1>2. /\ \A b \in Unhealthy(i) : Score(i, b) \in Int /\ b \in Int
      /\ \A b \in Healthy(i) : Score(i, b) \in Int /\ b \in Int
  BY <1>1, VerdictsDeclared
<1>3. /\ \A a, b \in Unhealthy(i) : <<a, b>> \in Worse(i) <=> WorseThan(i, a, b)
      /\ \A a, b \in Healthy(i) : <<a, b>> \in Better(i) <=> BetterThan(i, a, b)
  BY DEF Worse, Better
<1>4. Ranked(Unhealthy(i), Worse(i))
  BY <1>2, <1>3 DEF Ranked, WorseThan
<1>5. Ranked(Healthy(i), Better(i))
  BY <1>2, <1>3 DEF Ranked, BetterThan
<1> QED
  BY <1>3, <1>4, <1>5

\* A backend can go on exactly while it has room.
LEMMA RoomToGoOn ==
  ASSUME NEW i, IsInput(i), i.step > 0, NEW st, Progress(i, st), NEW b
  PROVE  /\ b \in Unhealthy(i) => (CanGive(i, st.current, st.budget, b) <=> Spent(i, st)[b] < Room(i)[b])
         /\ b \in Healthy(i)   => (CanTake(i, st.current, st.budget, b) <=> Spent(i, st)[b] < Room(i)[b])
<1> SUFFICES ASSUME b \in Unhealthy(i) \/ b \in Healthy(i)
             PROVE  /\ b \in Unhealthy(i) => (CanGive(i, st.current, st.budget, b) <=> Spent(i, st)[b] < Room(i)[b])
                    /\ b \in Healthy(i)   => (CanTake(i, st.current, st.budget, b) <=> Spent(i, st)[b] < Room(i)[b])
  OBVIOUS
<1>1. b \in Backends(i) /\ ~(b \in Unhealthy(i) /\ b \in Healthy(i))
  BY VerdictsDeclared, VerdictsDisjoint
<1>2. PICK s, c, g, n, lo, hi, p :
        /\ s = StartWeight(i, b) /\ c = st.current[b] /\ g = st.budget[b] /\ n = i.step
        /\ lo = i.bounds[b].min /\ hi = i.bounds[b].max /\ p = Spent(i, st)[b]
  OBVIOUS
<1>3. /\ s \in Int /\ c \in Int /\ g \in Int /\ n \in Int /\ n > 0 /\ lo \in Int /\ hi \in Int
      /\ p = n - g /\ Room(i)[b] = Capacity(i, b)
  BY <1>1, <1>2, InputTypes DEF Progress, Spent, Room
<1>4. p \in Nat
  BY <1>1, <1>2 DEF Progress, Side
<1>5. CASE b \in Unhealthy(i)
  <2>1. c = s - p
    BY <1>1, <1>2, <1>5 DEF Progress
  <2>2. Capacity(i, b) = AtLeastZero(Least(n, s - lo))
    BY <1>2, <1>5 DEF Capacity
  <2>3. (g > 0 /\ c > lo) <=> p < AtLeastZero(Least(n, s - lo))
    BY <1>3, <1>4, <2>1 DEF AtLeastZero, Least
  <2> QED
    BY <1>1, <1>2, <1>3, <1>5, <2>2, <2>3 DEF CanGive
<1>6. CASE b \in Healthy(i)
  <2>1. c = s + p
    BY <1>1, <1>2, <1>6 DEF Progress
  <2>2. Capacity(i, b) = AtLeastZero(Least(n, hi - s))
    BY <1>1, <1>2, <1>6 DEF Capacity
  <2>3. (g > 0 /\ c < hi) <=> p < AtLeastZero(Least(n, hi - s))
    BY <1>3, <1>4, <2>1 DEF AtLeastZero, Least
  <2> QED
    BY <1>1, <1>2, <1>3, <1>6, <2>2, <2>3 DEF CanTake
<1> QED
  BY <1>5, <1>6

\* Before the first iteration nothing is spent.
LEMMA ProgressStarts ==
  ASSUME NEW i, IsInput(i)
  PROVE  Progress(i, LoopStart(i))
<1> DEFINE st == LoopStart(i)
<1>1. /\ st.current = [b \in Backends(i) |-> StartWeight(i, b)]
      /\ st.budget = [b \in Backends(i) |-> i.step] /\ st.shifted = 0
  BY DEF LoopStart
<1> HIDE DEF st
<1>2. \A b \in Backends(i) : StartWeight(i, b) \in Int /\ i.step \in Int /\ Capacity(i, b) \in Nat
  BY InputTypes, CapacityTypes
<1>3. PICK spent : spent = Spent(i, st)
  OBVIOUS
<1>4. \A b \in Backends(i) : spent[b] = 0 /\ Room(i)[b] = Capacity(i, b)
  BY <1>1, <1>2, <1>3 DEF Spent, Room
<1>5. ASSUME NEW S, S \subseteq Backends(i), NEW ahead
      PROVE  Side(S, ahead, spent, Room(i), 0)
  <2>1. IsFiniteSet(S)
    BY <1>5, InputFinite, FS_Subset
  <2>2. SumFunctionOnSet(spent, S) = 0 * Cardinality(S) /\ Cardinality(S) \in Nat
    BY <1>4, <1>5, <2>1, SumConstant, FS_CardinalityType
  <2>3. SumFunctionOnSet(spent, S) = 0
    BY <2>2
  <2> QED
    BY <1>2, <1>4, <1>5, <2>3 DEF Side
<1>6. Side(Unhealthy(i), Worse(i), spent, Room(i), 0) /\ Side(Healthy(i), Better(i), spent, Room(i), 0)
  BY <1>5, VerdictsDeclared
<1>7. /\ st.current \in [Backends(i) -> Int] /\ st.budget \in [Backends(i) -> Int]
      /\ \A b \in Backends(i) : st.current[b] = StartWeight(i, b)
  BY <1>1, <1>2
<1>8. \A b \in Backends(i) : StartWeight(i, b) - spent[b] = StartWeight(i, b)
                             /\ StartWeight(i, b) + spent[b] = StartWeight(i, b)
  BY <1>2, <1>4
<1> QED
  BY <1>1, <1>3, <1>6, <1>7, <1>8 DEF Progress, st

\* An iteration spends a point on either side.
LEMMA ProgressKept ==
  ASSUME NEW i, IsInput(i), i.step > 0, NEW st, Progress(i, st), NEW d, NEW r,
         PickDonor(i, st.current, st.budget, d), PickRecipient(i, st.current, st.budget, r)
  PROVE  Progress(i, Moving(st, d, r))
<1> DEFINE B == Backends(i)
<1>1. PICK next : next = Moving(st, d, r)
  OBVIOUS
<1>2. PICK old, new, room : old = Spent(i, st) /\ new = Spent(i, next) /\ room = Room(i)
  OBVIOUS
<1>3. /\ d \in B /\ r \in B /\ d # r /\ d \in Unhealthy(i) /\ r \in Healthy(i)
      /\ d \notin Healthy(i) /\ r \notin Unhealthy(i)
      /\ CanGive(i, st.current, st.budget, d) /\ CanTake(i, st.current, st.budget, r)
  BY VerdictsDeclared, VerdictsDisjoint DEF PickDonor, PickRecipient
<1>4. /\ st.current \in [B -> Int] /\ st.budget \in [B -> Int] /\ st.shifted \in Nat
      /\ \A b \in B : StartWeight(i, b) \in Int /\ i.step \in Int
  BY InputTypes DEF Progress
<1>5. /\ next.current = PointMoved(st.current, d, r) /\ next.budget = PointsSpent(st.budget, d, r)
      /\ next.shifted = st.shifted + 1
  BY <1>1 DEF Moving
<1> HIDE DEF B
<1>6. /\ next.current \in [B -> Int]
      /\ next.current[d] = st.current[d] - 1 /\ next.current[r] = st.current[r] + 1
      /\ \A b \in B \ {d, r} : next.current[b] = st.current[b]
  <2>1. PICK w, v : w = st.current /\ v = next.current
    OBVIOUS
  <2>2. w \in [B -> Int] /\ v = [w EXCEPT ![d] = @ - 1, ![r] = @ + 1]
    BY <1>4, <1>5, <2>1 DEF PointMoved
  <2>3. v \in [B -> Int] /\ v[d] = w[d] - 1 /\ v[r] = w[r] + 1 /\ \A b \in B \ {d, r} : v[b] = w[b]
    BY <1>3, <2>2
  <2> QED
    BY <2>1, <2>3
<1>7. /\ next.budget \in [B -> Int]
      /\ next.budget[d] = st.budget[d] - 1 /\ next.budget[r] = st.budget[r] - 1
      /\ \A b \in B \ {d, r} : next.budget[b] = st.budget[b]
  <2>1. PICK w, v : w = st.budget /\ v = next.budget
    OBVIOUS
  <2>2. w \in [B -> Int] /\ v = [w EXCEPT ![d] = @ - 1, ![r] = @ - 1]
    BY <1>4, <1>5, <2>1 DEF PointsSpent
  <2>3. v \in [B -> Int] /\ v[d] = w[d] - 1 /\ v[r] = w[r] - 1 /\ \A b \in B \ {d, r} : v[b] = w[b]
    BY <1>3, <2>2
  <2> QED
    BY <2>1, <2>3
<1>8. /\ \A b \in B : old[b] = i.step - st.budget[b] /\ new[b] = i.step - next.budget[b]
      /\ new[d] = old[d] + 1 /\ new[r] = old[r] + 1
      /\ \A b \in B \ {d, r} : new[b] = old[b]
  <2>1. \A b \in B : old[b] = i.step - st.budget[b] /\ new[b] = i.step - next.budget[b]
    BY <1>2 DEF Spent, B
  <2>2. \A b \in B : st.budget[b] \in Int /\ next.budget[b] \in Int /\ i.step \in Int
    BY <1>4, <1>7
  <2>3. new[d] = old[d] + 1
    BY <1>3, <1>7, <2>1, <2>2
  <2>4. new[r] = old[r] + 1
    BY <1>3, <1>7, <2>1, <2>2
  <2> QED
    BY <1>3, <1>7, <2>1, <2>3, <2>4
<1>9. \A b \in B :
        next.current[b] = IF b \in Unhealthy(i) THEN StartWeight(i, b) - new[b]
                          ELSE IF b \in Healthy(i) THEN StartWeight(i, b) + new[b]
                          ELSE StartWeight(i, b)
  <2> SUFFICES ASSUME NEW b \in B
               PROVE  next.current[b] = IF b \in Unhealthy(i) THEN StartWeight(i, b) - new[b]
                                        ELSE IF b \in Healthy(i) THEN StartWeight(i, b) + new[b]
                                        ELSE StartWeight(i, b)
    OBVIOUS
  <2>1. /\ st.current[b] = IF b \in Unhealthy(i) THEN StartWeight(i, b) - old[b]
                           ELSE IF b \in Healthy(i) THEN StartWeight(i, b) + old[b]
                           ELSE StartWeight(i, b)
        /\ StartWeight(i, b) \in Int /\ old[b] \in Int
    BY <1>2, <1>4, <1>8 DEF Progress, B
  <2>2. CASE b = d
    BY <1>3, <1>6, <1>8, <2>1, <2>2
  <2>3. CASE b = r
    BY <1>3, <1>6, <1>8, <2>1, <2>3
  <2>4. CASE b # d /\ b # r
    BY <1>6, <1>8, <2>1, <2>4
  <2> QED
    BY <2>2, <2>3, <2>4
<1>10. Side(Unhealthy(i), Worse(i), new, room, st.shifted + 1)
  <2>1. PICK S, ahead, n : S = Unhealthy(i) /\ ahead = Worse(i) /\ n = st.shifted
    OBVIOUS
  <2>2. /\ IsFiniteSet(S) /\ Ranked(S, ahead) /\ S \subseteq B
        /\ Side(S, ahead, old, room, n) /\ d \in S /\ r \notin S
    BY <1>2, <1>3, <2>1, InputFinite, SidesRanked, VerdictsDeclared DEF Progress, B
  <2>3. old[d] < room[d]
    BY <1>2, <1>3, RoomToGoOn
  <2>4. ASSUME NEW e \in S \ {d}, old[e] < room[e] PROVE <<d, e>> \in ahead
    <3>1. CanGive(i, st.current, st.budget, e)
      BY <1>2, <2>1, <2>4, RoomToGoOn
    <3>2. WorseThan(i, d, e)
      BY <2>1, <3>1 DEF PickDonor
    <3> QED
      BY <1>3, <2>1, <3>2, SidesRanked
  <2>5. new[d] = old[d] + 1 /\ \A e \in S \ {d} : new[e] = old[e]
    BY <1>8, <2>2
  <2>6. Side(S, ahead, new, room, n + 1)
    BY ONLY <2>2, <2>3, <2>4, <2>5, PointSpent
  <2> QED
    BY <2>1, <2>6
<1>11. Side(Healthy(i), Better(i), new, room, st.shifted + 1)
  <2>1. PICK S, ahead, n : S = Healthy(i) /\ ahead = Better(i) /\ n = st.shifted
    OBVIOUS
  <2>2. /\ IsFiniteSet(S) /\ Ranked(S, ahead) /\ S \subseteq B
        /\ Side(S, ahead, old, room, n) /\ r \in S /\ d \notin S
    BY <1>2, <1>3, <2>1, InputFinite, SidesRanked, VerdictsDeclared DEF Progress, B
  <2>3. old[r] < room[r]
    BY <1>2, <1>3, RoomToGoOn
  <2>4. ASSUME NEW e \in S \ {r}, old[e] < room[e] PROVE <<r, e>> \in ahead
    <3>1. CanTake(i, st.current, st.budget, e)
      BY <1>2, <2>1, <2>4, RoomToGoOn
    <3>2. BetterThan(i, r, e)
      BY <2>1, <3>1 DEF PickRecipient
    <3> QED
      BY <1>3, <2>1, <3>2, SidesRanked
  <2>5. new[r] = old[r] + 1 /\ \A e \in S \ {r} : new[e] = old[e]
    BY <1>8, <2>2
  <2>6. Side(S, ahead, new, room, n + 1)
    BY ONLY <2>2, <2>3, <2>4, <2>5, PointSpent
  <2> QED
    BY <2>1, <2>6
<1>12. next.shifted \in Nat
  BY <1>4, <1>5
<1> QED
  BY <1>1, <1>2, <1>5, <1>6, <1>7, <1>9, <1>10, <1>11, <1>12 DEF Progress, B

\* There are no more iterations than LoopBound.
LEMMA ProgressBounded ==
  ASSUME NEW i, IsInput(i), NEW st, Progress(i, st)
  PROVE  st.shifted <= LoopBound(i) \/ i.step <= 0
<1> SUFFICES ASSUME ~(i.step <= 0) PROVE st.shifted <= LoopBound(i)
  OBVIOUS
<1>1. PICK spent : spent = Spent(i, st)
  OBVIOUS
<1>2. ASSUME NEW b \in Unhealthy(i)
      PROVE  spent[b] \in Int /\ spent[b] <= i.step
  <2>1. b \in Backends(i)
    BY VerdictsDeclared
  <2>2. spent[b] \in Nat /\ spent[b] <= Capacity(i, b) /\ Capacity(i, b) \in Nat
    BY <1>1, <2>1, CapacityTypes DEF Progress, Side, Room
  <2>3. i.step \in Int /\ StartWeight(i, b) \in Int /\ i.bounds[b].min \in Int
    BY <2>1, InputTypes
  <2>4. PICK n, room : n = i.step /\ room = StartWeight(i, b) - i.bounds[b].min
    OBVIOUS
  <2>5. Capacity(i, b) = AtLeastZero(Least(n, room)) /\ n \in Int /\ n > 0 /\ room \in Int
    BY <2>3, <2>4 DEF Capacity
  <2>6. AtLeastZero(Least(n, room)) <= n
    BY <2>5 DEF AtLeastZero, Least
  <2> QED
    BY <2>2, <2>3, <2>4, <2>5, <2>6
<1>3. SumFunctionOnSet(spent, Unhealthy(i)) <= LoopBound(i)
  BY <1>2, SpentWithinBound
<1> QED
  BY <1>1, <1>3 DEF Progress, Side

\* An iteration is due to be made exactly until one side is exhausted.
LEMMA PicksExist ==
  ASSUME NEW i, IsInput(i), NEW cur, NEW bud, ~Exhausted(i, cur, bud)
  PROVE  \E d, r : PickDonor(i, cur, bud, d) /\ PickRecipient(i, cur, bud, r)
<1>1. IsFiniteSet(Unhealthy(i)) /\ IsFiniteSet(Healthy(i))
  BY InputFinite
<1>2. \E d : PickDonor(i, cur, bud, d)
  <2> DEFINE C == {b \in Unhealthy(i) : CanGive(i, cur, bud, b)}
  <2>1. C # {} /\ C \subseteq Unhealthy(i)
    BY DEF Exhausted
  <2> HIDE DEF C
  <2>2. PICK d \in C : \A e \in C \ {d} : <<d, e>> \in Worse(i)
    BY <1>1, <2>1, FirstExists, SidesRanked
  <2>3. \A e \in C \ {d} : WorseThan(i, d, e)
    BY <2>1, <2>2, SidesRanked
  <2> QED
    BY <2>2, <2>3 DEF C, PickDonor
<1>3. \E r : PickRecipient(i, cur, bud, r)
  <2> DEFINE C == {b \in Healthy(i) : CanTake(i, cur, bud, b)}
  <2>1. C # {} /\ C \subseteq Healthy(i)
    BY DEF Exhausted
  <2> HIDE DEF C
  <2>2. PICK r \in C : \A e \in C \ {r} : <<r, e>> \in Better(i)
    BY <1>1, <2>1, FirstExists, SidesRanked
  <2>3. \A e \in C \ {r} : BetterThan(i, r, e)
    BY <2>1, <2>2, SidesRanked
  <2> QED
    BY <2>2, <2>3 DEF C, PickRecipient
<1> QED
  BY <1>2, <1>3

\* However long it runs, the loop has made as many iterations as it was run for, or has
\* exhausted a side: so at its end it has.
LEMMA LoopProgress ==
  ASSUME NEW i, IsInput(i), ~Holds(i)
  PROVE  Progress(i, LoopEnd(i)) /\ Exhausted(i, LoopEnd(i).current, LoopEnd(i).budget)
<1> DEFINE N == LoopBound(i)
           Good(k, st) == /\ Progress(i, st)
                          /\ st.shifted = k \/ Exhausted(i, st.current, st.budget)
<1>1. N \in Nat /\ i.step > 0 /\ i.step \in Int
  BY InputFinite
<1>2. PICK run : Run(i, N, run) /\ LoopEnd(i) = run[N]
  BY <1>1, LoopRuns
<1>3. ASSUME NEW st, Progress(i, st), ~Exhausted(i, st.current, st.budget)
      PROVE  Progress(i, LoopBody(i, st)) /\ LoopBody(i, st).shifted = st.shifted + 1
  <2>1. PICK d, r : PickDonor(i, st.current, st.budget, d) /\ PickRecipient(i, st.current, st.budget, r)
    BY <1>3, PicksExist
  <2>2. LoopBody(i, st) = Moving(st, d, r)
    BY <2>1, BodyIsShift
  <2>3. Progress(i, Moving(st, d, r))
    BY <1>1, <1>3, <2>1, ProgressKept
  <2> QED
    BY <2>2, <2>3 DEF Moving
<1>4. \A k \in 0..N : run[k] = IF k = 0 THEN LoopStart(i) ELSE LoopBody(i, run[k - 1])
  BY <1>2 DEF Run
<1> HIDE DEF N
<1>5. Good(N, run[N])
  <2> DEFINE T == {k \in 0..N : ~Good(k, run[k])}
  <2> SUFFICES ASSUME T # {} PROVE FALSE
    BY <1>1
  <2>1. PICK m \in T : \A k \in T : m <= k
    <3>1. T \subseteq Nat
      BY <1>1
    <3> HIDE DEF T
    <3> QED
      BY <3>1, MinimalNumber
  <2>2. m \in 0..N /\ ~Good(m, run[m])
    OBVIOUS
  <2>3. CASE m = 0
    <3>1. run[m] = LoopStart(i)
      BY <1>4, <2>2, <2>3
    <3>2. Progress(i, run[m]) /\ run[m].shifted = 0
      BY <3>1, ProgressStarts DEF LoopStart
    <3> QED
      BY <2>2, <2>3, <3>2
  <2>4. CASE m # 0
    <3>1. m - 1 \in 0..N /\ m - 1 < m
      BY <1>1, <2>2, <2>4
    <3>2. m - 1 \notin T
      BY <1>1, <2>1, <2>2, <3>1
    <3>3. Good(m - 1, run[m - 1])
      BY <3>1, <3>2
    <3>4. run[m] = LoopBody(i, run[m - 1])
      BY <1>4, <2>2, <2>4
    <3>5. CASE Exhausted(i, run[m - 1].current, run[m - 1].budget)
      <4>1. run[m] = run[m - 1]
        BY <3>4, <3>5, BodyIsIdle
      <4> QED
        BY <2>2, <3>3, <3>5, <4>1
    <3>6. CASE ~Exhausted(i, run[m - 1].current, run[m - 1].budget)
      <4>1. Progress(i, run[m]) /\ run[m].shifted = run[m - 1].shifted + 1
        BY <1>3, <3>3, <3>4, <3>6
      <4>2. run[m - 1].shifted = m - 1
        BY <3>3, <3>6
      <4>3. run[m].shifted = m
        BY <1>1, <2>2, <4>1, <4>2
      <4> QED
        BY <2>2, <4>1, <4>3
    <3> QED
      BY <3>5, <3>6
  <2> QED
    BY <2>3, <2>4
<1>6. ASSUME ~Exhausted(i, run[N].current, run[N].budget) PROVE FALSE
  <2>1. Progress(i, run[N]) /\ run[N].shifted = N
    BY <1>5, <1>6
  <2>2. Progress(i, LoopBody(i, run[N])) /\ LoopBody(i, run[N]).shifted = N + 1
    BY <1>3, <1>6, <2>1
  <2>3. N + 1 <= N
    BY <1>1, <2>2, ProgressBounded DEF N
  <2> QED
    BY <1>1, <2>3
<1> QED
  BY <1>2, <1>5, <1>6

\* With a side exhausted, the points moved are what the tighter side could move, and the
\* weights are the greedy ones.
LEMMA ExhaustedIsGreedy ==
  ASSUME NEW i, IsInput(i), i.step > 0, NEW st, Progress(i, st), Exhausted(i, st.current, st.budget)
  PROVE  st.shifted = Moved(i) /\ st.current = GreedyWeights(i)
<1>1. PICK spent, room, U, H, n :
        spent = Spent(i, st) /\ room = Room(i) /\ U = Unhealthy(i) /\ H = Healthy(i) /\ n = st.shifted
  OBVIOUS
<1>2. PICK worse, better : worse = Worse(i) /\ better = Better(i)
  OBVIOUS
<1>3. /\ IsFiniteSet(U) /\ IsFiniteSet(H) /\ U \subseteq Backends(i) /\ H \subseteq Backends(i)
      /\ Ranked(U, worse) /\ Ranked(H, better)
      /\ Side(U, worse, spent, room, n) /\ Side(H, better, spent, room, n)
  BY <1>1, <1>2, InputFinite, SidesRanked, VerdictsDeclared DEF Progress
<1>4. \A b \in Backends(i) : room[b] = Capacity(i, b)
  BY <1>1 DEF Room
<1>5. ASSUME NEW S, S \subseteq Backends(i), IsFiniteSet(S)
      PROVE  Capacities(i, S) = SumFunctionOnSet(room, S)
  BY <1>4, <1>5, CapacitiesAre
<1>6. n = Moved(i)
  <2>1. /\ n \in Int /\ SumFunctionOnSet(room, U) \in Int /\ n <= SumFunctionOnSet(room, U)
        /\ (\A b \in U : ~(spent[b] < room[b])) => n = SumFunctionOnSet(room, U)
    BY ONLY <1>3, SideTotal
  <2>2. /\ SumFunctionOnSet(room, H) \in Int /\ n <= SumFunctionOnSet(room, H)
        /\ (\A b \in H : ~(spent[b] < room[b])) => n = SumFunctionOnSet(room, H)
    BY ONLY <1>3, SideTotal
  <2>3. \/ \A b \in U : ~(spent[b] < room[b])
        \/ \A b \in H : ~(spent[b] < room[b])
    BY <1>1, RoomToGoOn DEF Exhausted
  <2>4. Moved(i) = Least(SumFunctionOnSet(room, U), SumFunctionOnSet(room, H))
    BY <1>1, <1>3, <1>5 DEF Moved
  <2> QED
    BY <2>1, <2>2, <2>3, <2>4 DEF Least
<1>7. ASSUME NEW b \in U
      PROVE  spent[b] = ServedAfter(i, b, {e \in Unhealthy(i) : WorseThan(i, e, b)})
  <2>1. PICK A : A = {e \in U : <<e, b>> \in worse}
    OBVIOUS
  <2>2. spent[b] = AtLeastZero(Least(room[b], n - SumFunctionOnSet(room, A)))
    BY ONLY <1>3, <1>7, <2>1, SideServed
  <2>3. A = {e \in Unhealthy(i) : WorseThan(i, e, b)}
    BY <1>1, <1>2, <1>7, <2>1, SidesRanked
  <2>4. Capacities(i, A) = SumFunctionOnSet(room, A)
    BY <1>3, <1>5, <2>1, FS_Subset
  <2> QED
    BY <1>3, <1>4, <1>6, <1>7, <2>2, <2>3, <2>4 DEF ServedAfter
<1>8. ASSUME NEW b \in H
      PROVE  spent[b] = ServedAfter(i, b, {e \in Healthy(i) : BetterThan(i, e, b)})
  <2>1. PICK A : A = {e \in H : <<e, b>> \in better}
    OBVIOUS
  <2>2. spent[b] = AtLeastZero(Least(room[b], n - SumFunctionOnSet(room, A)))
    BY ONLY <1>3, <1>8, <2>1, SideServed
  <2>3. A = {e \in Healthy(i) : BetterThan(i, e, b)}
    BY <1>1, <1>2, <1>8, <2>1, SidesRanked
  <2>4. Capacities(i, A) = SumFunctionOnSet(room, A)
    BY <1>3, <1>5, <2>1, FS_Subset
  <2> QED
    BY <1>3, <1>4, <1>6, <1>8, <2>2, <2>3, <2>4 DEF ServedAfter
<1>9. \A b \in Backends(i) : st.current[b] = GreedyWeights(i)[b]
  BY <1>1, <1>7, <1>8, VerdictsDisjoint DEF Progress, GreedyWeights
<1>10. DOMAIN GreedyWeights(i) = Backends(i)
       /\ GreedyWeights(i) = [b \in Backends(i) |-> GreedyWeights(i)[b]]
  BY DEF GreedyWeights
<1>11. st.current \in [Backends(i) -> Int]
  BY DEF Progress
<1> QED
  BY <1>1, <1>6, <1>9, <1>10, <1>11

\* What a call of Evaluate returns, in closed form and for every input: nothing changes if it
\* returns early or if no point can be moved; otherwise the weights are the greedy allocation.
\* In particular the loop comes to its break within LoopBound iterations, so the bounded run
\* the model looks up is the whole of it.
THEOREM EvaluateIsGreedy ==
  ASSUME NEW i, IsInput(i)
  PROVE  Evaluate(i) = IF Holds(i) \/ Moved(i) = 0 THEN [weights |-> i.current, changed |-> FALSE]
                       ELSE [weights |-> GreedyWeights(i), changed |-> TRUE]
<1>1. CASE Holds(i)
  BY <1>1 DEF Evaluate
<1>2. CASE ~Holds(i)
  <2>1. i.step > 0
    BY <1>2, InputFinite
  <2>2. LoopEnd(i).shifted = Moved(i) /\ LoopEnd(i).current = GreedyWeights(i)
    BY <1>2, <2>1, LoopProgress, ExhaustedIsGreedy
  <2> QED
    BY <1>2, <2>2 DEF Evaluate
<1> QED
  BY <1>1, <1>2
=============================================================================
