---------------------- MODULE InitialAllocationProofs ----------------------
(***************************************************************************)
(* What the initial allocation guarantees for every list of backends.      *)
(***************************************************************************)
EXTENDS InitialAllocation, WeightTheorems

\* The positions that have been given a point.
Served == DOMAIN backends \ shares

\* Each backend has its minimum and its whole share, and the served ones a point more;
\* points given and points left are those the rounding took; whoever is served had a
\* fraction, and nobody still waiting comes before.
Accounted ==
  /\ Served \subseteq Rounded(backends)
  /\ \A i \in DOMAIN backends :
       weights[i] = backends[i].min + Whole(backends, i) + IF i \in Served THEN 1 ELSE 0
  /\ leftover + Cardinality(Served) = Leftover(backends)
  /\ \A i \in Served, j \in shares : ~Before(backends, j, i)

IInv ==
  /\ TypeOK
  /\ pc # "validate" /\ pc # "rejected" => ValidSpec(backends)
  /\ pc = "leftover" => ~MinimumsOnly(backends)
  /\ pc \in {"validate", "allocate"} \/ (pc = "done" /\ MinimumsOnly(backends)) =>
       \A i \in DOMAIN backends : weights[i] = backends[i].min
  /\ pc \in {"leftover", "done"} /\ ~MinimumsOnly(backends) => Accounted
  /\ pc = "done" /\ ~MinimumsOnly(backends) => leftover = 0

\* As long as a point is left there is somebody waiting who has a fraction.
LEMMA SomebodyWaits ==
  ASSUME TypeOK, ValidSpec(backends), ~MinimumsOnly(backends), Accounted, leftover # 0
  PROVE  \E r \in shares : r \in Rounded(backends)
<1>1. IsBackends(backends) /\ leftover \in Nat /\ shares \subseteq DOMAIN backends
  BY SpecsAreTyped DEF TypeOK
<1>2. Leftover(backends) <= Cardinality(Rounded(backends)) /\ IsFiniteSet(Rounded(backends))
      /\ Leftover(backends) \in Nat
  BY <1>1, LeftoverFits
<1>3. Served \subseteq Rounded(backends) /\ leftover + Cardinality(Served) = Leftover(backends)
  BY DEF Accounted
<1>4. Served # Rounded(backends)
  BY <1>1, <1>2, <1>3, FS_CardinalityType
<1>5. PICK r \in Rounded(backends) : r \notin Served
  BY <1>3, <1>4
<1> QED
  BY <1>5 DEF Served, Rounded

\* It holds initially.
LEMMA InitIInv == Init => IInv
<1> SUFFICES ASSUME Init PROVE IInv
  OBVIOUS
<1>1. IsBackends(backends)
  BY SpecsAreTyped DEF Init
<1>2. \A i \in DOMAIN backends : backends[i].min \in Nat
  BY <1>1, ListTypes
<1>3. weights \in [DOMAIN backends -> Nat]
  BY <1>2 DEF Init
<1> QED
  BY <1>3 DEF Init, IInv, TypeOK

\* An iteration with points left serves a backend that has a fraction and room.
LEMMA ServeEffect ==
  ASSUME IInv, NEW i \in shares, Serve(i)
  PROVE  /\ i \in Rounded(backends) /\ i \in DOMAIN backends /\ i \notin Served
         /\ weights' = [weights EXCEPT ![i] = @ + 1] /\ leftover' = leftover - 1
         /\ leftover \in Nat \ {0} /\ leftover' \in Nat
         /\ shares' = shares \ {i} /\ Served' = Served \cup {i}
         /\ backends' = backends /\ pc' = pc /\ pc = "leftover"
<1>1. /\ IsBackends(backends) /\ i \in DOMAIN backends /\ backends' = backends
      /\ TypeOK /\ ValidSpec(backends) /\ ~MinimumsOnly(backends) /\ Accounted /\ leftover # 0
      /\ pc = "leftover" /\ pc' = pc
  BY SpecsAreTyped DEF IInv, TypeOK, Serve
<1>2. PICK r \in shares : r \in Rounded(backends)
  BY <1>1, SomebodyWaits
<1>3. r \in DOMAIN backends /\ ~Before(backends, r, i)
  BY <1>1, <1>2 DEF Serve, TypeOK
<1>4. /\ Frac(backends, r) \in Int /\ Frac(backends, i) \in Int /\ Frac(backends, r) > 0
      /\ ~(Frac(backends, r) > Frac(backends, i))
  <2>1. \A j \in DOMAIN backends : Frac(backends, j) \in 0..(TotalHead(backends) - 1)
    BY <1>1, SharesFit
  <2>2. TotalHead(backends) \in Int
    BY <1>1, SumTypes
  <2>3. \A j \in DOMAIN backends : Frac(backends, j) \in Int
    BY <2>1, <2>2
  <2> QED
    BY <1>1, <1>2, <1>3, <2>3 DEF Rounded, Before
<1>5. i \in Rounded(backends)
  BY <1>1, <1>4 DEF Rounded
<1>6. weights[i] = backends[i].min + Whole(backends, i)
  <2>1. i \notin Served
    BY DEF Served
  <2>2. backends[i].min \in Int /\ Whole(backends, i) \in Int
    BY <1>1, ListTypes, SharesFit
  <2> QED
    BY <1>1, <2>1, <2>2 DEF Accounted
<1>7. weights[i] < backends[i].max
  BY <1>1, <1>5, <1>6, LeftoverFits DEF Roomy
<1>8. weights' = [weights EXCEPT ![i] = @ + 1] /\ leftover' = leftover - 1 /\ shares' = shares \ {i}
  BY <1>7 DEF Serve
<1>9. leftover \in Nat \ {0} /\ leftover' \in Nat
  BY <1>1, <1>8 DEF TypeOK
<1> QED
  BY <1>1, <1>5, <1>8, <1>9 DEF Served

\* Every step keeps it.
LEMMA NextIInv == IInv /\ [Next]_vars => IInv'
<1> SUFFICES ASSUME IInv, [Next]_vars PROVE IInv'
  OBVIOUS
<1>0. IsBackends(backends) /\ TypeOK
  BY SpecsAreTyped DEF IInv, TypeOK
<1>1. CASE UNCHANGED vars
  BY <1>1 DEF vars, IInv, TypeOK, Accounted, Served
<1>2. CASE Validate
  BY <1>2 DEF Validate, IInv, TypeOK
<1>3. CASE KeepMinimums
  BY <1>3 DEF KeepMinimums, IInv, TypeOK
<1>4. CASE AssignWhole
  <2>1. /\ backends' = backends /\ shares' = DOMAIN backends /\ leftover' = Leftover(backends)
        /\ weights' = [i \in DOMAIN backends |-> weights[i] + Whole(backends, i)]
        /\ pc' = (IF leftover' = 0 THEN "done" ELSE "leftover")
        /\ ~MinimumsOnly(backends) /\ ValidSpec(backends)
        /\ \A i \in DOMAIN backends : weights[i] = backends[i].min
    BY <1>4 DEF AssignWhole, IInv
  <2>2. Leftover(backends) \in Nat
        /\ \A i \in DOMAIN backends : Whole(backends, i) \in Nat /\ backends[i].min \in Nat
    BY <1>0, <2>1, LeftoverFits, SharesFit, ListTypes
  <2>3. weights' \in [DOMAIN backends -> Nat]
    BY <2>1, <2>2
  <2>4. TypeOK'
    BY <1>0, <2>1, <2>2, <2>3 DEF TypeOK
  <2>5. Served' = {}
    BY <2>1 DEF Served
  <2>6. Accounted'
    <3>1. \A i \in DOMAIN backends : weights'[i] = backends[i].min + Whole(backends, i) + 0
      BY <2>1, <2>2
    <3>2. leftover' + Cardinality(Served') = Leftover(backends)
      BY <2>1, <2>2, <2>5, FS_EmptySet
    <3> QED
      BY <2>1, <2>5, <3>1, <3>2 DEF Accounted
  <2> QED
    BY <2>1, <2>4, <2>6 DEF IInv
<1>5. CASE Return
  <2>1. /\ UNCHANGED <<backends, weights, leftover, shares>> /\ pc = "leftover" /\ pc' = "done"
        /\ leftover = 0 \/ shares = {}
        /\ ~MinimumsOnly(backends) /\ ValidSpec(backends) /\ Accounted
    BY <1>5 DEF Return, IInv
  <2>2. leftover = 0
    BY <1>0, <2>1, SomebodyWaits
  <2>3. TypeOK' /\ Accounted'
    BY <1>0, <2>1 DEF TypeOK, Accounted, Served
  <2> QED
    BY <2>1, <2>2, <2>3 DEF IInv
<1>6. ASSUME NEW i \in shares, Serve(i) PROVE IInv'
  <2>1. /\ i \in Rounded(backends) /\ i \in DOMAIN backends /\ i \notin Served
        /\ weights' = [weights EXCEPT ![i] = @ + 1] /\ leftover' = leftover - 1
        /\ leftover \in Nat \ {0} /\ leftover' \in Nat
        /\ shares' = shares \ {i} /\ Served' = Served \cup {i}
        /\ backends' = backends /\ pc' = pc /\ pc = "leftover"
    BY <1>6, ServeEffect
  <2>2. ValidSpec(backends) /\ ~MinimumsOnly(backends) /\ Accounted
    BY <2>1 DEF IInv
  <2>3. weights' \in [DOMAIN backends -> Nat]
    BY <1>0, <2>1 DEF TypeOK
  <2>4. TypeOK'
    BY <1>0, <2>1, <2>3 DEF TypeOK
  <2>5. leftover' + Cardinality(Served') = Leftover(backends)
    <3>1. IsFiniteSet(Served)
      BY <1>0, ListTypes, FS_Subset DEF Served
    <3>2. Cardinality(Served') = Cardinality(Served) + 1 /\ Cardinality(Served) \in Nat
      BY <2>1, <3>1, FS_AddElement, FS_CardinalityType
    <3> QED
      BY <2>1, <2>2, <3>2 DEF Accounted
  <2>6. \A j \in DOMAIN backends :
          weights'[j] = backends[j].min + Whole(backends, j) + IF j \in Served' THEN 1 ELSE 0
    <3>1. \A j \in DOMAIN backends : backends[j].min \in Int /\ Whole(backends, j) \in Int
      BY <1>0, <2>2, ListTypes, SharesFit
    <3>2. \A j \in DOMAIN backends :
            weights[j] = backends[j].min + Whole(backends, j) + IF j \in Served THEN 1 ELSE 0
      BY <2>2 DEF Accounted
    <3>3. \A j \in DOMAIN backends : weights'[j] = IF j = i THEN weights[j] + 1 ELSE weights[j]
      BY <1>0, <2>1 DEF TypeOK
    <3> QED
      BY <2>1, <3>1, <3>2, <3>3
  <2>7. \A j \in Served', k \in shares' : ~Before(backends, k, j)
    BY <1>6, <2>1, <2>2 DEF Accounted, Serve
  <2>8. Accounted'
    BY <2>1, <2>2, <2>5, <2>6, <2>7 DEF Accounted
  <2> QED
    BY <2>1, <2>2, <2>4, <2>8 DEF IInv
<1> QED
  BY <1>1, <1>2, <1>3, <1>4, <1>5, <1>6 DEF Next

\* So it holds in every state the program reaches.
LEMMA Invariance == Spec => []IInv
  BY InitIInv, NextIInv, PTL DEF Spec

----------------------------------------------------------------------------
(* Theorems                                                                *)

\* Every variable keeps its type: the points still to hand out never go negative.
THEOREM TypeCorrect == Spec => []TypeOK
<1>1. IInv => TypeOK
  BY DEF IInv
<1> QED
  BY Invariance, <1>1, PTL

\* The rounding loop never stops short of 100 and never goes past it.
THEOREM WholeGiven == Spec => []SumsToFull
<1>1. IInv => SumsToFull
  <2> SUFFICES ASSUME IInv, pc = "done" PROVE SumFunction(weights) = Full
    BY DEF SumsToFull
  <2>1. IsBackends(backends) /\ ValidSpec(backends) /\ DOMAIN weights = DOMAIN backends
    BY SpecsAreTyped DEF IInv, TypeOK
  <2>2. CASE MinimumsOnly(backends)
    <3> DEFINE mins == [i \in DOMAIN backends |-> backends[i].min]
    <3>1. IsFiniteSet(DOMAIN backends) /\ \A i \in DOMAIN backends : weights[i] = mins[i]
      BY <2>1, <2>2, ListTypes DEF IInv
    <3>2. MinSum(backends) = SumFunctionOnSet(mins, DOMAIN backends) /\ MinSum(backends) = Full
      BY <2>1, <2>2, MinimumsAreAll DEF MinSum, SumFunction
    <3> HIDE DEF mins
    <3>3. SumFunctionOnSet(weights, DOMAIN backends) = SumFunctionOnSet(mins, DOMAIN backends)
      BY <3>1, SumSame
    <3> QED
      BY <2>1, <3>2, <3>3 DEF SumFunction
  <2>3. CASE ~MinimumsOnly(backends)
    <3>1. Accounted /\ leftover = 0
      BY <2>3 DEF IInv
    <3>2. Served \in SUBSET DOMAIN backends /\ Cardinality(Served) = Leftover(backends)
      <4>1. IsFiniteSet(Served)
        BY <2>1, ListTypes, FS_Subset DEF Served
      <4> QED
        BY <3>1, <4>1, FS_CardinalityType DEF Accounted, Served
    <3>3. SumFunctionOnSet(weights, DOMAIN backends) = (Full - Leftover(backends)) + Cardinality(Served)
      BY <2>1, <2>3, <3>1, <3>2, GivenSum DEF Accounted
    <3>4. Leftover(backends) \in Nat
      BY <2>1, <2>3, LeftoverFits
    <3> QED
      BY <2>1, <3>2, <3>3, <3>4 DEF SumFunction, Full
  <2> QED
    BY <2>2, <2>3
<1> QED
  BY Invariance, <1>1, PTL

\* No rounding takes a backend out of its bounds.
THEOREM BoundsKept == Spec => []WithinBounds
<1>1. IInv => WithinBounds
  <2> SUFFICES ASSUME IInv, pc \in {"leftover", "done"}, NEW i \in DOMAIN backends
               PROVE  backends[i].min <= weights[i] /\ weights[i] <= backends[i].max
    BY DEF WithinBounds
  <2>1. IsBackends(backends) /\ ValidSpec(backends)
    BY SpecsAreTyped DEF IInv, TypeOK
  <2>2. backends[i].min \in Nat /\ backends[i].max \in Nat /\ backends[i].min <= backends[i].max
    BY <2>1, ListTypes DEF ValidSpec
  <2>3. CASE MinimumsOnly(backends)
    BY <2>2, <2>3 DEF IInv
  <2>4. CASE ~MinimumsOnly(backends)
    <3>1. Accounted
      BY <2>4 DEF IInv
    <3>2. Whole(backends, i) \in Nat /\ backends[i].min + Whole(backends, i) <= backends[i].max
      BY <2>1, <2>4, SharesFit
    <3>3. i \in Served => backends[i].min + Whole(backends, i) < backends[i].max
      BY <2>1, <2>4, <3>1, LeftoverFits DEF Accounted, Roomy
    <3>4. weights[i] = backends[i].min + Whole(backends, i) + IF i \in Served THEN 1 ELSE 0
      BY <3>1 DEF Accounted
    <3> QED
      BY <2>2, <3>2, <3>3, <3>4
  <2> QED
    BY <2>3, <2>4
<1> QED
  BY Invariance, <1>1, PTL

\* Every backend gets its exact share of the headroom, rounded down or up.
THEOREM SharesProportional == Spec => []Proportional
<1>1. IInv => Proportional
  <2> SUFFICES ASSUME IInv, pc = "done", ~MinimumsOnly(backends), NEW i \in DOMAIN backends
               PROVE  LET given == (weights[i] - backends[i].min) * TotalHead(backends)
                          exact == Remainder(backends) * Headroom(backends, i)
                      IN  given - exact < TotalHead(backends) /\ exact - given < TotalHead(backends)
    BY DEF Proportional
  <2> DEFINE T == TotalHead(backends)
             W == Whole(backends, i)
             F == Frac(backends, i)
             exact == Remainder(backends) * Headroom(backends, i)
             given == (weights[i] - backends[i].min) * T
             one   == IF i \in Served THEN 1 ELSE 0
  <2>1. IsBackends(backends) /\ ValidSpec(backends) /\ Accounted
    BY SpecsAreTyped DEF IInv, TypeOK
  <2>2. T \in Nat \ {0} /\ W \in Nat /\ F \in 0..(T - 1) /\ exact = (T * W) + F /\ backends[i].min \in Nat
    BY <2>1, SharesFit, PointsToShare, ListTypes
  <2>3. weights[i] = backends[i].min + W + one /\ (i \in Served => F > 0)
    BY <2>1 DEF Accounted, Rounded
  <2>4. one \in {0, 1} /\ (one = 1 => F > 0)
    BY <2>3
  <2> HIDE DEF T, W, F, exact, one
  <2>5. weights[i] - backends[i].min = W + one
    BY <2>2, <2>3, <2>4
  <2>6. given = (T * W) + (T * one) /\ T * W \in Int
    <3>1. T * (W + one) = (T * W) + (T * one) /\ T * W \in Int
      BY <2>2, <2>4, MulAdd
    <3>2. (W + one) * T = T * (W + one)
      BY <2>2, <2>4
    <3> QED
      BY <2>5, <3>1, <3>2
  <2>7. (T * one = 0 /\ one = 0) \/ (T * one = T /\ one = 1)
    BY <2>2, <2>4
  <2> HIDE DEF given
  <2>8. given - exact < T /\ exact - given < T
    BY <2>2, <2>4, <2>6, <2>7
  <2> QED
    BY <2>8 DEF given, exact, T
<1> QED
  BY Invariance, <1>1, PTL

\* The loop ends with one of the results of the operator InitialWeights, which the
\* reconciler uses in its place.
THEOREM LoopIsOperator == Spec => []LoopIsInitialWeights
<1>1. IInv => LoopIsInitialWeights
  <2> SUFFICES ASSUME IInv, pc = "done"
               PROVE  ValidSpec(backends) /\ ByName(backends, weights) \in InitialWeights(backends)
    BY DEF LoopIsInitialWeights
  <2>1. IsBackends(backends) /\ ValidSpec(backends) /\ weights \in [DOMAIN backends -> Nat]
    BY SpecsAreTyped DEF IInv, TypeOK
  <2>2. CASE MinimumsOnly(backends)
    <3>1. weights = [i \in DOMAIN backends |-> backends[i].min]
      BY <2>1, <2>2 DEF IInv
    <3> QED
      BY <2>1, <2>2, <3>1 DEF InitialWeights
  <2>3. CASE ~MinimumsOnly(backends)
    <3>1. Accounted /\ leftover = 0
      BY <2>3 DEF IInv
    <3>2. weights = [i \in DOMAIN backends |->
                       backends[i].min + Whole(backends, i) + IF i \in Served THEN 1 ELSE 0]
      BY <2>1, <3>1 DEF Accounted
    <3>3. Served \subseteq Roomy(backends)
      BY <2>1, <2>3, <3>1, LeftoverFits DEF Accounted
    <3>4. Cardinality(Served) = Leftover(backends)
      <4>1. IsFiniteSet(Served)
        BY <2>1, ListTypes, FS_Subset DEF Served
      <4> QED
        BY <3>1, <4>1, FS_CardinalityType DEF Accounted
    <3>5. \A i \in Served, j \in Roomy(backends) \ Served : ~Before(backends, j, i)
      BY <3>1 DEF Accounted, Served, Roomy
    <3>6. Served \in ServedSets(backends)
      BY <3>3, <3>4, <3>5 DEF ServedSets
    <3> QED
      BY <2>1, <2>3, <3>2, <3>6 DEF InitialWeights
  <2> QED
    BY <2>2, <2>3
<1> QED
  BY Invariance, <1>1, PTL
=============================================================================
