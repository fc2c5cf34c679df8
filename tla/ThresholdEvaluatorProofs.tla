---------------------- MODULE ThresholdEvaluatorProofs ----------------------
(***************************************************************************)
(* What ThresholdEvaluator guarantees for every set of backends, every     *)
(* weight, bound, sample and step: its invariants, that it implements      *)
(* WeightTransfer, and that it computes the greedy allocation.             *)
(***************************************************************************)
EXTENDS ThresholdEvaluator, WeightTheorems

----------------------------------------------------------------------------
(* The inductive invariant: what the runs check, and how the number of     *)
(* points moved relates to the weights and to the verdict.                 *)

ShiftsShow ==
  /\ shifted = 0 => \A b \in Backends(in) : current[b] = StartWeight(in, b)
  /\ shifted > 0 => \E b \in Backends(in) : current[b] < StartWeight(in, b)
  /\ decision = "held" => shifted = 0
  /\ decision = "changed" => shifted > 0

IInv == TypeOK /\ MovesWithinBounds /\ StepCapped /\ WorstFirst /\ ShiftsShow

\* It holds initially.
LEMMA InitIInv == Init => IInv
<1> SUFFICES ASSUME Init PROVE IInv
  OBVIOUS
<1>1. in \in Inputs /\ IsInput(in)
  BY InputsAreTyped DEF Init
<1>2. \A b \in Backends(in) : StartWeight(in, b) \in Int /\ current[b] = StartWeight(in, b)
  BY <1>1, InputsAreTyped, InputTypes DEF Init
<1>3. in.step \in Int
  BY <1>1 DEF IsInput
<1>4. decision # "held" => in.step > 0
  BY <1>3 DEF Init, Holds
<1>5. TypeOK
  BY <1>1, <1>2, <1>3, <1>4 DEF Init, TypeOK
<1>6. MovesWithinBounds
  BY <1>2 DEF MovesWithinBounds
<1>7. StepCapped
  <2>1. \A b \in Backends(in) : budget[b] = in.step
    BY DEF Init
  <2> QED
    BY <1>2, <1>3, <2>1, VerdictsDeclared DEF StepCapped
<1>8. WorstFirst
  BY <1>2, VerdictsDeclared DEF WorstFirst
<1>9. ShiftsShow
  BY <1>2 DEF Init, ShiftsShow
<1> QED
  BY <1>5, <1>6, <1>7, <1>8, <1>9 DEF IInv

\* What one iteration does to the backends, in the form the invariants use.
LEMMA ShiftEffect ==
  ASSUME IInv, NEW d, NEW r, Shift(d, r)
  PROVE  /\ in' = in /\ in \in Inputs /\ d \in Backends(in) /\ r \in Backends(in)
         /\ d \in Unhealthy(in) /\ r \in Healthy(in) /\ d # r
         /\ r \notin Unhealthy(in) /\ d \notin Healthy(in)
         /\ CanGive(in, current, budget, d) /\ CanTake(in, current, budget, r)
         /\ current \in [Backends(in) -> Int] /\ budget \in [Backends(in) -> Int]
         /\ current'[d] = current[d] - 1 /\ current'[r] = current[r] + 1
         /\ budget'[d] = budget[d] - 1 /\ budget'[r] = budget[r] - 1
         /\ \A b \in Backends(in) \ {d, r} : current'[b] = current[b] /\ budget'[b] = budget[b]
         /\ current' \in [Backends(in) -> Int] /\ budget' \in [Backends(in) -> Int]
<1>1. in' = in /\ in \in Inputs /\ current \in [Backends(in) -> Int] /\ budget \in [Backends(in) -> Int]
  BY DEF IInv, TypeOK, Shift
<1>2. d \in Unhealthy(in) /\ r \in Healthy(in)
      /\ CanGive(in, current, budget, d) /\ CanTake(in, current, budget, r)
  BY DEF Shift, PickDonor, PickRecipient
<1>3. /\ d # r /\ r \notin Unhealthy(in) /\ d \notin Healthy(in)
      /\ d \in Backends(in) /\ r \in Backends(in)
  BY <1>2, VerdictsDisjoint, VerdictsDeclared
<1>4. current' = [current EXCEPT ![d] = @ - 1, ![r] = @ + 1]
      /\ budget' = [budget EXCEPT ![d] = @ - 1, ![r] = @ - 1]
  BY DEF Shift
<1> QED
  BY <1>1, <1>2, <1>3, <1>4

\* Every step keeps it.
LEMMA NextIInv == IInv /\ [Next]_vars => IInv'
<1> SUFFICES ASSUME IInv, [Next]_vars PROVE IInv'
  OBVIOUS
<1>1. CASE UNCHANGED vars
  BY <1>1 DEF vars, IInv, TypeOK, MovesWithinBounds, StepCapped, WorstFirst, ShiftsShow
<1>2. CASE Return
  <2>1. in' = in /\ current' = current /\ budget' = budget /\ shifted' = shifted
        /\ decision = "shifting" /\ decision' \in {"held", "changed"}
        /\ (decision' = "held" <=> shifted = 0) /\ shifted \in Nat
    BY <1>2 DEF Return, IInv, TypeOK
  <2>2. TypeOK'
    BY <2>1 DEF IInv, TypeOK
  <2>3. MovesWithinBounds' /\ StepCapped' /\ WorstFirst'
    BY <2>1 DEF IInv, MovesWithinBounds, StepCapped, WorstFirst
  <2>4. ShiftsShow'
    BY <2>1 DEF IInv, ShiftsShow
  <2> QED
    BY <2>2, <2>3, <2>4 DEF IInv
<1>3. ASSUME NEW d \in Backends(in), NEW r \in Backends(in), Shift(d, r)
      PROVE  IInv'
  <2>1. /\ in' = in /\ in \in Inputs
        /\ d \in Unhealthy(in) /\ r \in Healthy(in) /\ d # r
        /\ r \notin Unhealthy(in) /\ d \notin Healthy(in)
        /\ CanGive(in, current, budget, d) /\ CanTake(in, current, budget, r)
    BY <1>3, ShiftEffect
  <2>2. /\ current \in [Backends(in) -> Int] /\ budget \in [Backends(in) -> Int]
        /\ current'[d] = current[d] - 1 /\ current'[r] = current[r] + 1
        /\ budget'[d] = budget[d] - 1 /\ budget'[r] = budget[r] - 1
        /\ \A b \in Backends(in) \ {d, r} : current'[b] = current[b] /\ budget'[b] = budget[b]
        /\ current' \in [Backends(in) -> Int] /\ budget' \in [Backends(in) -> Int]
    BY <1>3, ShiftEffect
  <2>3. \A b \in Backends(in) :
          /\ StartWeight(in, b) \in Int /\ current[b] \in Int /\ budget[b] \in Int
          /\ in.bounds[b].min \in Int /\ in.bounds[b].max \in Int /\ in.step \in Int
    BY <2>1, <2>2, InputsAreTyped, InputTypes
  <2>4. decision = "shifting" /\ decision' = "shifting" /\ shifted' = shifted + 1 /\ shifted \in Nat
    BY <1>3 DEF Shift, IInv, TypeOK
  <2>5. \A b \in Backends(in) : 0 <= budget'[b] /\ budget'[b] <= in.step
    <3>1. \A b \in Backends(in) : 0 <= budget[b] /\ budget[b] <= in.step
      BY <2>4 DEF IInv, TypeOK
    <3>2. budget[d] > 0 /\ budget[r] > 0
      BY <2>1 DEF CanGive, CanTake
    <3> QED
      BY <2>2, <2>3, <3>1, <3>2
  <2>6. TypeOK'
    BY <2>1, <2>2, <2>4, <2>5 DEF TypeOK
  <2>7. MovesWithinBounds'
    <3> SUFFICES ASSUME NEW b \in Backends(in)
                 PROVE  /\ b \notin Unhealthy(in) => current'[b] >= StartWeight(in, b)
                        /\ b \notin Healthy(in)   => current'[b] <= StartWeight(in, b)
                        /\ current'[b] < StartWeight(in, b) => current'[b] >= in.bounds[b].min
                        /\ current'[b] > StartWeight(in, b) => current'[b] <= in.bounds[b].max
      BY <2>1 DEF MovesWithinBounds
    <3>1. /\ b \notin Unhealthy(in) => current[b] >= StartWeight(in, b)
          /\ b \notin Healthy(in)   => current[b] <= StartWeight(in, b)
          /\ current[b] < StartWeight(in, b) => current[b] >= in.bounds[b].min
          /\ current[b] > StartWeight(in, b) => current[b] <= in.bounds[b].max
      BY DEF IInv, MovesWithinBounds
    <3>2. CASE b = d
      BY <2>1, <2>2, <2>3, <3>1, <3>2 DEF CanGive
    <3>3. CASE b = r
      BY <2>1, <2>2, <2>3, <3>1, <3>3 DEF CanTake
    <3>4. CASE b \notin {d, r}
      BY <2>2, <3>1, <3>4
    <3> QED
      BY <3>2, <3>3, <3>4
  <2>8. StepCapped'
    <3> SUFFICES ASSUME NEW b \in Backends(in)
                 PROVE  /\ b \in Unhealthy(in) => (StartWeight(in, b) - current'[b]) + budget'[b] = in.step
                        /\ b \in Healthy(in)   => (current'[b] - StartWeight(in, b)) + budget'[b] = in.step
                        /\ current'[b] - StartWeight(in, b) <= in.step \/ current'[b] = StartWeight(in, b)
                        /\ StartWeight(in, b) - current'[b] <= in.step \/ current'[b] = StartWeight(in, b)
      BY <2>1 DEF StepCapped
    <3>1. /\ b \in Unhealthy(in) => (StartWeight(in, b) - current[b]) + budget[b] = in.step
          /\ b \in Healthy(in)   => (current[b] - StartWeight(in, b)) + budget[b] = in.step
          /\ current[b] - StartWeight(in, b) <= in.step \/ current[b] = StartWeight(in, b)
          /\ StartWeight(in, b) - current[b] <= in.step \/ current[b] = StartWeight(in, b)
      BY DEF IInv, StepCapped
    <3>2. CASE b = d
      <4>1. (StartWeight(in, b) - current'[b]) + budget'[b] = in.step
        BY <2>1, <2>2, <2>3, <3>1, <3>2
      <4>2. current'[b] <= StartWeight(in, b)
        BY <2>1, <2>7, <3>2 DEF MovesWithinBounds
      <4>3. current'[b] \in Int /\ budget'[b] \in Int
        BY <2>2
      <4>4. in.step \in Int /\ StartWeight(in, b) \in Int /\ 0 <= budget'[b] /\ budget'[b] <= in.step
        BY <2>3, <2>5
      <4> QED
        BY <2>1, <3>2, <4>1, <4>2, <4>3, <4>4
    <3>3. CASE b = r
      <4>1. (current'[b] - StartWeight(in, b)) + budget'[b] = in.step
        BY <2>1, <2>2, <2>3, <3>1, <3>3
      <4>2. current'[b] >= StartWeight(in, b)
        BY <2>1, <2>7, <3>3 DEF MovesWithinBounds
      <4>3. current'[b] \in Int /\ budget'[b] \in Int
        BY <2>2
      <4>4. in.step \in Int /\ StartWeight(in, b) \in Int /\ 0 <= budget'[b] /\ budget'[b] <= in.step
        BY <2>3, <2>5
      <4> QED
        BY <2>1, <3>3, <4>1, <4>2, <4>3, <4>4
    <3>4. CASE b \notin {d, r}
      BY <2>2, <3>1, <3>4
    <3> QED
      BY <3>2, <3>3, <3>4
  <2>9. WorstFirst'
    <3> SUFFICES ASSUME NEW g \in Unhealthy(in), NEW e \in Unhealthy(in),
                        WorseThan(in, g, e), current'[e] < StartWeight(in, e)
                 PROVE  ~CanGive(in, current', budget', g)
      BY <2>1 DEF WorstFirst
    <3>1. g \in Backends(in) /\ e \in Backends(in) /\ e # r /\ g # r
      BY <2>1, VerdictsDeclared
    <3>2. ~CanGive(in, current, budget, g)
      <4>1. CASE e = d
        <5>1. g # d
          BY <2>1, <3>1, <4>1, InputsAreTyped, OrdersTotal
        <5>2. CanGive(in, current, budget, g) => WorseThan(in, d, g)
          BY <1>3, <5>1 DEF Shift, PickDonor
        <5> QED
          BY <2>1, <3>1, <4>1, <5>2, InputsAreTyped, OrdersTotal
      <4>2. CASE e # d
        <5>1. current[e] < StartWeight(in, e)
          BY <2>2, <3>1, <4>2
        <5> QED
          BY <5>1 DEF IInv, WorstFirst
      <4> QED
        BY <4>1, <4>2
    <3>3. g # d
      BY <2>1, <3>2
    <3>4. current'[g] = current[g] /\ budget'[g] = budget[g]
      BY <2>2, <3>1, <3>3
    <3> QED
      BY <3>2, <3>4 DEF CanGive
  <2>10. ShiftsShow'
    <3>1. current[d] <= StartWeight(in, d)
      BY <2>1 DEF IInv, MovesWithinBounds
    <3>2. d \in Backends(in) /\ current'[d] < StartWeight(in, d)
      BY <2>2, <2>3, <3>1
    <3>3. \E b \in Backends(in) : current'[b] < StartWeight(in', b)
      BY <2>1, <3>2
    <3> QED
      BY <2>1, <2>4, <3>3 DEF ShiftsShow
  <2> QED
    BY <2>6, <2>7, <2>8, <2>9, <2>10 DEF IInv
<1> QED
  BY <1>1, <1>2, <1>3 DEF Next

----------------------------------------------------------------------------
(* The second part of the invariant: what the iterations so far have       *)
(* achieved, where the loop stops, and that no point is lost.              *)

Loop == [current |-> current, budget |-> budget, shifted |-> shifted]

Advanced == ~Holds(in) => Progress(in, Loop)

Ended ==
  /\ Holds(in) => decision = "held"
  /\ decision # "shifting" => Holds(in) \/ Exhausted(in, current, budget)

RunInv == Advanced /\ Ended /\ TotalConserved

\* The number of iterations is bounded by what the unhealthy backends may give.
LEMMA ShiftsBounded ==
  ASSUME NEW i, IsInput(i), ~Holds(i), NEW st, Progress(i, st)
  PROVE  LoopBound(i) \in Nat /\ st.shifted \in 0..LoopBound(i)
<1>1. LoopBound(i) \in Nat /\ i.step > 0 /\ i.step \in Int
  BY InputFinite
<1>2. st.shifted <= LoopBound(i) /\ st.shifted \in Nat
  BY <1>1, ProgressBounded DEF Progress
<1> QED
  BY <1>1, <1>2

\* A Shift takes from one backend what it gives to the other.
LEMMA ShiftConserves ==
  ASSUME IInv, TotalConserved, NEW d, NEW r, Shift(d, r)
  PROVE  TotalConserved'
<1>1. /\ in' = in /\ in \in Inputs /\ d # r /\ d \in Backends(in) /\ r \in Backends(in)
      /\ current'[d] = current[d] - 1 /\ current'[r] = current[r] + 1
      /\ \A b \in Backends(in) \ {d, r} : current'[b] = current[b]
      /\ current \in [Backends(in) -> Int] /\ current' \in [Backends(in) -> Int]
  BY ShiftEffect
<1>2. PICK B : B = Backends(in)
  OBVIOUS
<1>3. PICK old : old = current
  OBVIOUS
<1>4. PICK new : new = current'
  OBVIOUS
<1>5. IsFiniteSet(B)
  BY <1>1, <1>2, InputsAreTyped, InputFinite
<1>6. /\ d \in B /\ r \in B /\ d # r
      /\ \A b \in B : old[b] \in Int /\ new[b] \in Int
      /\ \A b \in B \ {d, r} : new[b] = old[b]
      /\ new[d] = old[d] - 1 /\ new[r] = old[r] + 1
  BY <1>1, <1>2, <1>3, <1>4
<1>7. SumFunctionOnSet(new, B) = SumFunctionOnSet(old, B)
  BY ONLY <1>5, <1>6, SumMoved
<1>8. SumFunction(current') = SumFunction(current)
  BY <1>1, <1>2, <1>3, <1>4, <1>7 DEF SumFunction
<1> QED
  BY <1>1, <1>8 DEF TotalConserved

\* A Shift makes the progress of one iteration.
LEMMA ShiftAdvances ==
  ASSUME IInv, RunInv, NEW d, NEW r, Shift(d, r)
  PROVE  Advanced'
<1>1. in' = in /\ IsInput(in)
  BY InputsAreTyped DEF Shift, IInv, TypeOK
<1> SUFFICES ASSUME ~Holds(in) PROVE Progress(in, Loop')
  BY <1>1 DEF Advanced
<1>2. PICK i, st, next : i = in /\ st = Loop /\ next = Loop'
  OBVIOUS
<1>3. /\ IsInput(i) /\ ~Holds(i) /\ Progress(i, st)
      /\ st.current = current /\ st.budget = budget /\ st.shifted = shifted
  BY <1>1, <1>2 DEF RunInv, Advanced, Loop
<1>4. next = Moving(st, d, r)
  BY <1>2, <1>3 DEF Shift, Moving, PointMoved, PointsSpent, Loop
<1>5. PickDonor(i, st.current, st.budget, d) /\ PickRecipient(i, st.current, st.budget, r)
  BY <1>2, <1>3 DEF Shift
<1>6. Progress(i, next)
  <2>1. i.step > 0
    BY <1>3, InputFinite
  <2> QED
    BY ONLY <1>3, <1>4, <1>5, <2>1, ProgressKept
<1> QED
  BY <1>2, <1>6

\* The weights a decision starts from: those of the declared backends, and nothing for the
\* backends the current weights do not name.
LEMMA StartTotal ==
  ASSUME NEW i, IsInput(i), NEW f, f = [b \in Backends(i) |-> StartWeight(i, b)]
  PROVE  SumFunction(f) = SumFunctionOnSet(i.current, Backends(i) \cap DOMAIN i.current)
<1>1. PICK B, K, N, c :
        B = Backends(i) /\ c = i.current /\ K = B \cap DOMAIN c /\ N = B \ DOMAIN c
  OBVIOUS
<1>2. IsFiniteSet(B) /\ IsFiniteSet(K) /\ IsFiniteSet(N) /\ K \cap N = {} /\ B = K \cup N
  BY <1>1, InputFinite, FS_Subset
<1>3. /\ DOMAIN f = B
      /\ \A b \in K : f[b] = c[b] /\ c[b] \in Int
      /\ \A b \in N : f[b] = 0
  BY <1>1 DEF IsInput, StartWeight
<1>4. SumFunctionOnSet(f, B) = SumFunctionOnSet(f, K) + SumFunctionOnSet(f, N)
  BY <1>2, <1>3, SumUnion
<1>5. SumFunctionOnSet(f, N) = 0 * Cardinality(N)
  BY <1>2, <1>3, SumConstant
<1>6. SumFunctionOnSet(f, K) = SumFunctionOnSet(c, K)
  BY <1>2, <1>3, SumSame
<1>7. SumFunctionOnSet(f, K) \in Int /\ Cardinality(N) \in Int
  BY <1>2, <1>3, SumType, FS_CardinalityType
<1> QED
  BY <1>1, <1>3, <1>4, <1>5, <1>6, <1>7 DEF SumFunction

\* The second part of the invariant holds initially.
LEMMA InitRunInv == Init => RunInv
<1> SUFFICES ASSUME Init PROVE RunInv
  OBVIOUS
<1>1. IsInput(in)
  BY InputsAreTyped DEF Init
<1>2. ~Holds(in) => Progress(in, Loop)
  <2>1. PICK i : i = in
    OBVIOUS
  <2>2. Progress(i, LoopStart(i))
    BY <1>1, <2>1, ProgressStarts
  <2>3. Loop = LoopStart(in)
    BY DEF Init, Loop, LoopStart
  <2> QED
    BY <2>1, <2>2, <2>3
<1>3. TotalConserved
  BY <1>1, StartTotal DEF Init, TotalConserved
<1>4. Ended
  BY DEF Init, Ended
<1> QED
  BY <1>2, <1>3, <1>4 DEF RunInv, Advanced

\* Every step keeps it.
LEMMA NextRunInv == IInv /\ RunInv /\ [Next]_vars => RunInv'
<1> SUFFICES ASSUME IInv, RunInv, [Next]_vars PROVE RunInv'
  OBVIOUS
<1>1. ASSUME in' = in, current' = current, budget' = budget, shifted' = shifted
      PROVE  Advanced' /\ TotalConserved'
  BY <1>1 DEF RunInv, Advanced, Loop, TotalConserved
<1>2. CASE UNCHANGED vars
  <2>1. in' = in /\ current' = current /\ budget' = budget /\ shifted' = shifted /\ decision' = decision
    BY <1>2 DEF vars
  <2>2. Ended'
    BY <2>1 DEF RunInv, Ended
  <2> QED
    BY <1>1, <2>1, <2>2 DEF RunInv
<1>3. CASE Return
  <2>1. in' = in /\ current' = current /\ budget' = budget /\ shifted' = shifted
        /\ decision = "shifting" /\ Exhausted(in, current, budget)
    BY <1>3 DEF Return, Exhausted
  <2>2. Ended'
    BY <2>1 DEF RunInv, Ended
  <2> QED
    BY <1>1, <2>1, <2>2 DEF RunInv
<1>4. ASSUME NEW d, NEW r, Shift(d, r)
      PROVE  RunInv'
  <2>1. Advanced' /\ TotalConserved'
    BY <1>4, ShiftAdvances, ShiftConserves DEF RunInv
  <2>2. Ended'
    BY <1>4 DEF Shift, RunInv, Ended
  <2> QED
    BY <2>1, <2>2 DEF RunInv
<1> QED
  BY <1>2, <1>3, <1>4 DEF Next

\* So both parts hold in every state the program reaches.
LEMMA Invariance == Spec => [](IInv /\ RunInv)
<1>1. Init => IInv /\ RunInv
  BY InitIInv, InitRunInv
<1>2. IInv /\ RunInv /\ [Next]_vars => IInv' /\ RunInv'
  BY NextIInv, NextRunInv
<1> QED
  BY <1>1, <1>2, PTL DEF Spec

----------------------------------------------------------------------------
(* Theorems                                                                *)

\* Every evaluation keeps its types, and never overdraws a backend's step budget.
THEOREM TypeCorrect == Spec => []TypeOK
<1>1. IInv => TypeOK
  BY DEF IInv
<1> QED
  BY Invariance, <1>1, PTL

\* No evaluation moves a backend past a declared bound, or in the wrong direction.
THEOREM BoundsRespected == Spec => []MovesWithinBounds
<1>1. IInv => MovesWithinBounds
  BY DEF IInv
<1> QED
  BY Invariance, <1>1, PTL

\* No evaluation moves a backend by more than maxStepPercent points.
THEOREM StepRespected == Spec => []StepCapped
<1>1. IInv => StepCapped
  BY DEF IInv
<1> QED
  BY Invariance, <1>1, PTL

\* Backends give in the order of their scores, worst first.
THEOREM DonorsInOrder == Spec => []WorstFirst
<1>1. IInv => WorstFirst
  BY DEF IInv
<1> QED
  BY Invariance, <1>1, PTL

\* A decision says it changed the weights exactly when it did.
THEOREM VerdictHonest == Spec => []ChangedIsHonest
<1>1. IInv => ChangedIsHonest
  <2> SUFFICES ASSUME IInv PROVE ChangedIsHonest
    OBVIOUS
  <2>1. CASE decision = "held"
    BY <2>1 DEF IInv, ShiftsShow, ChangedIsHonest
  <2>2. CASE decision = "changed"
    <3>1. PICK b \in Backends(in) : current[b] < StartWeight(in, b)
      BY <2>2 DEF IInv, ShiftsShow
    <3>2. current[b] \in Int /\ StartWeight(in, b) \in Int
      BY InputsAreTyped, InputTypes DEF IInv, TypeOK
    <3> QED
      BY <2>2, <3>1, <3>2 DEF ChangedIsHonest
  <2> QED
    BY <2>1, <2>2 DEF ChangedIsHonest
<1> QED
  BY Invariance, <1>1, PTL

\* No evaluation changes what the weights of the declared backends add up to.
THEOREM TotalKept == Spec => []TotalConserved
<1>1. RunInv => TotalConserved
  BY DEF RunInv
<1> QED
  BY Invariance, <1>1, PTL

\* Every evaluation that is not held ends in the greedy allocation: the most points that
\* either side allows, taken worst first and given best first.
THEOREM LoopIsGreedy == Spec => []ResultIsGreedy
<1>1. IInv /\ RunInv => ResultIsGreedy
  <2> SUFFICES ASSUME IInv, RunInv, decision # "shifting", ~Holds(in)
               PROVE  current = GreedyWeights(in)
    BY DEF ResultIsGreedy
  <2>1. PICK i, st : i = in /\ st = Loop
    OBVIOUS
  <2>2. /\ IsInput(i) /\ ~Holds(i) /\ Progress(i, st) /\ Exhausted(i, st.current, st.budget)
        /\ st.current = current
    BY <2>1, InputsAreTyped DEF IInv, TypeOK, RunInv, Advanced, Ended, Loop
  <2>3. i.step > 0
    BY <2>2, InputFinite
  <2>4. st.current = GreedyWeights(i)
    BY ONLY <2>2, <2>3, ExhaustedIsGreedy
  <2> QED
    BY <2>1, <2>2, <2>4
<1> QED
  BY Invariance, <1>1, PTL

\* No evaluation makes more iterations than the unhealthy backends have points to give: the
\* safety part of Terminates.
ShiftsInBound == ~Holds(in) => shifted <= LoopBound(in)

THEOREM IterationsBounded == Spec => []ShiftsInBound
<1>1. IInv /\ RunInv => ShiftsInBound
  <2> SUFFICES ASSUME IInv, RunInv, ~Holds(in) PROVE shifted <= LoopBound(in)
    BY DEF ShiftsInBound
  <2>1. PICK i, st : i = in /\ st = Loop
    OBVIOUS
  <2>2. IsInput(i) /\ ~Holds(i) /\ Progress(i, st) /\ st.shifted = shifted
    BY <2>1, InputsAreTyped DEF IInv, TypeOK, RunInv, Advanced, Loop
  <2>3. LoopBound(i) \in Nat /\ st.shifted \in 0..LoopBound(i)
    BY ONLY <2>2, ShiftsBounded
  <2> QED
    BY <2>1, <2>2, <2>3
<1> QED
  BY Invariance, <1>1, PTL

\* The loop of Evaluate implements the abstract transfer of weight.
THEOREM LoopImplementsTransfer == Spec => ImplementsTransfer
<1>1. Init => Transfer!Init
  BY VerdictsDisjoint, VerdictsDeclared DEF Init, Transfer!Init
<1>2. IInv /\ [Next]_vars => [Transfer!Next]_(Transfer!vars)
  <2> SUFFICES ASSUME IInv, [Next]_vars PROVE [Transfer!Next]_(Transfer!vars)
    OBVIOUS
  <2>1. CASE UNCHANGED <<in, current>>
    BY <2>1 DEF Transfer!vars
  <2>2. ASSUME NEW d \in Backends(in), NEW r \in Backends(in), Shift(d, r)
        PROVE  Transfer!Next
    <3>1. /\ in' = in /\ in \in Inputs
          /\ d \in Unhealthy(in) /\ r \in Healthy(in)
          /\ CanGive(in, current, budget, d) /\ CanTake(in, current, budget, r)
          /\ current \in [Backends(in) -> Int] /\ budget \in [Backends(in) -> Int]
      BY <2>2, ShiftEffect
    <3>2. /\ StartWeight(in, d) \in Int /\ StartWeight(in, r) \in Int /\ in.step \in Int
          /\ current[d] \in Int /\ current[r] \in Int /\ budget[d] \in Int /\ budget[r] \in Int
      BY <3>1, InputsAreTyped, InputTypes
    <3>3. StartWeight(in, d) - current[d] < in.step /\ current[r] - StartWeight(in, r) < in.step
      <4>1. /\ (StartWeight(in, d) - current[d]) + budget[d] = in.step
            /\ (current[r] - StartWeight(in, r)) + budget[r] = in.step
        BY <3>1 DEF IInv, StepCapped
      <4> QED
        BY <3>1, <3>2, <4>1 DEF CanGive, CanTake
    <3>4. current' = [current EXCEPT ![d] = @ - 1, ![r] = @ + 1]
      BY <2>2 DEF Shift
    <3>5. Transfer!Move(d, r)
      BY <3>1, <3>3, <3>4 DEF Transfer!Move, CanGive, CanTake
    <3> QED
      BY <3>1, <3>5 DEF Transfer!Next
  <2>3. CASE Return
    BY <2>1, <2>3 DEF Return
  <2>4. CASE UNCHANGED vars
    BY <2>1, <2>4 DEF vars
  <2> QED
    BY <2>2, <2>3, <2>4 DEF Next
<1> QED
  BY Invariance, <1>1, <1>2, PTL DEF Spec, ImplementsTransfer, Transfer!Spec
=============================================================================
