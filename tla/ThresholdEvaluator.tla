------------------------- MODULE ThresholdEvaluator -------------------------
(***************************************************************************)
(* The loop of ThresholdEvaluator.Evaluate in evaluator.go,                *)
(* as a state machine: each Shift moves one point from the worst backend   *)
(* that can still give to the first healthy backend that can still take.   *)
(***************************************************************************)
EXTENDS GreedyAllocation

CONSTANT Inputs     \* the evaluator.Input values the machine is started with

ASSUME InputsAreTyped == \A i \in Inputs : IsInput(i)

VARIABLES
  in,         \* the Input being evaluated
  current,    \* backendState.current
  budget,     \* backendState.stepBudget
  shifted,    \* points moved so far
  decision    \* "shifting" in the loop, then Decision.Changed: "held" or "changed"

vars == <<in, current, budget, shifted, decision>>

Init ==
  /\ in \in Inputs
  /\ current  = [b \in Backends(in) |-> StartWeight(in, b)]
  /\ budget   = [b \in Backends(in) |-> in.step]
  /\ shifted  = 0
  /\ decision = IF Holds(in) THEN "held" ELSE "shifting"

\* Mutant of Shift: the point taken from the donor is given to nobody.
ShiftLosesPoint(d, r) ==
  /\ decision = "shifting"
  /\ PickDonor(in, current, budget, d)
  /\ PickRecipient(in, current, budget, r)
  /\ current' = [current EXCEPT ![d] = @ - 1]
  /\ budget'  = [budget  EXCEPT ![d] = @ - 1, ![r] = @ - 1]
  /\ shifted' = shifted + 1
  /\ UNCHANGED <<in, decision>>

Shift(d, r) ==
  /\ decision = "shifting"
  /\ PickDonor(in, current, budget, d)
  /\ PickRecipient(in, current, budget, r)
  /\ current' = [current EXCEPT ![d] = @ - 1, ![r] = @ + 1]
  /\ budget'  = [budget  EXCEPT ![d] = @ - 1, ![r] = @ - 1]
  /\ shifted' = shifted + 1
  /\ UNCHANGED <<in, decision>>

\* Mutant of Return: `and' for `or' in the loop's break.
ReturnWhenBothExhausted ==
  /\ decision = "shifting"
  /\ \A b \in Unhealthy(in) : ~CanGive(in, current, budget, b)
  /\ \A b \in Healthy(in)   : ~CanTake(in, current, budget, b)
  /\ decision' = IF shifted = 0 THEN "held" ELSE "changed"
  /\ UNCHANGED <<in, current, budget, shifted>>

\* Mutant of Return: `changed' whatever the loop did.
ReturnChanged ==
  /\ decision = "shifting"
  /\ \/ \A b \in Unhealthy(in) : ~CanGive(in, current, budget, b)
     \/ \A b \in Healthy(in)   : ~CanTake(in, current, budget, b)
  /\ decision' = "changed"
  /\ UNCHANGED <<in, current, budget, shifted>>

Return ==
  /\ decision = "shifting"
  /\ \/ \A b \in Unhealthy(in) : ~CanGive(in, current, budget, b)
     \/ \A b \in Healthy(in)   : ~CanTake(in, current, budget, b)
  /\ decision' = IF shifted = 0 THEN "held" ELSE "changed"
  /\ UNCHANGED <<in, current, budget, shifted>>

Next == Return \/ \E d, r \in Backends(in) : Shift(d, r)

\* Evaluate is a plain call: it runs until it returns.
Spec == Init /\ [][Next]_vars /\ WF_vars(Next)

----------------------------------------------------------------------------
(* Properties                                                              *)

\* Every variable has its type; the step budget is never overdrawn.
TypeOK ==
  /\ in \in Inputs
  /\ current \in [Backends(in) -> Int]
  /\ budget \in [Backends(in) -> Int]
  /\ \A b \in Backends(in) : decision # "held" => 0 <= budget[b] /\ budget[b] <= in.step
  /\ shifted \in Nat
  /\ decision \in {"shifting", "held", "changed"}

\* README "never violating each backend's minWeight/maxWeight" for the moves a
\* decision makes: an unhealthy backend only loses and never below its minimum,
\* a healthy one only gains and never above its maximum, an unsampled one is left
\* alone.  A weight that starts outside its bounds is never pushed further out.
MovesWithinBounds ==
  \A b \in Backends(in) :
    LET s == StartWeight(in, b) IN
    /\ b \notin Unhealthy(in) => current[b] >= s
    /\ b \notin Healthy(in)   => current[b] <= s
    /\ current[b] < s => current[b] >= in.bounds[b].min
    /\ current[b] > s => current[b] <= in.bounds[b].max

\* "at most maxStepPercent points per backend per decision": what a backend has
\* moved and what is left of its budget always add up to the step.
StepCapped ==
  \A b \in Backends(in) :
    LET s == StartWeight(in, b) IN
    /\ b \in Unhealthy(in) => (s - current[b]) + budget[b] = in.step
    /\ b \in Healthy(in)   => (current[b] - s) + budget[b] = in.step
    /\ current[b] - s <= in.step \/ current[b] = s
    /\ s - current[b] <= in.step \/ current[b] = s

\* The sort comment "worst-first for donors": a backend only gives once every
\* worse backend has nothing left to give.
WorstFirst ==
  \A d, e \in Unhealthy(in) :
    WorseThan(in, d, e) /\ current[e] < StartWeight(in, e) => ~CanGive(in, current, budget, d)

\* evaluator.go "Changed reports whether Weights differs from the input's Current": the
\* verdict is true of the weights, however the loop came to its end.
ChangedIsHonest ==
  /\ decision = "held"    => \A b \in Backends(in) : current[b] = StartWeight(in, b)
  /\ decision = "changed" => \E b \in Backends(in) : current[b] # StartWeight(in, b)

\* types.go "weights across backends always sum to 100": an iteration takes from
\* one backend exactly what it gives to another, so the weights keep adding up to what the
\* current ones assign to the backends the spec still declares.  Points of a backend that
\* was dropped from the spec are not redistributed: they are lost to the sum.
TotalConserved ==
  SumFunction(current) = SumFunctionOnSet(in.current, Backends(in) \cap DOMAIN in.current)

\* The loop stops with everything moved that could be: its result is the greedy
\* allocation, no point short and in the documented order.
ResultIsGreedy == decision # "shifting" /\ ~Holds(in) => current = GreedyWeights(in)

\* Every evaluation returns.
Terminates == <>(decision # "shifting")

----------------------------------------------------------------------------
(* Refinement                                                              *)

\* The loop implements the abstract transfer of weight.
Transfer == INSTANCE WeightTransfer WITH
  backends <- Backends(in),
  lower    <- [b \in Backends(in) |-> in.bounds[b].min],
  upper    <- [b \in Backends(in) |-> in.bounds[b].max],
  losers   <- Unhealthy(in),
  gainers  <- Healthy(in),
  step     <- in.step,
  start    <- [b \in Backends(in) |-> StartWeight(in, b)],
  weight   <- current

\* Every step of the loop is a move the abstract specification allows, or none.
ImplementsTransfer == Transfer!Spec
=============================================================================
