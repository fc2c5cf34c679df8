-------------------------- MODULE GreedyAllocation --------------------------
(***************************************************************************)
(* The reference that the result of ThresholdEvaluator.Evaluate is         *)
(* compared with: the points each backend gives or takes, written down     *)
(* directly instead of one iteration of the loop at a time.                *)
(***************************************************************************)
EXTENDS Evaluation, Functions

Least(x, y) == IF x < y THEN x ELSE y
AtLeastZero(x) == IF x < 0 THEN 0 ELSE x

\* What a backend could give or take over a whole decision.
Capacity(i, b) ==
  AtLeastZero(Least(i.step, IF b \in Unhealthy(i) THEN StartWeight(i, b) - i.bounds[b].min
                                                  ELSE i.bounds[b].max - StartWeight(i, b)))

Capacities(i, S) == SumFunctionOnSet([b \in S |-> Capacity(i, b)], S)

Moved(i) == Least(Capacities(i, Unhealthy(i)), Capacities(i, Healthy(i)))

\* A backend is served after everything ahead of it in its list.
ServedAfter(i, b, ahead) == AtLeastZero(Least(Capacity(i, b), Moved(i) - Capacities(i, ahead)))

GreedyWeights(i) ==
  [b \in Backends(i) |->
     IF b \in Unhealthy(i)
       THEN StartWeight(i, b) - ServedAfter(i, b, {e \in Unhealthy(i) : WorseThan(i, e, b)})
     ELSE IF b \in Healthy(i)
       THEN StartWeight(i, b) + ServedAfter(i, b, {e \in Healthy(i) : BetterThan(i, e, b)})
     ELSE StartWeight(i, b)]
=============================================================================
