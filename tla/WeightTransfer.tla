--------------------------- MODULE WeightTransfer ---------------------------
(***************************************************************************)
(* What one traffic decision promises, whatever order it works in: weight  *)
(* moves one point at a time from an unhealthy backend to a healthy one,   *)
(* never past a declared bound, never more than `step' points per backend. *)
(* ThresholdEvaluator is shown to implement this specification.            *)
(***************************************************************************)
EXTENDS Integers

VARIABLES
  backends,   \* the declared backends of this decision
  lower,      \* minWeight per backend
  upper,      \* maxWeight per backend
  losers,     \* backends over a threshold
  gainers,    \* sampled backends within every threshold
  step,       \* maxStepPercent
  start,      \* the weights the decision started from
  weight      \* the proposal so far

vars == <<backends, lower, upper, losers, gainers, step, start, weight>>

Init ==
  /\ losers \subseteq backends
  /\ gainers \subseteq backends
  /\ losers \cap gainers = {}
  /\ weight = start

Move(d, r) ==
  /\ d \in losers /\ r \in gainers
  /\ weight[d] > lower[d] /\ start[d] - weight[d] < step
  /\ weight[r] < upper[r] /\ weight[r] - start[r] < step
  /\ weight' = [weight EXCEPT ![d] = @ - 1, ![r] = @ + 1]
  /\ UNCHANGED <<backends, lower, upper, losers, gainers, step, start>>

Next == \E d \in losers, r \in gainers : Move(d, r)

Spec == Init /\ [][Next]_vars
=============================================================================
