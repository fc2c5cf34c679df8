----------------------------- MODULE PacedSplit -----------------------------
(***************************************************************************)
(* What a TrafficPolicy promises of the weights in its status while its    *)
(* spec stays: a split of 100 points within the bounds, which moves by at  *)
(* most a step per backend, and only once the last move is a cooldown old. *)
(***************************************************************************)
EXTENDS Integers, Functions

CONSTANTS
  Bounds,            \* name -> [min, max]
  Step, Cooldown,
  Total, MaxAge

VARIABLES
  weights,   \* name -> points; nothing before the first publication
  age        \* ticks since the decision that moved them, Never before one did

vars == <<weights, age>>

Never    == -1
Nothing  == [n \in {} |-> 0]

IsSplit(w) ==
  /\ DOMAIN w = DOMAIN Bounds
  /\ \A n \in DOMAIN w : Bounds[n].min <= w[n] /\ w[n] <= Bounds[n].max
  /\ SumFunction(w) = Total

Init == weights = Nothing /\ age = Never

\* The first publication may be of an initial split that was moved at once.
Publish ==
  /\ weights = Nothing
  /\ IsSplit(weights')
  /\ age' \in Never..MaxAge

Move ==
  /\ weights # Nothing
  /\ age = Never \/ age >= Cooldown
  /\ IsSplit(weights')
  /\ \A n \in DOMAIN weights : weights'[n] - weights[n] \in -Step..Step
  /\ age' \in 0..MaxAge

Tick ==
  /\ UNCHANGED weights
  /\ age # Never /\ age' = age + 1 /\ age' <= MaxAge

Next == Publish \/ Move \/ Tick

Spec == Init /\ [][Next]_vars
=============================================================================
