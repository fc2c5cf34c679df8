----------------------------- MODULE Evaluation -----------------------------
(***************************************************************************)
(* internal/evaluator/evaluator.go as operators: the verdict on each       *)
(* backend, the two orders, the picks and, as the function Evaluate, the   *)
(* result of ThresholdEvaluator.Evaluate.  ThresholdEvaluator runs the     *)
(* same picks one iteration at a time.                                     *)
(*                                                                         *)
(* Backend names are integers: their order stands for the order of the     *)
(* strings.  Scores are compared exactly, as fractions brought to a common *)
(* denominator, where the code adds float64 quotients.                     *)
(***************************************************************************)
EXTENDS Integers, FiniteSets

CONSTANTS
  Names,    \* backend names
  NaN       \* the float64 a query returns for 0/0

SignalNames == {"latency", "errorRate"}

ASSUME NamesAreOrdered == Names \subseteq Int /\ NaN \notin Int

\* The Go types of an Input: everything the code relies on.  In particular
\* nothing says the current weights lie within the bounds or name the same
\* backends: the spec may have been edited since they were decided.
IsInput(i) ==
  /\ DOMAIN i.bounds \subseteq Names /\ IsFiniteSet(DOMAIN i.bounds)
  /\ \A b \in DOMAIN i.bounds : i.bounds[b].min \in Int /\ i.bounds[b].max \in Int
  /\ DOMAIN i.current \subseteq Names
  /\ \A b \in DOMAIN i.current : i.current[b] \in Int
  /\ DOMAIN i.signals \subseteq SignalNames
  /\ \A s \in DOMAIN i.signals :
       /\ i.signals[s].threshold \in Int
       /\ \A b \in DOMAIN i.signals[s].samples : i.signals[s].samples[b] \in Int \cup {NaN}
  /\ i.step \in Int

----------------------------------------------------------------------------
(* buildStates: the verdict on each backend                                *)

Backends(i) == DOMAIN i.bounds

\* A backend the status does not name yet starts from the zero of the Go map.
StartWeight(i, b) == IF b \in DOMAIN i.current THEN i.current[b] ELSE 0

Reports(i, s, b) ==
  /\ s \in DOMAIN i.signals
  /\ i.signals[s].threshold > 0
  /\ b \in DOMAIN i.signals[s].samples

\* ratio > 1 is false of NaN: a NaN sample counts as a sample and breaches nothing.
Breaches(i, s, b) ==
  /\ Reports(i, s, b)
  /\ i.signals[s].samples[b] # NaN
  /\ i.signals[s].samples[b] > i.signals[s].threshold

HaveSample(i, b) == \E s \in SignalNames : Reports(i, s, b)

Unhealthy(i) == {b \in Backends(i) : \E s \in SignalNames : Breaches(i, s, b)}

Healthy(i) == {b \in Backends(i) : HaveSample(i, b)} \ Unhealthy(i)

\* The other signal's threshold: the factor that brings both excesses of a
\* backend, v/t - 1, to the same denominator.
OtherThreshold(i, s) ==
  LET o == IF s = "latency" THEN "errorRate" ELSE "latency"
  IN  IF o \in DOMAIN i.signals /\ i.signals[o].threshold > 0 THEN i.signals[o].threshold ELSE 1

Excess(i, s, b) ==
  IF Breaches(i, s, b)
    THEN (i.signals[s].samples[b] - i.signals[s].threshold) * OtherThreshold(i, s)
    ELSE 0

Score(i, b) == Excess(i, "latency", b) + Excess(i, "errorRate", b)

----------------------------------------------------------------------------
(* The two orders and the picks                                            *)

WorseThan(i, d, e)  == Score(i, d) > Score(i, e) \/ (Score(i, d) = Score(i, e) /\ d < e)
BetterThan(i, r, e) == Score(i, r) < Score(i, e) \/ (Score(i, r) = Score(i, e) /\ r < e)

\* Mutants of CanGive: a bound forgotten, the budget forgotten.
GiveBelowMinimum(i, cur, bud, b) == bud[b] > 0
GiveBeyondStep(i, cur, bud, b)   == cur[b] > i.bounds[b].min

CanGive(i, cur, bud, b) == bud[b] > 0 /\ cur[b] > i.bounds[b].min
CanTake(i, cur, bud, b) == bud[b] > 0 /\ cur[b] < i.bounds[b].max

\* Mutant of PickDonor: the donors left unsorted.
PickAnyDonor(i, cur, bud, d) == d \in Unhealthy(i) /\ CanGive(i, cur, bud, d)

PickDonor(i, cur, bud, d) ==
  /\ d \in Unhealthy(i)
  /\ CanGive(i, cur, bud, d)
  /\ \A e \in Unhealthy(i) \ {d} : CanGive(i, cur, bud, e) => WorseThan(i, d, e)

PickRecipient(i, cur, bud, r) ==
  /\ r \in Healthy(i)
  /\ CanTake(i, cur, bud, r)
  /\ \A e \in Healthy(i) \ {r} : CanTake(i, cur, bud, e) => BetterThan(i, r, e)

\* The early returns of Evaluate, lines 90 to 119.
Holds(i) ==
  \/ i.step <= 0
  \/ DOMAIN i.signals = {}
  \/ \A b \in Backends(i) : ~HaveSample(i, b)
  \/ Unhealthy(i) = {}
  \/ Healthy(i) = {}

----------------------------------------------------------------------------
(* The whole loop, for the modules that call Evaluate                      *)

LoopStart(i) ==
  [current |-> [b \in Backends(i) |-> StartWeight(i, b)],
   budget  |-> [b \in Backends(i) |-> i.step],
   shifted |-> 0]

\* Mutant of LoopBody: the point taken from a donor is given to nobody.
LoopBodyLosesPoint(i, st) ==
  [st EXCEPT !.current = [b \in DOMAIN @ |->
                            IF PickDonor(i, @, st.budget, b) THEN @[b] - 1 ELSE @[b]],
             !.shifted = @ + 1]

LoopBody(i, st) ==
  LET donors     == {b \in Unhealthy(i) : PickDonor(i, st.current, st.budget, b)}
      recipients == {b \in Healthy(i) : PickRecipient(i, st.current, st.budget, b)}
  IN  IF donors = {} \/ recipients = {} THEN st ELSE
      LET d == CHOOSE b \in donors : TRUE
          r == CHOOSE b \in recipients : TRUE
      IN  [current |-> [st.current EXCEPT ![d] = @ - 1, ![r] = @ + 1],
           budget  |-> [st.budget  EXCEPT ![d] = @ - 1, ![r] = @ - 1],
           shifted |-> st.shifted + 1]

\* Each iteration spends a point of some unhealthy backend's budget, so this
\* many iterations reach the break.
LoopBound(i) == i.step * Cardinality(Unhealthy(i))

LoopEnd(i) ==
  LET run[k \in 0..LoopBound(i)] == IF k = 0 THEN LoopStart(i) ELSE LoopBody(i, run[k - 1])
  IN  run[LoopBound(i)]

Evaluate(i) ==
  IF Holds(i) THEN [weights |-> i.current, changed |-> FALSE] ELSE
  LET end == LoopEnd(i)
  IN  IF end.shifted = 0 THEN [weights |-> i.current, changed |-> FALSE]
                         ELSE [weights |-> end.current, changed |-> TRUE]
=============================================================================
