----------------------------- MODULE Smoothing -----------------------------
(***************************************************************************)
(* internal/evaluator/smoother.go as operators over Smoother.data: a       *)
(* function from the policy keys in use to a function from backends to the *)
(* samples kept, oldest first.  A mean is exact: it is an integer number   *)
(* of 1/MeanUnit.                                                          *)
(***************************************************************************)
EXTENDS Integers, Sequences, FiniteSets, Functions

CONSTANTS
  MaxWindow,    \* NewSmoother's maxWindow: the samples kept per backend
  MeanUnit,     \* a common multiple of the lengths a mean is taken over
  NaN,          \* the float64 a query returns for 0/0
  Inf           \* the one it returns for 1/0

ASSUME WindowAssumption ==
  /\ MaxWindow \in Nat \ {0}
  /\ MeanUnit \in Nat \ {0}
  /\ \A k \in 1..MaxWindow : MeanUnit % k = 0

NoData == [k \in {} |-> <<>>]

Buffer(data, key, b) ==
  IF key \in DOMAIN data /\ b \in DOMAIN data[key] THEN data[key][b] ELSE <<>>

\* Mutant of LastSamples: one sample too many.
LastSamplesAndOne(buf, n) == SubSeq(buf, IF Len(buf) > n THEN Len(buf) - n ELSE 1, Len(buf))

LastSamples(buf, n) == SubSeq(buf, IF Len(buf) > n THEN Len(buf) - n + 1 ELSE 1, Len(buf))

\* Observe's writes, for every backend of a query's result at once: each append
\* touches its own backend's buffer only.
Record(data, key, values) ==
  LET seen == IF key \in DOMAIN data THEN DOMAIN data[key] ELSE {}
      kept == [b \in seen \cup DOMAIN values |->
                 IF b \in DOMAIN values
                   THEN LastSamples(Append(Buffer(data, key, b), values[b]), MaxWindow)
                   ELSE data[key][b]]
  IN  [k \in DOMAIN data \cup {key} |-> IF k = key THEN kept ELSE data[k]]

ClampedWindow(window) ==
  IF window < 1 THEN 1 ELSE IF window > MaxWindow THEN MaxWindow ELSE window

\* Observe's result for a backend whose sample has just been recorded.
Mean(data, key, b, window) ==
  LET slice == LastSamples(data[key][b], ClampedWindow(window))
  IN  IF NaN \in Range(slice) THEN NaN
      ELSE IF Inf \in Range(slice) THEN Inf
      ELSE SumFunction(slice) * (MeanUnit \div Len(slice))

ForgetKey(data, key) == [k \in DOMAIN data \ {key} |-> data[k]]
=============================================================================
