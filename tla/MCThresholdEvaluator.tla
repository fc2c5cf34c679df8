------------------------ MODULE MCThresholdEvaluator ------------------------
(***************************************************************************)
(* Bounded instance of ThresholdEvaluator.                                 *)
(***************************************************************************)
EXTENDS ThresholdEvaluator

MCNames == 1..3

Wide  == [min |-> 0, max |-> 5]
Tight == [min |-> 1, max |-> 3]

\* The last is a spec the third backend was dropped from.
Bounds == {<<Wide, Wide, Wide>>, <<Tight, Tight, Wide>>, <<Tight, Wide, Tight>>, <<Tight, Wide>>}

\* Within bounds, outside them after an edit of the spec, and a status that
\* still names only the first two backends.
Currents == {<<2, 2, 1>>, <<3, 1, 3>>, <<0, 3, 4>>, <<4, 0, 1>>, <<2, 3>>}

Latency(m)   == [threshold |-> 2, samples |-> m]
ErrorRate(m) == [threshold |-> 3, samples |-> m]

\* Below, just above and well above the threshold, missing, NaN; one signal or
\* both, where the two can disagree about which backend is worst.
SignalSets ==
  {[latency |-> Latency(m)] : m \in [MCNames -> {1, 3, NaN}] \cup [2..3 -> {1, 3}]}
  \cup {[latency |-> Latency(m), errorRate |-> ErrorRate(n)] :
          m \in [MCNames -> {1, 4}], n \in [2..3 -> {2, 5}]}
  \cup {[s \in {} |-> 0]}

MCInputs == {[bounds |-> b, current |-> c, signals |-> s, step |-> n] :
               b \in Bounds, c \in Currents, s \in SignalSets, n \in {0, 1, 3}}
=============================================================================
