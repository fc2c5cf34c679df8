---------------------------- MODULE MCReconciler ----------------------------
(* Bounded instances of TrafficPolicyReconciler: one policy over two        *)
(* backends, whose weights move by single points around 50:50.              *)
EXTENDS ReconcilerClaims

CONSTANTS
  Kinds,   \* the specs tried, by name
  Slack    \* how far the bounds are from 50

Backend(n) == [name |-> n, min |-> 50 - Slack, max |-> 50 + Slack]

Measured ==
  [backends |-> <<Backend(1), Backend(2)>>,
   thresholds |-> [s \in {"latency"} |-> 2],
   paused |-> FALSE, cooldown |-> 0, step |-> 1, window |-> 1]

SpecOf ==
  [active     |-> Measured,
   paused     |-> [Measured EXCEPT !.paused = TRUE],
   invalid    |-> [Measured EXCEPT !.backends = <<[Backend(1) EXCEPT !.min = 100], Backend(2)>>],
   unmeasured |-> [Measured EXCEPT !.thresholds = [s \in {} |-> 0]],
   both       |-> [Measured EXCEPT !.thresholds = [latency |-> 2, errorRate |-> 2]],
   renamed    |-> [Measured EXCEPT !.backends = <<Backend(1), Backend(3)>>]]

MCSpecs == {SpecOf[k] : k \in Kinds}

Refs(w) == [exists |-> TRUE, weights |-> w]

\* A route that has never had weights.
PlainRoutes == {Refs(<<Unset, Unset>>)}

\* What a query may say: backend 1 is slow; either is, or Prometheus does not answer.
Slow1   == {<<3, 1>>}
Outages == {<<3, 1>>, <<1, 3>>, NoSource}
=============================================================================
