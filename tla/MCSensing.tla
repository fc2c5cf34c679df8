------------------------------ MODULE MCSensing ------------------------------
(* Bounded instance of Sensing: replies that fail in each of the ways the    *)
(* code tells apart, and vectors with and without what it must skip.         *)
EXTENDS Sensing

Plan(bs, sigs, w) == [backends |-> bs, signals |-> sigs, window |-> w]
Both == {"latency", "errorRate"}

MCPlans ==
  {Plan({1, 2}, Both, 2), Plan({1}, {"errorRate"}, 1), Plan({1, 2}, {"latency"}, 0)}

S(b, v) == [metric |-> [backend |-> b, pod |-> 7], value |-> v]
Unlabelled == [metric |-> [pod |-> 1], value |-> 9]

Vector(series) ==
  [received |-> TRUE, code2xx |-> TRUE, decodes |-> TRUE, status |-> "success",
   resultType |-> "vector", series |-> series]

Refusals ==
  {[Vector(<<>>) EXCEPT !.received = FALSE], [Vector(<<>>) EXCEPT !.code2xx = FALSE],
   [Vector(<<>>) EXCEPT !.decodes = FALSE], [Vector(<<>>) EXCEPT !.status = "error"],
   [Vector(<<>>) EXCEPT !.resultType = "matrix"]}

MCReplies ==
  Refusals \cup
  {Vector(<<>>),
   Vector(<<S(1, 4), S(2, 1)>>),
   Vector(<<S(1, NaN)>>),
   Vector(<<Unlabelled, S(3, Malformed), S(1, Inf), S(2, 2)>>),
   Vector(<<S(1, 7), S(2, Malformed)>>),
   Vector(<<S(1, 5), S(2, 3), S(1, 1)>>)}
=============================================================================
