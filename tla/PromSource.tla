----------------------------- MODULE PromSource -----------------------------
(***************************************************************************)
(* internal/metrics/prometheus.go as operators: what PromSource.Sample     *)
(* makes of the reply to one instant query.  A reply is a record of what   *)
(* the code tests, in its order: whether a body came back, the class of    *)
(* the HTTP code, whether the body decodes, status and resultType, and the *)
(* series.  A series has labels and a value; Malformed stands for a value  *)
(* that is not a pair, not a string, or not a number.                      *)
(***************************************************************************)
EXTENDS Integers, Sequences, Functions

CONSTANTS
  BackendLabel,   \* PromSource.BackendLabel, "" for the default
  Malformed

DefaultBackendLabel == "backend"

\* queryResponse and what comes before it.
IsReply(r) ==
  /\ {r.received, r.code2xx, r.decodes} \subseteq BOOLEAN
  /\ r.status \in {"success", "error"}
  /\ r.resultType \in {"vector", "matrix", "scalar", "string"}
  /\ r.series \in Seq(Range(r.series))
  /\ \A i \in DOMAIN r.series : DOMAIN r.series[i].metric \subseteq STRING

Label == IF BackendLabel = "" THEN DefaultBackendLabel ELSE BackendLabel

\* The query produced a vector; everything else is an error of the source.
Accepted(reply) ==
  /\ reply.received
  /\ reply.code2xx
  /\ reply.decodes
  /\ reply.status = "success"
  /\ reply.resultType = "vector"

\* Series of other backends, and series without the label, are out of scope.
Concerns(series, wanted) ==
  /\ Label \in DOMAIN series.metric
  /\ series.metric[Label] \in wanted

BackendOf(series) == series.metric[Label]

NoSamples == [b \in {} |-> 0]

\* Mutant of Collect: the first series of a backend wins.
CollectFirst(out, series) ==
  [b \in DOMAIN out \cup {BackendOf(series)} |->
     IF b \in DOMAIN out THEN out[b] ELSE series.value]

\* out[name] = v: a later series of the same backend replaces an earlier one.
Collect(out, series) ==
  [b \in DOMAIN out \cup {BackendOf(series)} |->
     IF b = BackendOf(series) THEN series.value ELSE out[b]]
=============================================================================
