-------------------------- MODULE ReconcilerClaims --------------------------
(***************************************************************************)
(* What the README, the API types and the comments say of the control loop *)
(* and the code does not keep.  Each is a property some run refutes.       *)
(***************************************************************************)
EXTENDS TrafficPolicyReconciler

\* A Reconcile that has just returned.
Returned == pc = "status" /\ pc' = "idle" /\ faults' = faults

\* README.md "Paused: .spec.paused flipped from false to true": a Reconcile that
\* publishes a pause the status did not show yet announces it.
PauseAnnounced ==
  [][Returned /\ job.result = "Paused" /\ job.snap.status.phase \in {"Stable", "Progressing"}
       => "Paused" \in Emitted(job)]_vars

\* types.go "weights across backends always sum to 100" and the Ready message "Weights
\* are within declared bounds", of a policy whose latest generation is reported ready.
ReadyWeightsLegal ==
  policy.live /\ policy.status.obsGen = policy.gen /\ policy.status.conds.ready = "Reconciled"
    => Legal(policy.status.weights, policy.spec.backends)

\* smoother.go "Forget drops all samples for the given policy": once a deletion has
\* been reconciled nothing is kept of the policy.
SamplesForgotten ==
  pc = "idle" /\ queue = "none" /\ ~policy.live /\ ~cache.live => samples = NoData
=============================================================================
