---------------------- MODULE TrafficPolicyReconciler ----------------------
(***************************************************************************)
(* The control loop of internal/controller/trafficpolicy_controller.go for *)
(* one TrafficPolicy and its HTTPRoute: the API server's objects, the      *)
(* informer caches that lag them, the work queue of controller-runtime,    *)
(* the one worker that runs Reconcile, the smoother and the gauges it      *)
(* feeds, and the people who edit the objects meanwhile.                   *)
(*                                                                         *)
(* Reconcile is three actions, split at its two API calls.  What it reads  *)
(* is local (the caches, its copy of the policy), so everything up to the  *)
(* route patch is one step; the route patch and what follows up to the     *)
(* status patch are the second; the status patch and the return the third. *)
(*                                                                         *)
(* Time is a tick per second.  A timestamp is the number of ticks since    *)
(* it, in every copy of the status that holds it; the API keeps whole      *)
(* seconds, so `at least cooldown seconds ago' is exact.                   *)
(***************************************************************************)
EXTENDS Evaluation, Allocation

CONSTANTS
  MaxWindow, MeanUnit, Inf,   \* see Smoothing
  Specs,             \* the TrafficPolicySpecs a user may write
  Routes,            \* the backendRef weights a user may give the HTTPRoute
  Readings,          \* what a query may return: samples for some of the backends,
  NoSource,          \* or NoSource, an error
  DefaultCooldown,   \* 30 s in the code
  MaxAge,            \* ages saturate here, past every cooldown
  PromptWatch,       \* the policy's events arrive within the second
  Env,               \* what the environment does: a subset of EnvActions
  MaxEdits,          \* changes by users
  MaxFaults          \* failed API calls and crashes

INSTANCE Smoothing

EnvActions == {"editSpec", "deletePolicy", "createPolicy", "editRoute", "apiFault", "crash"}
Absent     == [live |-> FALSE]
NoRoute    == [exists |-> FALSE]
NoWeights  == [n \in {} |-> 0]
Unset      == -1              \* a nil backendRef weight
Never      == -1              \* a nil timestamp

Phases == {"", "Stable", "Progressing", "Frozen", "Degraded"}

\* What the API server admits of a spec and of the backendRefs of a route.
IsSpec(s) ==
  /\ IsBackends(s.backends) /\ Named(s.backends) \subseteq Names
  /\ DOMAIN s.thresholds \subseteq SignalNames
  /\ \A sig \in DOMAIN s.thresholds : s.thresholds[sig] \in Int
  /\ s.paused \in BOOLEAN
  /\ s.cooldown \in 0..MaxAge
  /\ s.step \in Int /\ s.window \in Int

IsRoute(r) == r = [exists |-> TRUE, weights |-> r.weights] /\ DOMAIN r.weights \subseteq Names

ASSUME ReconcilerAssumption ==
  /\ Env \subseteq EnvActions
  /\ DefaultCooldown \in Nat \ {0}
  /\ MaxWindow \in Nat \ {0} /\ MeanUnit \in Nat \ {0}
  /\ MaxAge \in Nat /\ MaxAge >= DefaultCooldown
  /\ \A s \in Specs : IsSpec(s)
  /\ \A r \in Routes : IsRoute(r)
  /\ PromptWatch \in BOOLEAN
  /\ MaxEdits \in Nat /\ MaxFaults \in Nat

VARIABLES
  policy,      \* the TrafficPolicy on the API server
  cache,       \* the informer's copy of it
  route,       \* the HTTPRoute on the API server
  routeCache,  \* the informer's copy of it
  queue,       \* the work queue's item: "none", "ready", "delayed" (RequeueAfter), "backoff"
  delay,       \* ticks until a delayed item is ready
  pc,          \* the worker: "idle", "route" (patch under way), "status" (patch under way)
  job,         \* what the running Reconcile holds
  samples,     \* Smoother.data
  gauges,      \* backendWeight and policyPhase
  edits,       \* user changes left
  faults       \* failures left

server == <<policy, route>>
caches == <<cache, routeCache>>
work   == <<queue, delay>>
worker == <<pc, job>>
memory == <<samples, gauges>>
limits == <<edits, faults>>
vars   == <<policy, cache, route, routeCache, queue, delay, pc, job, samples, gauges, edits, faults>>

----------------------------------------------------------------------------
(* Policies                                                                *)

NewStatus ==
  [phase |-> "", weights |-> NoWeights, changeAge |-> Never, evaluatedNow |-> FALSE,
   why |-> "", obsGen |-> 0,
   conds |-> [gen |-> 0, ready |-> "", metrics |-> "", route |-> ""]]

NewPolicy(uid, s) == [live |-> TRUE, uid |-> uid, gen |-> 1, spec |-> s, status |-> NewStatus]

BoundsOf(bs) ==
  [n \in Named(bs) |-> LET b == CHOOSE b \in Range(bs) : b.name = n IN [min |-> b.min, max |-> b.max]]

StrategyCooldown(s) == IF s.cooldown <= 0 THEN DefaultCooldown ELSE s.cooldown
StrategyStep(s)     == IF s.step <= 0 THEN 20 ELSE s.step
StrategyWindow(s)   == IF s.window <= 0 THEN 3 ELSE s.window

\* Mutant of CooldownElapsed: off by one.
CooldownNearlyElapsed(p) ==
  p.status.changeAge = Never \/ p.status.changeAge + 1 >= StrategyCooldown(p.spec)

CooldownElapsed(p) ==
  p.status.changeAge = Never \/ p.status.changeAge >= StrategyCooldown(p.spec)

Older(age) == IF age = Never \/ age = MaxAge THEN age ELSE age + 1
AgedStatus(st) == [st EXCEPT !.changeAge = Older(@), !.evaluatedNow = FALSE]
Aged(p) == IF p.live THEN [p EXCEPT !.status = AgedStatus(@)] ELSE p

----------------------------------------------------------------------------
(* evaluateMetrics: sensing, smoothing, deciding                           *)

\* Signals are sampled in this order; the first failure ends the loop.
Preceding(sig) == IF sig = "latency" THEN {"latency"} ELSE SignalNames
Sampled(s, out) ==
  {sig \in DOMAIN s.thresholds :
     \A e \in Preceding(sig) \cap DOMAIN s.thresholds : out[e] # NoSource}
SourceFails(s, out) == Sampled(s, out) # DOMAIN s.thresholds

Key(sig) == <<"policy", sig>>
ForgetPolicyKey == <<"policy">>

Observe(data, s, out) ==
  LET first  == IF "latency" \in Sampled(s, out) THEN Record(data, Key("latency"), out["latency"]) ELSE data
  IN  IF "errorRate" \in Sampled(s, out) THEN Record(first, Key("errorRate"), out["errorRate"]) ELSE first

Smoothed(data, s, out) ==
  [sig \in DOMAIN s.thresholds |->
     [threshold |-> s.thresholds[sig] * MeanUnit,
      samples |-> [b \in DOMAIN out[sig] |-> Mean(data, Key(sig), b, StrategyWindow(s))]]]

DecisionInput(p, w, data, out) ==
  [bounds |-> BoundsOf(p.spec.backends), current |-> w,
   signals |-> Smoothed(data, p.spec, out), step |-> StrategyStep(p.spec)]

Proposal(p, w, data, out) == Evaluate(DecisionInput(p, w, data, out))

MetricsCondition(st, gen, value) == [st EXCEPT !.conds.metrics = value, !.conds.gen = gen]

\* The status and the phase evaluateMetrics leaves.
Evaluated(p, st, data, out) ==
  LET ok == MetricsCondition(st, p.gen, "True")
      d  == Proposal(p, st.weights, data, out)
  IN
  IF DOMAIN p.spec.thresholds = {} THEN
    [st |-> st, phase |-> "Stable"]
  ELSE IF SourceFails(p.spec, out) THEN
    [st |-> MetricsCondition(st, p.gen, "False"), phase |-> "Frozen"]
  ELSE IF ~CooldownElapsed(p) THEN
    [st |-> [ok EXCEPT !.why = "cooldown"], phase |-> "Stable"]
  ELSE IF ~d.changed THEN
    [st |-> [ok EXCEPT !.why = "hold"], phase |-> "Stable"]
  ELSE
    [st |-> [ok EXCEPT !.why = "shift", !.weights = d.weights, !.changeAge = 0],
     phase |-> "Progressing"]

----------------------------------------------------------------------------
(* Weighter.Apply                                                          *)

\* Mutant of Rewritten: the first backendRef only.
RewrittenFirst(r, w) ==
  [r EXCEPT !.weights = [n \in DOMAIN r.weights |-> IF n = 1 /\ n \in DOMAIN w THEN w[n] ELSE r.weights[n]]]

Rewritten(r, w) ==
  [r EXCEPT !.weights = [n \in DOMAIN r.weights |-> IF n \in DOMAIN w THEN w[n] ELSE r.weights[n]]]

----------------------------------------------------------------------------
(* The end of Reconcile: the status it wants and the patch that carries it *)

\* Mutant of SetReady: the generation of the object as it is by now, not of the copy
\* the verdict is about.
SetReadyOfLatest(st, gen, reason) ==
  [st EXCEPT !.conds.ready = reason, !.conds.gen = policy.gen, !.obsGen = policy.gen]

SetReady(st, gen, reason) == [st EXCEPT !.conds.ready = reason, !.conds.gen = gen, !.obsGen = gen]

Desired(j) ==
  LET gen == j.snap.gen
      s   == SetReady(j.st, gen, j.result)
  IN CASE j.result = "InvalidSpec"       -> [s EXCEPT !.phase = "Degraded"]
       [] j.result = "Paused"            -> [s EXCEPT !.phase = "Frozen"]
       [] j.result = "RouteMissing"      -> [s EXCEPT !.phase = "Degraded", !.conds.route = "False"]
       [] j.result = "RouteUpdateFailed" -> s
       [] j.result = "Reconciled"        ->
            [s EXCEPT !.phase = j.phase, !.conds.route = "True", !.evaluatedNow = TRUE]

\* The merge patch holds the fields that differ from the copy Reconcile started
\* from, and sets them on whatever the server holds by then: there is no
\* resourceVersion in it.
Differs(j, f) ==
  IF f = "changeAge" THEN j.phase = "Progressing" ELSE Desired(j)[f] # j.snap.status[f]
Merged(cur, j) == [f \in DOMAIN cur |-> IF Differs(j, f) THEN Desired(j)[f] ELSE cur[f]]

\* patchStatusIfChanged skips the call when nothing differs; the evaluation time
\* of the success path always does.
SkipsPatch(j) == j.result # "Reconciled" /\ Desired(j) = j.snap.status

\* Events: the reasons Reconcile has emitted by the time it patches the status.
WasPaused(p) == p.spec.paused
Emitted(j) ==
  LET entered(reason) == IF j.snap.status.phase # "Degraded" THEN {reason} ELSE {}
  IN
  (IF j.st.conds.metrics = "False" /\ j.snap.status.conds.metrics # "False" THEN {"MetricsUnavailable"} ELSE {})
  \cup (IF j.result \notin {"InvalidSpec", "Paused"} /\ WasPaused(j.snap) THEN {"Resumed"} ELSE {})
  \cup CASE j.result = "InvalidSpec"       -> entered("InvalidSpec")
         [] j.result = "Paused"            -> IF WasPaused(j.snap) THEN {} ELSE {"Paused"}
         [] j.result = "RouteMissing"      -> entered("RouteMissing")
         [] j.result = "RouteUpdateFailed" -> {"RouteUpdateFailed"}
         [] j.result = "Reconciled"        -> IF j.phase = "Progressing" THEN {"WeightsShifted"} ELSE {}

\* The gauges after Reconcile: weights only when the route was written.
NoGauges == [weights |-> NoWeights, phase |-> ""]
Recorded(g, j) ==
  [weights |-> IF j.result = "Reconciled"
                 THEN [n \in DOMAIN g.weights \cup DOMAIN j.st.weights |->
                         IF n \in DOMAIN j.st.weights THEN j.st.weights[n] ELSE g.weights[n]]
                 ELSE g.weights,
   phase |-> IF j.result = "RouteUpdateFailed" THEN g.phase ELSE Desired(j).phase]

----------------------------------------------------------------------------
(* Initially the policy has just been created and its watch event is queued *)

NoJob == [result |-> "none"]

Init ==
  /\ \E s \in Specs : policy = NewPolicy(0, s)
  /\ cache = policy
  /\ route \in Routes
  /\ routeCache = route
  /\ queue = "ready" /\ delay = 0
  /\ pc = "idle" /\ job = NoJob
  /\ samples = NoData
  /\ gauges = NoGauges
  /\ edits = MaxEdits /\ faults = MaxFaults

----------------------------------------------------------------------------
(* The worker                                                              *)

\* Reconcile runs on the item it takes off the queue.
Dequeue ==
  /\ pc = "idle" /\ queue = "ready"
  /\ queue' = "none" /\ delay' = 0

\* Mutant of ForgetPolicy: the gauges left behind.
ForgetSamplesOnly ==
  /\ Dequeue
  /\ ~cache.live
  /\ samples' = ForgetKey(samples, ForgetPolicyKey)
  /\ UNCHANGED <<server, caches, worker, gauges, limits>>

\* The policy is gone: the in-memory traces of it are dropped.
ForgetPolicy ==
  /\ Dequeue
  /\ ~cache.live
  /\ samples' = ForgetKey(samples, ForgetPolicyKey)
  /\ gauges' = NoGauges
  /\ UNCHANGED <<server, caches, worker, limits>>

Refuse(result) ==
  /\ job' = [snap |-> cache, st |-> cache.status, phase |-> "", result |-> result, body |-> NoRoute]
  /\ pc' = "status"
  /\ UNCHANGED <<server, caches, memory, limits>>

RejectSpec ==
  /\ Dequeue
  /\ cache.live /\ ~ValidSpec(cache.spec.backends)
  /\ Refuse("InvalidSpec")

HonorPause ==
  /\ Dequeue
  /\ cache.live /\ ValidSpec(cache.spec.backends) /\ cache.spec.paused
  /\ Refuse("Paused")

\* Apply's read: the cached route says whether a patch is needed, and carries the
\* rules the patch will send.
LookUpRoute(st, phase) ==
  LET body == IF routeCache.exists THEN Rewritten(routeCache, st.weights) ELSE NoRoute
      j(result) == [snap |-> cache, st |-> st, phase |-> phase, result |-> result, body |-> body]
  IN  \/ /\ ~routeCache.exists
         /\ job' = j("RouteMissing") /\ pc' = "status"
      \/ /\ routeCache.exists /\ body = routeCache
         /\ job' = j("Reconciled") /\ pc' = "status"
      \/ /\ routeCache.exists /\ body # routeCache
         /\ job' = j("none") /\ pc' = "route"

\* Mutant of Initialized: decide from the weights on the route, not from the published ones.
InitializedFromRoute(p) ==
  IF p.status.weights = NoWeights
    THEN {[p.status EXCEPT !.weights = w, !.why = "init"] : w \in InitialWeights(p.spec.backends)}
    ELSE {[p.status EXCEPT !.weights = routeCache.weights]}

Initialized(p) ==
  IF p.status.weights # NoWeights THEN {p.status}
  ELSE {[p.status EXCEPT !.weights = w, !.why = "init"] : w \in InitialWeights(p.spec.backends)}

\* Mutant of Active: the pause ignored.
ActiveWhilePaused(p) == p.live /\ ValidSpec(p.spec.backends)

\* validateSpec accepts the policy and it is not paused.
Active(p) == p.live /\ ValidSpec(p.spec.backends) /\ ~p.spec.paused

\* An active policy: initialise, sense, decide, and look the route up.
Steer ==
  /\ Dequeue
  /\ Active(cache)
  /\ \E st \in Initialized(cache), out \in [DOMAIN cache.spec.thresholds -> Readings] :
       /\ samples' = Observe(samples, cache.spec, out)
       /\ \E e \in {Evaluated(cache, st, samples', out)} : LookUpRoute(e.st, e.phase)
  /\ UNCHANGED <<server, caches, gauges, limits>>

Answered(result) == pc' = "status" /\ job' = [job EXCEPT !.result = result]

\* The merge patch replaces the whole list of rules.  It is not tied to the version
\* that was read; a route deleted meanwhile is a plain error, not NotFoundError.
PatchRoute ==
  /\ pc = "route"
  /\ \/ /\ route.exists
        /\ route' = job.body
        /\ Answered("Reconciled")
     \/ /\ ~route.exists
        /\ UNCHANGED route
        /\ Answered("RouteUpdateFailed")
  /\ UNCHANGED <<policy, caches, work, memory, limits>>

\* The call fails; the server may have carried it out all the same.
PatchRouteFails ==
  /\ pc = "route"
  /\ "apiFault" \in Env /\ faults > 0
  /\ faults' = faults - 1
  /\ \/ UNCHANGED route
     \/ route.exists /\ route' = job.body
  /\ Answered("RouteUpdateFailed")
  /\ UNCHANGED <<policy, caches, work, memory, edits>>

\* Mutants of Requeue: an error that is not retried, a success that is not repeated.
RequeueOnSuccess(kind, ticks) ==
  IF queue = "ready" \/ kind = "backoff" THEN UNCHANGED work ELSE queue' = kind /\ delay' = ticks
RequeueOnFailure(kind, ticks) ==
  IF queue = "ready" \/ kind = "delayed" THEN UNCHANGED work ELSE queue' = kind /\ delay' = ticks

\* An event that came in meanwhile has made the item ready: it stays so.
Requeue(kind, ticks) ==
  IF queue = "ready" THEN UNCHANGED work ELSE queue' = kind /\ delay' = ticks

Finished == pc' = "idle" /\ job' = NoJob /\ gauges' = Recorded(gauges, job)

\* Reconcile returned nil: it asks to be run again after the cooldown, unless the
\* policy is invalid or paused.
Succeed ==
  IF job.result \in {"Reconciled", "RouteMissing"}
    THEN Requeue("delayed", StrategyCooldown(job.snap.spec))
  ELSE IF job.result = "RouteUpdateFailed" THEN Requeue("backoff", 0)
  ELSE UNCHANGED work

PatchStatus ==
  /\ pc = "status"
  /\ \/ /\ SkipsPatch(job)
        /\ UNCHANGED policy
        /\ Succeed
     \/ /\ ~SkipsPatch(job) /\ policy.live
        /\ policy' = [policy EXCEPT !.status = Merged(@, job)]
        /\ Succeed
     \/ /\ ~SkipsPatch(job) /\ ~policy.live
        /\ UNCHANGED policy
        /\ Requeue("backoff", 0)
  /\ Finished
  /\ UNCHANGED <<route, caches, samples, limits>>

PatchStatusFails ==
  /\ pc = "status"
  /\ "apiFault" \in Env /\ faults > 0
  /\ faults' = faults - 1
  /\ ~SkipsPatch(job)
  /\ \/ UNCHANGED policy
     \/ /\ policy.live
        /\ policy' = [policy EXCEPT !.status = Merged(@, job)]
  /\ Requeue("backoff", 0)
  /\ Finished
  /\ UNCHANGED <<route, caches, samples, edits>>

Worker == ForgetPolicy \/ RejectSpec \/ HonorPause \/ Steer
          \/ PatchRoute \/ PatchRouteFails \/ PatchStatus \/ PatchStatusFails

----------------------------------------------------------------------------
(* Informers, queue and clock                                              *)

\* Every event of the policy's watch makes the item ready, whatever it waits for.
SyncPolicy ==
  /\ cache # policy
  /\ cache' = policy
  /\ queue' = "ready" /\ delay' = 0
  /\ UNCHANGED <<server, routeCache, worker, memory, limits>>

\* Nothing is queued for a route.
SyncRoute ==
  /\ routeCache # route
  /\ routeCache' = route
  /\ UNCHANGED <<server, cache, work, worker, memory, limits>>

DelayOver ==
  /\ queue = "delayed" /\ delay = 0
  /\ queue' = "ready"
  /\ UNCHANGED <<server, caches, delay, worker, memory, limits>>

BackoffOver ==
  /\ queue = "backoff"
  /\ queue' = "ready"
  /\ UNCHANGED <<server, caches, delay, worker, memory, limits>>

Tick ==
  /\ PromptWatch => cache = policy
  /\ policy' = Aged(policy)
  /\ cache' = Aged(cache)
  /\ job' = IF pc = "idle" THEN job ELSE [job EXCEPT !.snap = Aged(@), !.st = AgedStatus(@)]
  /\ delay' = IF delay > 0 THEN delay - 1 ELSE 0
  /\ UNCHANGED <<route, routeCache, queue, pc, memory, limits>>

----------------------------------------------------------------------------
(* Users and failures                                                      *)

UserEdit(kind) == kind \in Env /\ edits > 0 /\ edits' = edits - 1 /\ UNCHANGED faults

EditSpec ==
  /\ UserEdit("editSpec")
  /\ policy.live
  /\ \E s \in Specs \ {policy.spec} : policy' = [policy EXCEPT !.spec = s, !.gen = @ + 1]
  /\ UNCHANGED <<route, caches, work, worker, memory>>

DeletePolicy ==
  /\ UserEdit("deletePolicy")
  /\ policy.live
  /\ policy' = Absent
  /\ UNCHANGED <<route, caches, work, worker, memory>>

CreatePolicy ==
  /\ UserEdit("createPolicy")
  /\ ~policy.live
  /\ \E s \in Specs : policy' = NewPolicy(MaxEdits - edits', s)
  /\ UNCHANGED <<route, caches, work, worker, memory>>

EditRoute ==
  /\ UserEdit("editRoute")
  /\ \E r \in (Routes \cup {NoRoute}) \ {route} : route' = r
  /\ UNCHANGED <<policy, caches, work, worker, memory>>

\* A crash loses everything in memory; the new process lists both kinds and queues
\* the policies it finds.
CrashAndRestart ==
  /\ "crash" \in Env /\ faults > 0
  /\ faults' = faults - 1
  /\ pc' = "idle" /\ job' = NoJob
  /\ samples' = NoData /\ gauges' = NoGauges
  /\ cache' = policy /\ routeCache' = route
  /\ queue' = IF policy.live THEN "ready" ELSE "none"
  /\ delay' = 0
  /\ UNCHANGED <<server, edits>>

Machine     == SyncPolicy \/ SyncRoute \/ DelayOver \/ BackoffOver \/ Tick
Environment == EditSpec \/ DeletePolicy \/ CreatePolicy \/ EditRoute \/ CrashAndRestart

Next == Worker \/ Machine \/ Environment

\* The process runs: the worker, the watches, the queue's timers and the clock.
Fairness ==
  /\ WF_vars(Worker)
  /\ WF_vars(SyncPolicy) /\ WF_vars(SyncRoute)
  /\ WF_vars(DelayOver) /\ WF_vars(BackoffOver) /\ WF_vars(Tick)

Spec == Init /\ [][Next]_vars /\ Fairness

----------------------------------------------------------------------------
(* Properties                                                              *)

IsWeights(w) == DOMAIN w \subseteq Names /\ \A n \in DOMAIN w : w[n] \in 0..Full

IsStatus(st) ==
  /\ st.phase \in Phases
  /\ IsWeights(st.weights)
  /\ st.changeAge \in Never..MaxAge
  /\ st.evaluatedNow \in BOOLEAN
  /\ st.obsGen \in 0..(MaxEdits + 1)

IsPolicy(p) ==
  p = Absent \/ (p.live /\ p.spec \in Specs /\ p.gen \in 1..(MaxEdits + 1) /\ IsStatus(p.status))

\* Every variable has its type.
TypeOK ==
  /\ IsPolicy(policy) /\ IsPolicy(cache)
  /\ \A r \in {route, routeCache} : r = NoRoute \/ IsRoute(r)
  /\ queue \in {"none", "ready", "delayed", "backoff"} /\ delay \in 0..MaxAge
  /\ pc \in {"idle", "route", "status"}
  /\ pc = "idle" => job = NoJob
  /\ pc # "idle" => job.snap.live /\ IsPolicy(job.snap) /\ IsStatus(job.st)
  /\ \A k \in DOMAIN samples : \A b \in DOMAIN samples[k] : Len(samples[k][b]) <= MaxWindow
  /\ IsWeights(gauges.weights) /\ gauges.phase \in Phases
  /\ edits \in 0..MaxEdits /\ faults \in 0..MaxFaults

TotalOf(w) == SumFunction(w)
Legal(w, bs) ==
  /\ DOMAIN w = Named(bs)
  /\ TotalOf(w) = Full
  /\ \A n \in DOMAIN w : BoundsOf(bs)[n].min <= w[n] /\ w[n] <= BoundsOf(bs)[n].max

\* types.go "weights across backends always sum to 100": as long as edits leave one
\* valid list of backends, published weights are a legal allocation whenever the spec
\* is valid, whatever copies the field-by-field status patches were computed from.
WeightsLegal ==
  policy.live /\ policy.status.weights # NoWeights /\ ValidSpec(policy.spec.backends)
    => Legal(policy.status.weights, policy.spec.backends)

WeightsChange ==
  /\ policy.live /\ policy'.live
  /\ policy.status.weights # NoWeights /\ policy'.status.weights # policy.status.weights

\* The spec whose bounds, step and cooldown the weights keep to, where all specs share them.
Sole == CHOOSE s \in Specs : TRUE

Paced == INSTANCE PacedSplit WITH
  Bounds   <- BoundsOf(Sole.backends),
  Step     <- StrategyStep(Sole),
  Cooldown <- StrategyCooldown(Sole),
  Total    <- Full,
  weights  <- policy.status.weights,
  age      <- policy.status.changeAge

\* What the whole loop publishes, with its caches, queue, retries and crashes, is a paced
\* split between the backends: legal from the first publication on, and moved by
\* no more than a step, no sooner than the cooldown.
ImplementsPacedSplit == Paced!Spec

\* types.go "LastWeightChangeTime is when the controller last changed the applied weights"
\* is not so after a crash between the two patches: the route has moved, the status has not,
\* and the restart may move the route again within the cooldown.  It does not move it further
\* away, though: however often that happens, every weight on the route stays within a step of
\* the published one, since a restart decides from what is published and sees the route as it is.
AppliedNearPublished ==
  policy.live /\ route.exists /\ policy.status.weights # NoWeights =>
    \A n \in DOMAIN route.weights \cap DOMAIN policy.status.weights :
      LET step == StrategyStep(policy.spec)
      IN  route.weights[n] - policy.status.weights[n] \in -step..step

\* WeightsLegal for the weights on the wire: once Reconcile has written them, the route's
\* weights are an allocation, never a mixture of two.
RouteLegal ==
  route.exists =>
    \/ route \in Routes
    \/ \E s \in Specs : ValidSpec(s.backends) /\ Legal(route.weights, s.backends)

\* A policy nobody will look at again needs no looking at: with the worker idle, the
\* queue empty and the cache current, it is gone, or refused (paused or invalid) and
\* its status says so about its latest generation.
NeverForgotten ==
  pc = "idle" /\ queue = "none" /\ cache = policy /\ policy.live =>
    /\ ~Active(policy)
    /\ policy.status.obsGen = policy.gen
    /\ policy.status.phase = IF ValidSpec(policy.spec.backends) THEN "Frozen" ELSE "Degraded"

\* Nothing of a deleted policy is left on the dashboards once its deletion has been
\* seen, whichever Reconcile of it was under way or waiting to be retried.
GaugesDropped ==
  pc = "idle" /\ queue = "none" /\ cache = policy /\ ~policy.live => gauges = NoGauges

\* The policy there was at first: nobody has created another under its name.  The status
\* patch names no uid, so one that is under way at a deletion lands on the successor.
Original == policy.live /\ policy.uid = 0

PauseAcknowledged ==
  policy.live /\ policy.spec.paused /\ policy.status.phase = "Frozen" /\ policy.status.obsGen = policy.gen

\* types.go "Paused freezes the controller ... no weight changes are applied": once the status
\* acknowledges the pause of the latest generation no write of the controller to the route is
\* under way, so none follows.
PauseSticks == Original /\ pc = "route" => ~PauseAcknowledged

\* What the conditions say of the latest generation is true of it, although the patch
\* that wrote them was computed from a stale copy and merged into a newer object: the
\* verdict and the generation it is about are published together or not at all.
ReadyMatchesSpec ==
  Original /\ policy.status.conds.gen = policy.gen =>
    IF ~ValidSpec(policy.spec.backends) THEN policy.status.conds.ready = "InvalidSpec"
    ELSE IF policy.spec.paused THEN policy.status.conds.ready = "Paused"
    ELSE policy.status.conds.ready \in {"Reconciled", "RouteMissing", "RouteUpdateFailed"}

\* Every deleted policy's gauges are dropped in the end, a Reconcile that was under
\* way at the deletion included.
DeletedForgotten == (<>[](~policy.live)) => <>[](gauges = NoGauges)

\* A pause that stays is acknowledged in the end, whatever failed meanwhile.
PauseHonored ==
  (<>[](policy.live /\ policy.spec.paused /\ ValidSpec(policy.spec.backends))) => <>[]PauseAcknowledged

Carries(r, w) == \A n \in DOMAIN r.weights \cap DOMAIN w : r.weights[n] = w[n]

\* "Weights are the weights the controller most recently applied": while a policy is
\* active and its route exists, route and status keep coming to agree.
RouteConverges ==
  (<>[](Active(policy) /\ route.exists)) =>
    []<>(/\ policy.live /\ route.exists
         /\ policy.status.weights # NoWeights /\ Carries(route, policy.status.weights))
=============================================================================
