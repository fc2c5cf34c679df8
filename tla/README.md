# trafficctl: specification, model checking and proofs

trafficctl is a Kubernetes controller. For each `TrafficPolicy` it samples latency and
error-rate queries, smooths them, decides how to move traffic weight from unhealthy to
healthy backends, writes the weights onto an `HTTPRoute` and publishes what it did in the
policy's status. This directory holds TLA+ modules of that program, TLC configurations
that check them on small instances, and proofs for TLAPS. Paths below are relative to
`src/`; `controller.go` is `internal/controller/trafficpolicy_controller.go`.

## 1. Inventory

| Component | State it keeps | Operations | Correct when |
|---|---|---|---|
| `ThresholdEvaluator` (`internal/evaluator/evaluator.go`) | none; a loop over local backend states | `Evaluate` | weight is conserved, bounds and step respected, worst donors first, the loop ends and leaves nothing movable behind |
| validation and initial weights (`controller.go` 399-474) | none | `validateSpec`, `initialWeights` | every accepted list gets exactly 100, in bounds, in proportion |
| `Smoother` (`internal/evaluator/smoother.go`) | samples per key and backend, under a mutex | `Observe`, `Forget` | a mean is the mean of the last window, memory is bounded |
| `TrafficPolicyReconciler` (`controller.go`) | none of its own between calls; the policy's status is its memory | `Reconcile`, `evaluateMetrics`, `smooth`, `patchStatusIfChanged` | published weights are an allocation, cooldown and step hold, a pause is honoured, no policy is forgotten, route and status come to agree |
| `HTTPRouteWeighter` (`internal/router/`) | none | `Apply` | only the named backendRefs change, all rules carry one whole allocation, unchanged routes are not written; a missing route is told apart from a failure |
| observability (`observability.go`) | gauges and counters of the process | `record*`, `forgetPolicyMetrics` | a deleted policy leaves no gauge |
| `PromSource`, `StaticSource` (`internal/metrics/`) | none | `Sample` | an upstream failure is an error, a missing backend is missing, a value belongs to the backend it is filed under |
| CLI (`internal/cli/`) | none | `list`, `status`, `freeze`, `resume` | freeze and resume touch only `.spec.paused`, and each acts as one step |
| manager (`cmd/main.go`) | the process: caches, queue, smoother | start | — |
| deployment, demo, e2e helpers | — | — | not modelled: nothing of the program's state |

How they interact. The API server's watch feeds two informer caches, of policies and of
routes; only policy events queue work (`For` in `SetupWithManager`, one worker per
controller). `Reconcile` reads the *caches*, calls the source, the smoother and the
evaluator in its own goroutine, and writes to the *server* twice: a merge patch of the route's
`spec.rules`, then a merge patch of the status. Neither carries a resourceVersion. Its own
status patch comes back through the watch and queues the policy again.

What is hard, then, is not the arithmetic alone but: decisions taken on stale copies;
field-by-field patches merged into newer objects; failures, and failures of calls that
the server carried out, between the two writes; crashes there; edits, pauses, deletions
and re-creations while a Reconcile is in flight; a cooldown measured on a copy; work
that only the next event or requeue brings back; several policies that write one route; and
a query of the second signal that fails after the first one's samples were recorded. `PROJECT.json` lists each hazard at its line.

## 2. Modules

| Module | Models |
|---|---|
| `WeightTransfer` | abstract: what one decision may do, in any order |
| `Evaluation` | `evaluator.go` as operators: verdicts, orders, picks, and `Evaluate` as a function |
| `GreedyAllocation` | the result of `Evaluate` written down directly, as a reference to compare the loop with |
| `ThresholdEvaluator` | the loop of `Evaluate`, one iteration per `Shift`; refines `WeightTransfer` |
| `ThresholdEvaluatorProofs` | its theorems |
| `SumTheorems` | lemmas about sums over finite sets |
| `WeightTheorems` | theorems about the operators of `Allocation` and about the function `Evaluate` of `Evaluation`, with no state machine in them |
| `Allocation` | `validateSpec` and `initialWeights` as operators |
| `InitialAllocation` | the same as a machine, one action per early return and loop iteration |
| `InitialAllocationProofs` | its theorems |
| `Smoothing` | `Smoother.data` and its operations as operators |
| `PromSource` | `PromSource.Sample`'s tests of a reply and its loop body as operators |
| `Sensing` | rounds of the sensing half of `evaluateMetrics`: query, reading of the reply, smoothing, signal by signal; composes `PromSource` and `Smoothing`, beside the full history of answers |
| `SensingProofs` | its theorems |
| `TrafficPolicyReconciler` | the control loop with caches, queue, clock, users and failures; uses `Evaluation`, `Allocation`, `Smoothing`; refines `PacedSplit` |
| `TrafficPolicyReconcilerProofs` | its theorems |
| `PacedSplit` | abstract: what the weights of a status promise while the spec stays |
| `ReconcilerClaims` | statements of the documentation the control loop does not keep |
| `RouteWeighter` | `Apply` over several rules of a route that several policies name: cached read, patch, the watch behind it, users, late and failed requests |
| `RouteWeighterProofs` | its theorems |
| `PauseSwitch` | abstract: freeze and resume as one step on one switch |
| `TrafficctlCLI` | `togglePaused`: read, early returns, merge patch, several users; refines `PauseSwitch` |
| `TrafficctlCLIProofs` | its theorems |
| `MC*` | bounded instances |

Operators whose comment says *mutant* (`GiveBelowMinimum`, `ServeUnsorted`, ...) are used by
nothing. Each is a plausible slip in the code that, put in the place of the definition below
it, makes the property it is meant for fail; `PROJECT.json` pairs them.

### The control loop

`Reconcile` is cut at its two API calls. All it reads before the route patch is local, so
one step takes the item off the queue and goes up to that patch: `ForgetPolicy` (not found in
the cache), `RejectSpec`, `HonorPause`, or `Steer` (initialise, sample and smooth signal by
signal up to the first failure, decide, compare with the cached route). `PatchRoute` /
`PatchRouteFails` are the second step, `PatchStatus` / `PatchStatusFails` the third, with the
requeue or backoff. A call may fail with or without having been carried out. The
environment edits, deletes and creates the policy, edits or deletes the route, and
`CrashAndRestart` empties the process. `job` is the local state of the running Reconcile: the
copy it started from, the status it has built, and the route body it will send.

| Variable | Code |
|---|---|
| `policy`, `route` | the objects on the API server |
| `cache`, `routeCache` | the informers behind `mgr.GetClient()` |
| `queue`, `delay` | the controller's queue: ready, waiting for `RequeueAfter`, or in backoff |
| `pc`, `job` | the worker and `policy`, `original`, `phase` of `Reconcile` |
| `samples` | `Smoother.data` |
| `gauges` | `backendWeight`, `policyPhase` |
| `edits`, `faults` | bounds of the instance, not in the code |

Abstractions: a tick is a second, and timestamps are ages, because the API keeps whole
seconds; ages saturate at `MaxAge`, past every cooldown of the instance.
`lastEvaluationTime` is only "this second or earlier" (`evaluatedNow`): that decides whether
a patch changes the object, and so whether an event comes. Conditions are one field,
because a JSON merge patch replaces a list as a whole; `lastTransitionReason` is one of
four values; messages are left out. Names and samples are integers, or `NaN`. Means and
scores are exact; where float64 rounding could decide a tie (`Before`), both outcomes are
allowed. Sums of finite samples that overflow, counters and a change of `routeName` are left
out. This module has one rule per route, one policy per route and no request that lands
after its sender has gone on, and its caches jump to the latest version: `RouteWeighter` has
those cases. Its samples are finite or `NaN`; `Sensing` has positive infinity as
well. A reply of `-Inf`, which Go parses too, is left out of both.

### Sensing

A round of `evaluateMetrics` is cut at its queries, so that the process may stop between two of
them, and at the series of a reply. `BeginRound` takes the spec of that
moment; per signal `QueryAnswered` or `QueryFails` (any reply one of the code's tests
refuses), then `ReadSeries` for each series in the order of the vector, `ReadMalformed` for the one
that ends the query with an error, and `RecordSamples`, which is `Observe` for each backend. A
round ends `ready` for the evaluator or `frozen`. `Forget` calls with the key the controller
uses. `history` is no state of the program: it is what the averages are compared with.

### The shared route

The worker of the controller takes a policy off `queue`, decides (`decided`, at most
`MaxShifts` changes of mind), reads `cache` and compares: `BeginApply`. If anything changed it
sends the whole list of rules: `Patch`, or `PatchFails`, where the server did carry it out,
did not, or will later (`late`, `LateRequestLands`). Every write of the server appends a version
to `pending`, which `Deliver` moves to `cache` in order. At any
moment each policy is in exactly one of `queue`, `waiting` and `job`, which `TypeOK` says.
`asked` is history. Rules are sequences of sequences of (name, weight); other fields of a rule
travel with it, as the weight of a backendRef no policy names.

### The commands

`togglePaused` is `Get` (or `GetMissing`, `GetFails`, `NothingToDo`) and `Patch` (or
`PatchFails`). The patch is the difference between the copy and its modification, merged into what
the server holds by then: `Merge`. It is computed field by field from the two objects, rather than as "sets
paused", so that the properties can tell a merge patch from an update. A patch given up by its sender may land later: `StrayLands`.

## 3. Runs

| Run | Checks | Bounds |
|---|---|---|
| `evaluator` | type, `MovesWithinBounds`, `StepCapped`, `WorstFirst`, `ChangedIsHonest`, `TotalConserved`, `ResultIsGreedy`, `ImplementsTransfer`, `Terminates` | three backends; weights inside and outside the bounds, and statuses that miss a backend or name one the spec has dropped; one or two signals; samples below, above, missing, NaN; steps 0, 1, 3 |
| `initial` | `SumsToFull`, `WithinBounds`, `Proportional`, `LoopIsInitialWeights` | all lists of two or three backends over eleven ranges that make every kind of remainder, plus lists to reject |
| `sensing` | `SampleKeepsContract`, `AllOrNothing`, `MeanOfRecent` | three rounds, two policies, cap 2, plans of one and two signals and windows below, at and above the cap; replies refused, malformed, with series to skip and to merge, with NaN and infinity |
| `edits` | `WeightsLegal`, `RouteLegal`, `PauseSticks`, `ReadyMatchesSpec`, `NeverForgotten`, `GaugesDropped` | three edits, deletions or creations, among active, paused and invalid specs, one failure or crash, weights 48 to 52 |
| `cooldown` | `AppliedNearPublished`, `ImplementsPacedSplit` | specs with one signal, with two and with none, outages, two crashes, cooldown of two ticks, a prompt watch, weights 48 to 52 |
| `liveness` | `PauseHonored`, `RouteConverges`, `DeletedForgotten` | one edit, deletion or change of the route, one failed call |
| `weighter` | `AllocationsWhole`, `SeenEditsStay`, `SharedRouteSettles`, `WritesEnd` | two policies that share no backend, a cache up to two versions behind, one change of mind, two edits of manifests that differ in the weights they give, one failed or late call or restart |
| `cli` | `AgreementHolds`, `EditsKept`, `ImplementsSwitch` | two users, any number of commands each, two writes by other hands, two failed calls |
| `claim_*` | one statement of the documentation each, refuted | see section 4 |

Why the bounds are enough to be interesting. Three backends give ties, several donors, and a
donor that runs dry before another. Around 50:50 a decision moves one point, so a stale
copy, a half-done write and the next decision all carry different weights. Three user
actions reach pause, resume, pause and delete, create, delete; each may fall anywhere in
any Reconcile. One failure is enough to leave route and status apart, and the following
Reconcile then works from that state. In `weighter` one policy can be two versions behind while
the other's patch and an edit are pending, so a patch made of a copy that both have left behind is
reached; a second order of the queue brings in the other policy first. In `sensing` three
rounds with a cap of two make every buffer overflow once, and let a failed second signal put the two
windows of one policy out of step.

`AppliedNearPublished` and `ImplementsPacedSplit` need two assumptions the code does not enforce: the
policy's events reach the cache within a second (`PromptWatch`), and API calls do not fail after having been
carried out. Crashes are allowed at any step. With `PromptWatch = FALSE` both fail (section 4).
`ImplementsPacedSplit` is about the status: the published weights are a legal split from the first one on, two
in a row differ by no more than a step, and no sooner than a cooldown. The route moves before the status
says so, and after a crash between the two patches it may move again within the cooldown, since a
restart decides from the status as it was. `AppliedNearPublished` is what is left then: two crashes with two decisions in opposite
directions, and any copy of the route, leave every weight on the wire within a step of the published one. Two crashes are what
it takes for the route to move three times on one status.

`WeightsLegal` speaks of policies whose edits leave the valid list of backends alone;
`claim_bounds` shows what happens otherwise. `PauseSticks` and `ReadyMatchesSpec` speak of a policy whose name has
not been used before (`Original`), although the run creates it again: what an old Reconcile does to a new policy is in section 4. `ReadyMatchesSpec` is about the
condition and the generation it carries; phase and `observedGeneration` may be those of another verdict (section 4 as well).
In this module a route patch is carried out while its sender waits, or never: one that lands after a timeout or a crash is
`RouteWeighter`'s, which has no pause, so `PauseSticks` does not say that a pause survives such a patch.

`AllocationsWhole`, `SharedRouteSettles` and `WritesEnd` are about policies that share no backend
(`Apart`); two that do take turns at its weight. `SeenEditsStay` compares what the copies of the route, the server's, the cache's, those on their way
and those in requests, hold for backendRefs that no policy names: without a user's hand the set of these versions
only shrinks. So an edit may be undone by a copy made before it, which `claim_untouched` shows, but not once all copies have it.
`RouteConverges` asks for agreement again
and again, not for ever, because somebody else may write the route. `SharedRouteSettles` and `WritesEnd` ask for
rest for ever, which `MaxShifts`, `MaxEdits` and `MaxFaults` make meaningful: after the last of each
only the policies are left to disturb each other. `AgreementHolds` is about commands alone and
so says nothing once another hand has written; an abandoned patch that lands late is such a hand.

Fairness. `Fairness` of `TrafficPolicyReconciler` is weak fairness of the worker as a whole,
of both watches, of the two timers and of the clock: the manager runs one goroutine that takes
items while there are any, client-go reconnects its watches, and a timer that is set fires.
`RouteWeighter` assumes the same of its worker, of the watch and of the timer of each
policy; a late request need never land. The environment has none: users and failures owe nothing. `ThresholdEvaluator` is a plain
call that runs until it returns, hence `WF_vars(Next)`. Deadlock is not checked because every one of these
machines may stop: a call returns, a deleted policy needs nothing more.

## 4. What does not hold

Each of these is a run whose counterexample TLC prints.

- `claim_pause_event`: `wasPaused` is read from a copy of the same object whose `Paused` is
  tested (`controller.go` 113, 130, 140), so neither `Paused` nor `Resumed` is ever emitted,
  although README.md 170-171 announces both.
- `claim_bounds`: weights in the status outlive the list of backends they were computed for
  (`controller.go` 144). After a rename the policy is reported `Ready`, "Weights are within
  declared bounds", with weights of the old backend.
- `claim_untouched`: the merge patch sends the whole list of rules as the cache had it (`httproute.go` 84), so
  a newer edit of a backendRef that no policy names is set back to the old weight, although line 43 has it "left
  untouched" and `router.go` 33-35 "out of scope". `SeenEditsStay` bounds the damage.
- `claim_forget`: `Forget` gets `namespace/name` (line 105), samples are kept under
  `namespace/name#signal` (line 311): nothing is ever forgotten.

Met while modelling, and not stated by a run here:

- A Reconcile that starts before its predecessor's status patch has come back through the watch
  changes the weights again at once (`controller.go` 275): `ImplementsPacedSplit` with
  `PromptWatch = FALSE`. `DueToTheCopy` (section 5) holds even then.
- A crash between route patch and status patch loses the change time (`controller.go` 204). The restart may move the
  applied weights again at once, although `lastWeightChangeTime` is "when the controller last changed the applied
  weights" (`types.go` 191).
- Two policies that name the same backend of one route set its weight in turns, and the route adds up to
  100 for neither. Nothing refuses the second policy.
- `Apply` compares names only (`httproute.go` 70): a backendRef of the same name in another
  namespace gets the weight as well, although line 31 says "within the same namespace as
  the route".
- A patch of freeze or resume that its sender has given up may land after a later command and
  undo it, and one made of a policy deleted meanwhile lands on the one created under its name.
- Windows count samples, not time: a second signal that fails leaves the first one's window a
  sample ahead, and samples from before an outage or a pause are averaged with today's.
- NaN in a window makes the mean NaN, NaN exceeds no threshold, and the backend
  counts as healthy (`smoother.go` 79, `evaluator.go` 189); the README's own error-rate
  query yields NaN for a backend without traffic.
- When the patch of a decision fails, its weights are published all the same (line 178),
  a later Reconcile writes them, and no `WeightsShifted` is emitted. The same goes
  for a missing route (line 172), where `status.weights` is "applied" nowhere.
- A patch leaves out fields equal to the stale copy's: pausing again while the resumed
  generation's status is written gives `observedGeneration` of the pause beside the phase
  `Progressing` until the next event.
- A status patch in flight when its policy is deleted lands on a policy created under the
  same name, with the verdict and the weights of the old one.
- A route patch given up by its sender, or under way when the manager stops, may land after a pause has been
  acknowledged.
- `lastTransitionReason`, documented as the most recent weight change's, is overwritten by
  "Within cooldown" (line 276); a paused policy samples nothing, although `types.go` 47 says
  metrics are still recorded; `RouteUpdateFailed` is emitted on every retry; the gauge
  of a backend removed from the spec stays until the policy is deleted.

## 5. Proofs

Every invariant, action property and refinement that a passing run checks is also a theorem,
for every value of the constants that the assumptions below admit. The runs check each of them
on a small instance; the names of the properties are those of section 3.

### What is assumed

The assumptions on constants are the types of the program's data, and TLC evaluates them on
every run. `NamesAreOrdered`: names are integers, standing for strings in their order.
`InputsAreTyped`, `SpecsAreTyped`: the Go types of an input and of a list of backends, and that maps and
lists are finite. `SensingAssumption`: a reply has the shape the client decodes, a value is an integer,
`NaN`, `Inf` or unreadable, and a plan has at least one of the two signals. `CLIAssumption`: bounds are
numbers. `WeighterAssumption`: finitely many policies, each with
allocations of percentages to one set of backends; the sets may overlap. `ReconcilerAssumption`: specs and routes have their types (a threshold is a
number), the cap of the windows, the unit of the means and the default cooldown are positive, and ages are counted up to the
default cooldown at least; a declared cooldown is in range because `IsSpec` says so.

Two limits are part of the properties instead: `PauseSticks` and `ReadyMatchesSpec` are about a policy whose
name has not been used before, `AllocationsWhole` about a policy that shares no backend with another. The reconciler's theorems that need more say it in their ASSUME, and the runs `edits` and
`cooldown` meet those hypotheses (`NumericReadings` is met by all runs of the reconciler):

| Hypothesis | Says | Without it |
|---|---|---|
| `OneValidList` | edits may pause, invalidate or retune a policy, but its valid specs share one list of backends | weights outlive their list: `claim_bounds` |
| `RoutesMatch` | what users write on the route names the policy's backends | `Apply` completes nothing: a backend without a backendRef gets no traffic |
| `Undisturbed` | the watch is prompt, and a crash is all that the environment does | a Reconcile acts on a copy from before the last change, so neither pace nor distance is kept: section 4 |
| `NumericReadings` | a query answers with numbers or NaN | means and scores of infinities are not given a value by the model |
| `SamePace` | all specs are valid, with one list, step and cooldown | the abstract specification has one pace |

### Decision loop: `ThresholdEvaluatorProofs`

| Theorem | Statement |
|---|---|
| `TypeCorrect` | `Spec => []TypeOK` |
| `BoundsRespected` | `Spec => []MovesWithinBounds` |
| `StepRespected` | `Spec => []StepCapped` |
| `DonorsInOrder` | `Spec => []WorstFirst` |
| `VerdictHonest` | `Spec => []ChangedIsHonest` |
| `TotalKept` | `Spec => []TotalConserved` |
| `LoopIsGreedy` | `Spec => []ResultIsGreedy` |
| `IterationsBounded` | `Spec => []ShiftsInBound` |
| `LoopImplementsTransfer` | `Spec => ImplementsTransfer` |

There are two inductive invariants. `IInv` is the type, the bounds, the accounting, `WorstFirst` and
`ShiftsShow`. `StepCapped` holds its own accounting (what a backend has moved and what is left
of its budget make the step), which is preserved because a backend is donor or recipient and
never both: `VerdictsDisjoint`. `WorstFirst` says that a backend which has given proves every
worse one exhausted; a shift preserves it because an exhausted donor stays so (it neither
gains weight nor budget) and `PickDonor` skips nobody who is worse. `ShiftsShow` is what
`ChangedIsHonest` needs, because the verdict is taken from the counter and not from the weights.
`OrdersTotal` is the only fact about the orders. `ShiftEffect` states once what a
shift does to each backend. The refinement maps each `Shift` to a `Move` and each `Return` to a stutter.

`RunInv` rests on `IInv` and says that the variables are those of an iteration of the function
`Evaluate`, which is looked up in a function over `0..LoopBound` (`FollowsRun`), that this iteration has
made `Progress`, and that the loop ended because nothing was due or one side was exhausted (`Ended`).
`LoopIsGreedy` then follows from what is proved of the function: its last iteration is exhausted. `TotalKept` sums over the
declared backends, before and after; a point of a backend that the spec no longer names is in neither sum, since
the loop has no state for that backend (`evaluator.go` 157).
So does `IterationsBounded`, whose property is stated in the proof module: the loop never shifts
more points than the unhealthy backends' step budgets allow. That is the safety half of `Terminates`; that each
iteration is taken is left to TLC.

### The function `Evaluate`: `WeightTheorems`

| Theorem | Statement |
|---|---|
| `EvaluateIsGreedy` | for every `i` with `IsInput(i)`: `Evaluate(i)` leaves the weights alone if it returns early or no point can be moved, and is `GreedyWeights(i)` otherwise |

Machine and function are linked by this closed form, which `LoopIsGreedy` has of the one and `EvaluateIsGreedy` of the other. It is about all inputs of the type, not only those of a machine, which is what the
reconciler needs: its inputs are made of whatever a stale copy and the smoother hold. `Side` is
one side of a transfer, for any set, strict order and capacities: nobody spends more than its capacity, nobody
spends before those ahead of it are through, and the sum of what is spent is given. `Progress` says that both sides of
the loop are such sides with as many points as there were shifts. `ProgressStarts` and
`ProgressKept` make it an invariant of the iterations, `ProgressBounded` bounds their number by `LoopBound`, and a
smallest counterexample among the iterations (`LoopProgress`) gives that the last one is exhausted. `ExhaustedIsGreedy`:
an exhausted side has spent its capacities, so the number of shifts is `Moved`; and on either side a member that
has spent something has all those ahead of it through, one that is not through has all those behind it untouched, which
determines what each has spent (`SpentInOrder`, `SideServed`). No induction over the list is needed,
and nothing is assumed about termination.

### First allocation: `InitialAllocationProofs`

| Theorem | Statement |
|---|---|
| `TypeCorrect` | `Spec => []TypeOK` |
| `WholeGiven` | `Spec => []SumsToFull` |
| `BoundsKept` | `Spec => []WithinBounds` |
| `SharesProportional` | `Spec => []Proportional` |
| `LoopIsOperator` | `Spec => []LoopIsInitialWeights` |

The invariant's part that matters is `Accounted`: each backend has its minimum, its share rounded down
and one point more if it has been served; the points given and the points left make the
leftover of the division; and nobody served has a smaller fraction than somebody waiting. The loop
does not run dry early, nor exceed anyone's maximum, because the leftover is the sum of
the fractions divided by the headroom, hence at most the number of backends that have a fraction,
and such a backend's share rounded up still fits in its headroom: `LeftoverFits`, `SharesFit`.

`SumTheorems` and `WeightTheorems` hold the lemmas. The library defines a sum by recursion over the set, and an
induction over sets is not available here, since it takes an operator as a parameter. Each
lemma is proved by a smallest counterexample instead (`MinimalSubset`, `MinimalNumber`, from the
library's facts on well-founded orders, which take sets): the counterexamples of a lemma form a set of subsets,
so there is a smallest, and one step of the sum leads from it to a smaller one. `LoopRuns` treats
the iterations of `Evaluate` the same way, as `LoopProgress` does, and `EvaluateKeeps` gives the reconciler what it needs of a
decision: every weight stays within any range that encloses the start and the bounds, the
sum stays, and no weight moves by more than the step.

### Control loop: `TrafficPolicyReconcilerProofs`

| Theorem | Under | Statement |
|---|---|---|
| `TypeCorrect` | | `Spec => []TypeOK` |
| `NobodyForgotten` | | `Spec => []NeverForgotten` |
| `GaugesOfDeletedDropped` | | `Spec => []GaugesDropped` |
| `DueToTheCopy` | | `Spec => ChangesAreDue` |
| `ComputedWeightsLand` | `NumericReadings` | `Spec => WeightsAreComputed` |
| `PauseLasts` | | `Spec => []PauseSticks` |
| `VerdictIsRight` | | `Spec => []ReadyMatchesSpec` |
| `PublishedWeightsLegal` | `OneValidList` | `Spec => []WeightsLegal` |
| `WrittenRouteLegal` | `OneValidList`, `RoutesMatch` | `Spec => []RouteLegal` |
| `AppliedStaysNear` | `Undisturbed` | `Spec => []AppliedNearPublished` |
| `PublishesPacedSplit` | `SamePace`, `Undisturbed` | `Spec => ImplementsPacedSplit` |

`IInv` has four parts, the first of which is the type, stronger than `TypeOK` because a status has to stay
a status through `Desired` and `Merged`. `OrderInv`: the cache is never ahead of the server. `JobInv`: the verdict of the
running Reconcile is the one its copy of the spec calls for, and while nothing has queued the
policy again that copy is the cache's. `SettledInv` is what `NeverForgotten` needs: an idle
worker with an empty queue means that the cached policy calls for nothing more, or that it is
behind and an event is coming. It is preserved by a status patch because that patch either
changes the object, and so makes an event, or finds it as desired.

`DueToTheCopy` is the cooldown without hypotheses, and its property is stated in the proof module: whatever
happens around it, published weights change only by a status patch, and to the copy of the policy
it was made from the change was due and no larger than a step. What is left open is how old that copy
is, which is where `PublishesPacedSplit` needs `Undisturbed`. It follows from `JobInv`, which keeps what a
decision said of its copy while both grow older.

`ComputedWeightsLand` says what the weights are, where `DueToTheCopy` says when they may change and how far, again with
no restriction on the environment: weights that are published are, as a whole, what the two algorithms of
the code make of *one* copy of the policy. They are the greedy allocation from that copy's weights, under its
bounds, step and thresholds, on the means of the samples the smoother holds at that moment, or an initial
allocation of that copy. A patch that is computed from a stale copy, merged field by field, retried or
overtaken by an edit never publishes a mixture. The invariant is `ChosenInv`, that the job's weights come of its copy and of
`samples`, which nobody touches between the decision and the patch; a refusal decides nothing and its patch
carries no weights. It composes the sensing half with the decision: `ObserveFills` (a round
without failures leaves a sample for each reported backend), `MeanTyped`, `DecisionInputTyped` (what is handed to the evaluator is
an `IsInput`), and `EvaluateIsGreedy`. The property is stated in the proof module.

On top of `IInv` the others have an invariant of their own. `ReadInv`, of a policy whose name is new, which it has been in all
earlier states if it is in this one (`OriginalBefore`): copies are of this or earlier generations,
and the published verdict is about no later one than the copy in the worker's hands, so that two
copies of one generation agree on the spec. `WeightsInv` and `RouteInv`: every copy of the weights, in the
status, the cache, the job, the route and the patch under way, is an allocation of some valid
spec, and `OneValidList` makes it one of this spec. `PacedInv`: the worker never holds a
copy from before the last change. From it a change of weights implies that the cooldown, measured on
the copy, has also passed for the object, and each status patch maps to a step of `PacedSplit`.
`NearInv` adds the route: it is near the published weights and, once the worker has written or read it, near those about to be published;
and the route and its copy differ by the last change at most, so that one of them carries the weights a
restart decides from (`Linked`). That is why a restart cannot add a second step to the first:
it moves the published weights by one step, and writes the result whole.

### Shared route: `RouteWeighterProofs`

| Theorem | Statement |
|---|---|
| `TypeCorrect` | `Spec => []TypeOK` |
| `NoMixedAllocation` | `Spec => []AllocationsWhole` |
| `EditsStay` | `Spec => SeenEditsStay` |

`AllocationsWhole` is not inductive, because a patch is the whole list of rules as some stale copy had
it. `CopiesInv` asks the same of every copy that can still reach the route: the route, the cache, each
pending version, the request under way and the late one. In each of them the backends of every policy that shares
none carry one allocation it was asked to apply, or the weights of one manifest.
`ApplyKeeps` shows that rewriting a legitimate list for one policy keeps it so for these, as
their backends are not the writer's, whatever the others overlap. The rest is `DecidedInv`, `LagInv`, and `PlacesInv`: queue, timers
and the worker's hands partition the policies. `EditsStay` uses the types in that invariant: a list rewritten with an
allocation of any policy has the same rest (`RewrittenRest`), so that every copy a step makes has the
rest of one that was there (`RestsKept`).

### Sensing: `SensingProofs`

| Theorem | Statement |
|---|---|
| `TypeCorrect` | `Spec => []TypeOK` |
| `SampleContract` | `Spec => []SampleKeepsContract` |
| `NoSignalAlone` | `Spec => []AllOrNothing` |
| `MeansAreRecent` | `Spec => []MeanOfRecent` |

`RoundInv` relates the signals read and those to do with the plan: `NoSignalAlone` follows. `ReadInv`
is the loop invariant of the reading: what has been read so far is the last value of each wanted backend
among the series passed. `HistoryInv` says that a buffer is the end of its history, whatever windows
were asked for in between, because `Observe` trims to the cap and averages the end of what it
kept, and the end of an end is an end: `LastOfLast`, `LastOfAppended`. `MeansInv` carries the
means of the signals read earlier in the round.

### Commands: `TrafficctlCLIProofs`

| Theorem | Statement |
|---|---|
| `TypeCorrect` | `Spec => []TypeOK` |
| `UsersAgree` | `Spec => []AgreementHolds` |
| `EditsAreKept` | `Spec => EditsKept` |
| `SwitchImplemented` | `Spec => ImplementsSwitch` |

`TypeOK` is inductive with its last conjunct, that a patch under way
differs from its copy: `Get` is only reached past the early return. From it a patch, whatever it is
merged into, sets the switch to `want` and leaves the rest, because the copy and its modification agree there:
that is `EditsAreKept`, and maps `Patch` to `Set`. `AgreementHolds` is then inductive given `TypeOK`: the
command that makes the last user agree either set the switch or saw it set, and the others, being done,
have nothing under way. `Get` and `GetFails` map to a stutter and a failure; `NothingToDo` maps to a
`Set` that changes nothing, which is why the command is one step at *some* moment of the call and not
always at its patch.

### Only model-checked

The liveness properties: `Terminates` (but see `IterationsBounded`), `PauseHonored`, `RouteConverges`, `DeletedForgotten`,
`SharedRouteSettles` and `WritesEnd`. They need fairness, and with it ENABLED, which the prover does not
handle. The statements of section 4 are refuted by a counterexample, which is TLC's to
find.

## 6. Not modelled

- Two managers that reconcile at once: leader election is off unless the flag asks for it, and the
  manifests ask for it. A hand-over is a restart whose last request may still be on its way.
- `list` and `status` of the CLI read and print. `StaticSource` is a table of answers for tests.
- Counters of `observability.go` only grow and nothing reads them. The event recorder's adapters pass
  a call on; which events a Reconcile emits is `Emitted`.
- Flags, TLS, certificates, health checks, registration, generated deep copies, manifests, demo and
  end-to-end helpers.

## 7. Plan

1. What a policy created under an old name can rely on: that a wrong verdict does not outlast the next
   Reconcile's patch. `PauseSticks` and `ReadyMatchesSpec` leave it out (`Original`).
2. How old the copy of `DueToTheCopy` may be: the changes the server has seen since, counted.
3. `routeName` changed by an edit, in `RouteWeighter`: a route left behind keeps its weights.
