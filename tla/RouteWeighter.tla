--------------------------- MODULE RouteWeighter ---------------------------
(***************************************************************************)
(* internal/router/httproute.go for one HTTPRoute that several policies    *)
(* name: Apply, called by the one worker of the controller for one policy  *)
(* after another, reads the route from the informer's cache, sets the      *)
(* weights of the policy's backendRefs in every rule and, if that changed  *)
(* anything, sends the whole list of rules as a merge patch.  The cache    *)
(* follows the server through a queue of versions, in order, at any        *)
(* distance; users write the route as well.                                *)
(*                                                                         *)
(* Rules are a sequence of sequences of backendRefs, a backendRef a name   *)
(* and a weight.                                                           *)
(***************************************************************************)
EXTENDS Integers, Sequences, FiniteSets, Functions

CONSTANTS
  Policies,      \* the policies that name this route
  Allocations,   \* per policy, the weights it may decide on
  Manifests,     \* the lists of rules users write
  MaxLag,        \* versions the cache may be behind
  MaxShifts,     \* changes of a decision
  MaxEdits,      \* changes by users
  MaxFaults      \* failed calls and crashes

Backends(p) == UNION {DOMAIN a : a \in Allocations[p]}
Managed     == UNION {Backends(p) : p \in Policies}
Unset == -1      \* a nil weight

IsWeight(w)   == w = Unset \/ w \in 0..100
IsRef(ref)    == ref = [name |-> ref.name, weight |-> ref.weight] /\ IsWeight(ref.weight)
IsRules(rules) == \A rule \in Range(rules) : \A ref \in Range(rule) : IsRef(ref)

ASSUME WeighterAssumption ==
  /\ IsFiniteSet(Policies) /\ \A m \in Manifests : IsRules(m)
  /\ \A p \in Policies : Allocations[p] # {}
  /\ \A p \in Policies : \A a \in Allocations[p] : a \in [Backends(p) -> 0..100]
  /\ MaxLag \in Nat \ {0} /\ {MaxShifts, MaxEdits, MaxFaults} \subseteq Nat

VARIABLES
  route,     \* the HTTPRoute on the API server
  pending,   \* its versions the watch has still to deliver, oldest first
  cache,     \* the informer's copy
  decided,   \* per policy, the allocation its next Apply carries
  asked,     \* per policy, every allocation an Apply was called with
  queue,     \* the work queue's ready items
  waiting,   \* the policies whose next reconcile is delayed
  pc,        \* the worker: "idle", or "patch" with a request under way
  job,       \* the request
  late,      \* a request its sender has given up, still on its way
  shifts, edits, faults   \* what is left of each

decisions == <<decided, asked, shifts>>
watch     == <<cache, pending>>
work      == <<queue, waiting>>
vars      == <<route, pending, cache, decided, asked, queue, waiting, pc, job, late, shifts, edits, faults>>

Route(rules) == [exists |-> TRUE, rules |-> rules]
NoRoute   == [exists |-> FALSE]
NoRequest == [policy |-> "none"]

----------------------------------------------------------------------------
(* Apply                                                                   *)

Reweighted(ref, w) ==
  IF ref.name \in DOMAIN w THEN [ref EXCEPT !.weight = w[ref.name]] ELSE ref

\* Mutants of Rewritten: the first rule only; a name the map does not have taken for zero.
RewrittenFirstRule(rules, w) ==
  [i \in DOMAIN rules |-> [j \in DOMAIN rules[i] |->
     IF i = 1 THEN Reweighted(rules[i][j], w) ELSE rules[i][j]]]
RewrittenUnknown(rules, w) ==
  [i \in DOMAIN rules |-> [j \in DOMAIN rules[i] |->
     [rules[i][j] EXCEPT !.weight = IF rules[i][j].name \in DOMAIN w THEN w[rules[i][j].name] ELSE 0]]]

Rewritten(rules, w) ==
  [i \in DOMAIN rules |-> [j \in DOMAIN rules[i] |-> Reweighted(rules[i][j], w)]]

\* The queue of a process that has just listed the policies.
Orders == {q \in [1..Cardinality(Policies) -> Policies] : Range(q) = Policies}

Init ==
  /\ \E m \in Manifests : route = Route(m)
  /\ pending = <<>> /\ cache = route
  /\ decided = [p \in Policies |-> CHOOSE a \in Allocations[p] : TRUE]
  /\ asked = [p \in Policies |-> {}]
  /\ queue \in Orders /\ waiting = {}
  /\ pc = "idle" /\ job = NoRequest /\ late = NoRequest
  /\ shifts = MaxShifts /\ edits = MaxEdits /\ faults = MaxFaults

\* A write of the server is a version the watch will deliver.
Wrote(r) == route' = r /\ pending' = Append(pending, r)
RoomForVersion == Len(pending) < MaxLag

\* The reconcile of the policy at the head of the queue has decided on its weights.
Decide(p) ==
  \/ UNCHANGED <<decided, shifts>> /\ asked' = [asked EXCEPT ![p] = @ \cup {decided[p]}]
  \/ /\ shifts > 0 /\ shifts' = shifts - 1
     /\ \E a \in Allocations[p] \ {decided[p]} : decided' = [decided EXCEPT ![p] = a]
     /\ asked' = [asked EXCEPT ![p] = @ \cup {decided'[p]}]

\* Mutant of Changed: the comparison left out.
ChangedAlways(rules, body) == TRUE

Changed(rules, body) == body # rules

\* Get and the loop over the rules: a missing route is NotFoundError, unchanged rules
\* are not sent, and either way the policy is queued again after a while.
BeginApply ==
  /\ pc = "idle" /\ queue # <<>>
  /\ queue' = Tail(queue)
  /\ LET p == Head(queue) IN
       /\ Decide(p)
       /\ LET body == Rewritten(cache.rules, decided'[p]) IN
          IF cache.exists /\ Changed(cache.rules, body)
            THEN /\ pc' = "patch"
                 /\ job' = [policy |-> p, body |-> body]
                 /\ UNCHANGED waiting
            ELSE /\ waiting' = waiting \cup {p}
                 /\ UNCHANGED <<pc, job>>
  /\ UNCHANGED <<route, watch, late, edits, faults>>

\* Mutants of Requeue: a success, or a failure, not repeated.
RequeueOnFailure(ok) == waiting' = IF ok THEN waiting ELSE waiting \cup {job.policy}
RequeueOnSuccess(ok) == waiting' = IF ok THEN waiting \cup {job.policy} ELSE waiting

Requeue(ok) == waiting' = waiting \cup {job.policy}

Returned(ok) == pc' = "idle" /\ job' = NoRequest /\ Requeue(ok)

\* The patch replaces the list of rules of whatever route there is by now.
Patch ==
  /\ pc = "patch" /\ RoomForVersion
  /\ IF route.exists THEN Wrote(Route(job.body)) ELSE UNCHANGED <<route, pending>>
  /\ Returned(route.exists)
  /\ UNCHANGED <<cache, decisions, queue, late, edits, faults>>

\* The call fails: the server has carried it out or not, or will only later.
PatchFails ==
  /\ pc = "patch"
  /\ faults > 0 /\ faults' = faults - 1
  /\ \/ UNCHANGED <<route, pending, late>>
     \/ route.exists /\ RoomForVersion /\ Wrote(Route(job.body)) /\ UNCHANGED late
     \/ late = NoRequest /\ late' = job /\ UNCHANGED <<route, pending>>
  /\ Returned(FALSE)
  /\ UNCHANGED <<cache, decisions, queue, edits>>

Worker == BeginApply \/ Patch \/ PatchFails

----------------------------------------------------------------------------
(* Around it                                                               *)

LateRequestLands ==
  /\ late # NoRequest /\ RoomForVersion
  /\ IF route.exists THEN Wrote(Route(late.body)) ELSE UNCHANGED <<route, pending>>
  /\ late' = NoRequest
  /\ UNCHANGED <<cache, decisions, work, pc, job, edits, faults>>

Deliver ==
  /\ pending # <<>>
  /\ cache' = Head(pending) /\ pending' = Tail(pending)
  /\ UNCHANGED <<route, decisions, work, pc, job, late, edits, faults>>

\* RequeueAfter, the backoff, or an event of the policy.
Due(p) ==
  /\ p \in waiting
  /\ waiting' = waiting \ {p} /\ queue' = Append(queue, p)
  /\ UNCHANGED <<route, watch, decisions, pc, job, late, edits, faults>>

\* A manifest applied, the route deleted, or created again.
EditRoute ==
  /\ edits > 0 /\ RoomForVersion
  /\ edits' = edits - 1
  /\ \E r \in {Route(m) : m \in Manifests} \cup {NoRoute} : r # route /\ Wrote(r)
  /\ UNCHANGED <<cache, decisions, work, pc, job, late, faults>>

\* The process ends, or loses its lease to another; a request it had under way may still
\* arrive.  The new one lists the routes and queues every policy.
CrashAndRestart ==
  /\ faults > 0 /\ faults' = faults - 1
  /\ pending' = <<>> /\ cache' = route
  /\ pc' = "idle" /\ job' = NoRequest
  /\ queue' \in Orders /\ waiting' = {}
  /\ late' \in {late} \cup (IF late = NoRequest THEN {job} ELSE {})
  /\ UNCHANGED <<route, decisions, edits>>

Next ==
  \/ Worker \/ Deliver \/ LateRequestLands
  \/ \E p \in Policies : Due(p)
  \/ EditRoute \/ CrashAndRestart

\* The manager runs, its watch delivers, its timers fire.
Fairness == WF_vars(Worker) /\ WF_vars(Deliver) /\ \A p \in Policies : WF_vars(Due(p))

Spec == Init /\ [][Next]_vars /\ Fairness

----------------------------------------------------------------------------
(* Properties                                                              *)

IsRoute(r) == r = NoRoute \/ (r = Route(r.rules) /\ IsRules(r.rules))

Running == IF pc = "idle" THEN {} ELSE {job.policy}

\* Every variable has its type, and every policy is at all times in exactly one of the
\* places its next reconcile can come from.
TypeOK ==
  /\ IsRoute(route) /\ IsRoute(cache) /\ \A r \in Range(pending) : IsRoute(r)
  /\ Len(pending) <= MaxLag
  /\ \A p \in Policies : decided[p] \in Allocations[p] /\ asked[p] \subseteq Allocations[p]
  /\ pc = "idle" <=> job = NoRequest
  /\ Range(queue) \cup waiting \cup Running = Policies
  /\ Len(queue) = Cardinality(Range(queue))
  /\ Range(queue) \cap waiting = {} /\ (Range(queue) \cup waiting) \cap Running = {}

\* A list of rules as one party sees it: the weights of the others' backendRefs masked.
SeenBy(names, rules) ==
  [i \in DOMAIN rules |-> [j \in DOMAIN rules[i] |->
     IF rules[i][j].name \in names THEN rules[i][j] ELSE [rules[i][j] EXCEPT !.weight = Unset]]]

RefsIn(rules) == UNION {Range(rule) : rule \in Range(rules)}
Carries(r, w) == \A ref \in RefsIn(r.rules) : ref.name \in DOMAIN w => ref.weight = w[ref.name]

\* A policy none of whose backends is another's.  Nothing makes policies of one route so, but
\* two that share a backend take turns at its weight.
Apart(p) == \A q \in Policies \ {p} : Backends(p) \cap Backends(q) = {}

\* "weights across backends always sum to 100", on the wire: whatever stale copies the other
\* policies' patches were made of, all rules carry one whole allocation of a policy, one
\* it really asked for, or its weights are as somebody's manifest gave them.  Never a mixture.
AllocationsWhole ==
  route.exists =>
    \A p \in Policies : Apart(p) =>
      \/ \E a \in asked[p] : Carries(route, a)
      \/ \E m \in Manifests : SeenBy(Backends(p), route.rules) = SeenBy(Backends(p), m)

\* What no policy manages of a list of rules.
Rest(rules) == SeenBy({ref.name : ref \in RefsIn(rules)} \ Managed, rules)

Copies ==
  {route, cache} \cup Range(pending) \cup {Route(j.body) : j \in {job, late} \ {NoRequest}}
RestsHeld == {Rest(r.rules) : r \in {c \in Copies : c.exists}}

\* A patch of the whole list may bring back an old version of what no policy manages, but only
\* one the cache, an event or a request still holds: once they all have an edit, nothing the
\* controller does undoes it, nor does it ever make a version of its own.
SeenEditsStay == [][edits' = edits => RestsHeld' \subseteq RestsHeld]_vars

\* httproute.go "BackendRefs with unknown names are left untouched": what no policy manages
\* of an existing route changes by a user's hand only.
UnmanagedUntouched ==
  [][edits' = edits /\ route.exists /\ route'.exists => Rest(route'.rules) = Rest(route.rules)]_vars

\* Two policies on one route undo each other's writes from stale copies; once
\* users, decisions and failures leave them alone the route still comes to carry both, for
\* good, if their backends are different ones.
SharedRouteSettles ==
  (\A p \in Policies : Apart(p)) /\ (<>[]route.exists) =>
    <>[](route.exists /\ \A p \in Policies : Carries(route, decided[p]))

\* router.go "Implementations must be idempotent": the writes end as well, rather than
\* go on for ever between policies that each restore their own weights.
WritesEnd == (\A p \in Policies : Apart(p)) => <>[](pc # "patch")
=============================================================================
