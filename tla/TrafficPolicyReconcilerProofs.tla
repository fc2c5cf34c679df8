-------------------- MODULE TrafficPolicyReconcilerProofs --------------------
(***************************************************************************)
(* What the control loop guarantees for every set of specs, routes and     *)
(* readings, any number of edits and failures, and every interleaving of   *)
(* the worker, the caches, the queue and the clock.                        *)
(***************************************************************************)
EXTENDS TrafficPolicyReconciler, WeightTheorems, SequenceTheorems

----------------------------------------------------------------------------
(* Bounds by name, and the input the reconciler makes of a policy          *)

\* A declared name has the bounds of one of the backends declared under it.
LEMMA BoundsTypes ==
  ASSUME NEW bs, IsBackends(bs), NEW n \in Named(bs)
  PROVE  BoundsOf(bs)[n].min \in 0..Full /\ BoundsOf(bs)[n].max \in 0..Full
<1> DEFINE b == CHOOSE b \in Range(bs) : b.name = n
<1>1. \E c \in Range(bs) : c.name = n
  BY DEF Named, Range
<1>2. b \in Range(bs) /\ b.name = n
  BY <1>1
<1>3. IsBackend(b)
  <2>1. PICK k \in DOMAIN bs : b = bs[k]
    BY <1>2 DEF Range
  <2> QED
    BY <2>1 DEF IsBackends
<1>4. BoundsOf(bs)[n] = [min |-> b.min, max |-> b.max]
  BY DEF BoundsOf
<1> QED
  BY <1>3, <1>4 DEF IsBackend

\* A percentage is an integer.
LEMMA PercentTypes == \A x \in 0..Full : x \in Int
  BY DEF Full

\* In a valid list the bounds of a name are those of its one backend.
LEMMA BoundsOfBackend ==
  ASSUME NEW bs, IsBackends(bs), ValidSpec(bs), NEW k \in DOMAIN bs
  PROVE  BoundsOf(bs)[bs[k].name].min = bs[k].min /\ BoundsOf(bs)[bs[k].name].max = bs[k].max
<1> DEFINE n == bs[k].name
           b == CHOOSE b \in Range(bs) : b.name = n
<1>1. \E c \in Range(bs) : c.name = n
  BY DEF Range
<1>2. b \in Range(bs) /\ b.name = n
  BY <1>1
<1>3. b = bs[k]
  <2>1. PICK j \in DOMAIN bs : b = bs[j]
    BY <1>2 DEF Range
  <2>2. j = k
    BY <1>2, <2>1, NamesDistinct
  <2> QED
    BY <2>1, <2>2
<1>4. n \in Named(bs)
  BY DEF Named
<1>5. BoundsOf(bs)[n] = [min |-> b.min, max |-> b.max]
  BY <1>4 DEF BoundsOf
<1> HIDE DEF b
<1> QED
  BY <1>3, <1>5

\* An initial allocation of a valid list is legal for it.
LEMMA InitialIsLegal ==
  ASSUME NEW bs, IsBackends(bs), ValidSpec(bs), NEW w \in InitialWeights(bs)
  PROVE  Legal(w, bs) /\ w \in [Named(bs) -> 0..Full]
<1>1. /\ DOMAIN w = Named(bs) /\ SumFunction(w) = Full
      /\ \A i \in DOMAIN bs : /\ w[bs[i].name] \in Int
                              /\ bs[i].min <= w[bs[i].name] /\ w[bs[i].name] <= bs[i].max
  BY InitialWeightsSplit
<1>2. \A n \in Named(bs) : w[n] \in Int /\ BoundsOf(bs)[n].min <= w[n] /\ w[n] <= BoundsOf(bs)[n].max
  BY <1>1, BoundsOfBackend DEF Named
<1>3. \A n \in Named(bs) : w[n] \in 0..Full
  BY <1>2, BoundsTypes DEF Full
<1>4. w = [n \in Named(bs) |-> w[n]]
  BY DEF InitialWeights, ByName
<1> QED
  BY <1>1, <1>2, <1>3, <1>4 DEF Legal, TotalOf

----------------------------------------------------------------------------
(* Objects, statuses and what is done to them                              *)

Weightings  == UNION {[D -> 0..Full] : D \in SUBSET Names}
Generations == 0..(MaxEdits + 1)
Answers     == {"", "True", "False"}
Refusals    == {"InvalidSpec", "Paused"}
Outcomes    == {"RouteMissing", "RouteUpdateFailed", "Reconciled"}

Conditions ==
  [gen : Generations, ready : {""} \cup Refusals \cup Outcomes, metrics : Answers, route : Answers]

Statuses ==
  [phase : Phases, weights : Weightings, changeAge : Never..MaxAge, evaluatedNow : BOOLEAN,
   why : {"", "init", "cooldown", "hold", "shift"}, obsGen : Generations, conds : Conditions]

Objects ==
  [live : {TRUE}, uid : 0..MaxEdits, gen : 1..(MaxEdits + 1), spec : Specs, status : Statuses]

\* What the running Reconcile holds.
IsJob(j) ==
  /\ j = [snap |-> j.snap, st |-> j.st, phase |-> j.phase, result |-> j.result, body |-> j.body]
  /\ j.snap \in Objects /\ j.st \in Statuses /\ j.phase \in Phases
  /\ j.result \in {"none"} \cup Refusals \cup Outcomes
  /\ j.body = NoRoute \/ IsRoute(j.body)

\* A policy nobody has decided on carries weights of no backend, which are weights.
LEMMA NoWeightsTyped == NoWeights \in Weightings
<1>1. NoWeights \in [{} -> 0..Full]
  BY DEF NoWeights
<1> QED
  BY <1>1 DEF Weightings

\* Percentages of some of the names are weights.
LEMMA SplitTyped ==
  ASSUME NEW D \in SUBSET Names, NEW w \in [D -> 0..Full]
  PROVE  w \in Weightings
  BY DEF Weightings

\* Weights are percentages, of whatever names they are about.
LEMMA WeightingTypes ==
  ASSUME NEW w \in Weightings
  PROVE  IsWeights(w) /\ \A n \in DOMAIN w : w[n] \in 0..Full
<1>1. PICK D \in SUBSET Names : w \in [D -> 0..Full]
  BY DEF Weightings
<1> QED
  BY <1>1 DEF IsWeights

\* A policy as a user has just created it is an object.
LEMMA NewPolicyTyped ==
  ASSUME NEW u \in 0..MaxEdits, NEW s \in Specs
  PROVE  NewPolicy(u, s) \in Objects
  BY NoWeightsTyped, ReconcilerAssumption
  DEF NewPolicy, NewStatus, Objects, Statuses, Conditions, Generations, Phases, Never, Answers

\* A tick changes the age and the freshness of a status and nothing else.
LEMMA AgedStatusKeeps ==
  ASSUME NEW st \in Statuses
  PROVE  /\ AgedStatus(st) \in Statuses
         /\ AgedStatus(st).phase = st.phase /\ AgedStatus(st).weights = st.weights
         /\ AgedStatus(st).why = st.why /\ AgedStatus(st).obsGen = st.obsGen
         /\ AgedStatus(st).conds = st.conds
         /\ AgedStatus(st).changeAge = Older(st.changeAge)
<1>1. MaxAge \in Nat /\ st.changeAge \in Never..MaxAge
  BY ReconcilerAssumption DEF Statuses
<1>2. Older(st.changeAge) \in Never..MaxAge
  BY <1>1 DEF Older, Never
<1> QED
  BY <1>2 DEF AgedStatus, Statuses

\* A tick leaves everything of a live policy but the age of its status.
LEMMA AgedKeeps ==
  ASSUME NEW p \in Objects
  PROVE  /\ Aged(p) \in Objects /\ Aged(p).status = AgedStatus(p.status)
         /\ Aged(p).live /\ Aged(p).uid = p.uid /\ Aged(p).gen = p.gen /\ Aged(p).spec = p.spec
  BY AgedStatusKeeps DEF Aged, Objects

\* A deleted policy does not age.
LEMMA AgedAbsent == Aged(Absent) = Absent /\ ~Absent.live
  BY DEF Aged, Absent

\* The status a Reconcile wants: its verdict, and the generation it is about, with the
\* weights it has decided on.
LEMMA DesiredKeeps ==
  ASSUME NEW j, IsJob(j), j.result # "none"
  PROVE  /\ Desired(j) \in Statuses
         /\ Desired(j).weights = j.st.weights /\ Desired(j).why = j.st.why
         /\ Desired(j).changeAge = j.st.changeAge
         /\ Desired(j).obsGen = j.snap.gen
         /\ Desired(j).conds.gen = j.snap.gen /\ Desired(j).conds.ready = j.result
         /\ j.result \in Refusals => Desired(j).evaluatedNow = j.st.evaluatedNow
         /\ j.result = "InvalidSpec" => Desired(j).phase = "Degraded"
         /\ j.result = "Paused" => Desired(j).phase = "Frozen"
<1> DEFINE s == SetReady(j.st, j.snap.gen, j.result)
<1>1. /\ j.st \in Statuses /\ j.snap.gen \in Generations /\ j.phase \in Phases
      /\ j.result \in Refusals \cup Outcomes
  BY ReconcilerAssumption DEF IsJob, Objects, Generations
<1>2. /\ s \in Statuses /\ s.weights = j.st.weights /\ s.why = j.st.why /\ s.changeAge = j.st.changeAge
      /\ s.obsGen = j.snap.gen /\ s.conds.gen = j.snap.gen /\ s.conds.ready = j.result
      /\ s.evaluatedNow = j.st.evaluatedNow
  BY <1>1 DEF SetReady, Statuses, Conditions
<1> HIDE DEF s
<1>3. Desired(j) = CASE j.result = "InvalidSpec"       -> [s EXCEPT !.phase = "Degraded"]
                     [] j.result = "Paused"            -> [s EXCEPT !.phase = "Frozen"]
                     [] j.result = "RouteMissing"      -> [s EXCEPT !.phase = "Degraded", !.conds.route = "False"]
                     [] j.result = "RouteUpdateFailed" -> s
                     [] j.result = "Reconciled"        ->
                          [s EXCEPT !.phase = j.phase, !.conds.route = "True", !.evaluatedNow = TRUE]
  BY DEF Desired, s
<1>4. CASE j.result = "InvalidSpec"
  BY <1>2, <1>3, <1>4 DEF Statuses, Phases
<1>5. CASE j.result = "Paused"
  BY <1>2, <1>3, <1>5 DEF Statuses, Phases
<1>6. CASE j.result = "RouteMissing"
  <2> DEFINE d == [s EXCEPT !.phase = "Degraded", !.conds.route = "False"]
  <2>1. d \in Statuses
    BY <1>2 DEF Statuses, Phases, Conditions, Answers
  <2>2. Desired(j) = d
    BY <1>3, <1>6
  <2>3. j.result \notin Refusals
    BY <1>6 DEF Refusals
  <2>4. /\ d.weights = s.weights /\ d.why = s.why /\ d.changeAge = s.changeAge /\ d.obsGen = s.obsGen
        /\ d.conds.gen = s.conds.gen /\ d.conds.ready = s.conds.ready
    BY <1>2 DEF Statuses, Conditions
  <2> HIDE DEF d
  <2> QED
    BY <1>2, <1>6, <2>1, <2>2, <2>3, <2>4
<1>7. CASE j.result = "RouteUpdateFailed"
  BY <1>2, <1>3, <1>7 DEF Refusals
<1>8. CASE j.result = "Reconciled"
  <2> DEFINE d == [s EXCEPT !.phase = j.phase, !.conds.route = "True", !.evaluatedNow = TRUE]
  <2>1. d \in Statuses
    BY <1>1, <1>2 DEF Statuses, Phases, Conditions, Answers
  <2>2. Desired(j) = d
    BY <1>3, <1>8
  <2>3. j.result \notin Refusals
    BY <1>8 DEF Refusals
  <2>4. /\ d.weights = s.weights /\ d.why = s.why /\ d.changeAge = s.changeAge /\ d.obsGen = s.obsGen
        /\ d.conds.gen = s.conds.gen /\ d.conds.ready = s.conds.ready
    BY <1>2 DEF Statuses, Conditions
  <2> HIDE DEF d
  <2> QED
    BY <1>2, <1>8, <2>1, <2>2, <2>3, <2>4
<1> QED
  BY <1>1, <1>4, <1>5, <1>6, <1>7, <1>8 DEF Refusals, Outcomes

\* A merge patch takes every field as a whole, from the patch or from the object.
LEMMA MergedKeeps ==
  ASSUME NEW cur \in Statuses, NEW j, IsJob(j), j.result # "none"
  PROVE  /\ Merged(cur, j) \in Statuses
         /\ \A f \in {"phase", "weights", "evaluatedNow", "why", "obsGen", "conds"} :
              Merged(cur, j)[f] = IF Desired(j)[f] # j.snap.status[f] THEN Desired(j)[f] ELSE cur[f]
         /\ Merged(cur, j).changeAge = IF j.phase = "Progressing" THEN Desired(j).changeAge
                                                                 ELSE cur.changeAge
<1> DEFINE F == {"phase", "weights", "changeAge", "evaluatedNow", "why", "obsGen", "conds"}
           m == Merged(cur, j)
<1>0. Desired(j) \in Statuses
  BY DesiredKeeps
<1>1. DOMAIN cur = F
  BY DEF Statuses
<1>2. /\ m = [f \in F |-> m[f]]
      /\ \A f \in F \ {"changeAge"} : m[f] = IF Desired(j)[f] # j.snap.status[f] THEN Desired(j)[f] ELSE cur[f]
      /\ m["changeAge"] = IF j.phase = "Progressing" THEN Desired(j).changeAge ELSE cur.changeAge
  BY <1>1 DEF Merged, Differs
<1>3. m \in Statuses
  <2>1. \A f \in F : m[f] = Desired(j)[f] \/ m[f] = cur[f]
    BY <1>2
  <2>2. /\ m["phase"] \in Phases /\ m["weights"] \in Weightings /\ m["changeAge"] \in Never..MaxAge
        /\ m["evaluatedNow"] \in BOOLEAN /\ m["why"] \in {"", "init", "cooldown", "hold", "shift"}
        /\ m["obsGen"] \in Generations /\ m["conds"] \in Conditions
    BY <1>0, <2>1 DEF Statuses
  <2> HIDE DEF m
  <2>3. m = [phase |-> m["phase"], weights |-> m["weights"], changeAge |-> m["changeAge"],
             evaluatedNow |-> m["evaluatedNow"], why |-> m["why"], obsGen |-> m["obsGen"],
             conds |-> m["conds"]]
    BY <1>2
  <2> QED
    BY <2>2, <2>3 DEF Statuses
<1> QED
  BY <1>2, <1>3

----------------------------------------------------------------------------
(* Sensing: what the smoother holds                                        *)

\* What a query that is answered may report of a backend.
Values == UNION {{r[b] : b \in DOMAIN r} : r \in Readings \ {NoSource}}

\* The smoother's buffers: short sequences of what queries returned.
Buffers(data) ==
  \A k \in DOMAIN data : \A b \in DOMAIN data[k] :
    data[k][b] \in Seq(Values) /\ Len(data[k][b]) <= MaxWindow

\* The last n elements are at most n elements.
LEMMA LastSamplesKeeps ==
  ASSUME NEW V, NEW buf \in Seq(V), NEW n \in Nat
  PROVE  LastSamples(buf, n) \in Seq(V) /\ (n > 0 => Len(LastSamples(buf, n)) <= n)
<1> DEFINE first == IF Len(buf) > n THEN Len(buf) - n + 1 ELSE 1
<1>1. Len(buf) \in Nat /\ DOMAIN buf = 1..Len(buf) /\ \A i \in 1..Len(buf) : buf[i] \in V
  BY LenProperties, ElementOfSeq
<1>2. first \in Int /\ first >= 1 /\ (n > 0 => Len(buf) - first + 1 <= n)
  BY <1>1
<1>3. \A i \in first..Len(buf) : buf[i] \in V
  BY <1>1, <1>2
<1>4. LastSamples(buf, n) = SubSeq(buf, first, Len(buf))
  BY DEF LastSamples
<1> HIDE DEF first
<1>5. /\ SubSeq(buf, first, Len(buf)) \in Seq(V)
      /\ Len(SubSeq(buf, first, Len(buf))) = IF first <= Len(buf) THEN Len(buf) - first + 1 ELSE 0
  BY <1>1, <1>2, <1>3, SubSeqProperties
<1> QED
  BY <1>1, <1>2, <1>4, <1>5

\* There are some if there were any.
LEMMA LastSamplesSome ==
  ASSUME NEW V, NEW buf \in Seq(V), NEW n \in Nat \ {0}, Len(buf) > 0
  PROVE  Len(LastSamples(buf, n)) > 0
<1> DEFINE first == IF Len(buf) > n THEN Len(buf) - n + 1 ELSE 1
<1>1. Len(buf) \in Nat /\ DOMAIN buf = 1..Len(buf) /\ \A i \in 1..Len(buf) : buf[i] \in V
  BY LenProperties, ElementOfSeq
<1>2. first \in 1..Len(buf)
  BY <1>1
<1>3. LastSamples(buf, n) = SubSeq(buf, first, Len(buf))
  BY DEF LastSamples
<1> HIDE DEF first
<1>4. Len(SubSeq(buf, first, Len(buf))) = IF first <= Len(buf) THEN Len(buf) - first + 1 ELSE 0
  BY <1>1, <1>2, SubSeqProperties
<1> QED
  BY <1>1, <1>2, <1>3, <1>4

\* Recording a reading keeps the buffers short.
LEMMA RecordKeeps ==
  ASSUME NEW data, Buffers(data), NEW key, NEW reading \in Readings \ {NoSource}
  PROVE  Buffers(Record(data, key, reading))
<1> DEFINE seen == IF key \in DOMAIN data THEN DOMAIN data[key] ELSE {}
           kept == [b \in seen \cup DOMAIN reading |->
                      IF b \in DOMAIN reading
                        THEN LastSamples(Append(Buffer(data, key, b), reading[b]), MaxWindow)
                        ELSE data[key][b]]
<1>1. Record(data, key, reading) = [k \in DOMAIN data \cup {key} |-> IF k = key THEN kept ELSE data[k]]
  BY DEF Record
<1>2. ASSUME NEW b \in DOMAIN kept
      PROVE  kept[b] \in Seq(Values) /\ Len(kept[b]) <= MaxWindow
  <2>1. CASE b \in DOMAIN reading
    <3>1. reading[b] \in Values
      BY <2>1 DEF Values
    <3>2. Buffer(data, key, b) \in Seq(Values)
      BY DEF Buffer, Buffers
    <3>3. Append(Buffer(data, key, b), reading[b]) \in Seq(Values)
      BY <3>1, <3>2
    <3>4. MaxWindow \in Nat /\ MaxWindow > 0
      BY ReconcilerAssumption
    <3>5. kept[b] = LastSamples(Append(Buffer(data, key, b), reading[b]), MaxWindow)
      BY <2>1
    <3> QED
      BY <3>3, <3>4, <3>5, LastSamplesKeeps
  <2>2. CASE b \notin DOMAIN reading
    <3>1. key \in DOMAIN data /\ b \in DOMAIN data[key] /\ kept[b] = data[key][b]
      BY <2>2
    <3> QED
      BY <3>1 DEF Buffers
  <2> QED
    BY <2>1, <2>2
<1> HIDE DEF kept
<1> QED
  BY <1>1, <1>2 DEF Buffers

\* Sampling a policy's signals keeps the buffers short, whatever the queries return.
LEMMA ObserveKeeps ==
  ASSUME NEW data, Buffers(data), NEW s, DOMAIN s.thresholds \subseteq SignalNames,
         NEW out \in [DOMAIN s.thresholds -> Readings]
  PROVE  Buffers(Observe(data, s, out))
<1> DEFINE first == IF "latency" \in Sampled(s, out) THEN Record(data, Key("latency"), out["latency"])
                                                    ELSE data
<1>1. \A sig \in Sampled(s, out) : out[sig] \in Readings \ {NoSource}
  BY DEF Sampled, Preceding, SignalNames
<1>2. Buffers(first)
  BY <1>1, RecordKeeps
<1>3. Observe(data, s, out) = IF "errorRate" \in Sampled(s, out)
                                THEN Record(first, Key("errorRate"), out["errorRate"]) ELSE first
  BY DEF Observe
<1> HIDE DEF first
<1> QED
  BY <1>1, <1>2, <1>3, RecordKeeps

\* Forgetting a key leaves the other buffers as they are.
LEMMA ForgetKeeps ==
  ASSUME NEW data, Buffers(data), NEW key
  PROVE  Buffers(ForgetKey(data, key))
  BY DEF ForgetKey, Buffers

----------------------------------------------------------------------------
(* Deciding: what a proposal may change                                    *)

\* Weights for every declared backend, each between 0 and 100; an allocation that was legal
\* is replaced by a legal one.  Nothing is said of weights that were not: they need not even
\* be for the same backends.
LEMMA ProposalKeeps ==
  ASSUME NEW p, p.spec \in Specs, ValidSpec(p.spec.backends), NEW w \in Weightings, NEW data, NEW out,
         Proposal(p, w, data, out).changed
  PROVE  LET n == Proposal(p, w, data, out).weights
         IN  /\ n \in [Named(p.spec.backends) -> 0..Full]
             /\ Legal(w, p.spec.backends) =>
                  /\ Legal(n, p.spec.backends)
                  /\ \A b \in DOMAIN w : n[b] - w[b] \in (-StrategyStep(p.spec))..StrategyStep(p.spec)
<1> DEFINE bs == p.spec.backends
           B  == Named(bs)
           i  == [bounds |-> BoundsOf(bs), current |-> w,
                  signals |-> Smoothed(data, p.spec, out), step |-> StrategyStep(p.spec)]
           n  == Evaluate(i).weights
           lo == [b \in B |-> BoundsOf(bs)[b].min]
           hi == [b \in B |-> BoundsOf(bs)[b].max]
           zero == [b \in B |-> 0]
           full == [b \in B |-> Full]
<1>1. IsBackends(bs) /\ p.spec.step \in Int
  BY ReconcilerAssumption DEF IsSpec
<1>2. IsFiniteSet(B)
  <2> DEFINE z == [k \in DOMAIN bs |-> 0]
  <2>1. \A k \in DOMAIN bs : z[k] \in Int
    OBVIOUS
  <2> HIDE DEF z
  <2> QED
    BY <1>1, <2>1, ByNameKeeps
<1>3. \A b \in B : /\ BoundsOf(bs)[b].min \in Int /\ BoundsOf(bs)[b].max \in Int
                   /\ 0 <= BoundsOf(bs)[b].min /\ BoundsOf(bs)[b].max <= Full
  BY <1>1, BoundsTypes DEF Full
<1>4. IsWeights(w) /\ \A b \in DOMAIN w : w[b] \in Int /\ 0 <= w[b] /\ w[b] <= Full
  BY WeightingTypes DEF Full
<1>5. Backends(i) = B /\ i.bounds = BoundsOf(bs) /\ i.current = w /\ i.step = StrategyStep(p.spec)
  BY DEF Backends, BoundsOf
<1>6. Proposal(p, w, data, out) = Evaluate(i)
  BY DEF Proposal, DecisionInput
<1> HIDE DEF i, bs
<1>7. \A b \in B : StartWeight(i, b) \in Int /\ 0 <= StartWeight(i, b) /\ StartWeight(i, b) <= Full
  BY <1>4, <1>5 DEF StartWeight, Full
<1>8. Regular(i)
  <2>1. i.step \in Nat
    BY <1>1, <1>5 DEF StrategyStep
  <2> QED
    BY <1>2, <1>3, <1>5, <1>7, <2>1 DEF Regular
<1> HIDE DEF B
<1>9. n \in [B -> 0..Full]
  <2>1. Encloses(i, zero, full)
    BY <1>3, <1>5, <1>7 DEF Encloses, Full
  <2> HIDE DEF zero, full
  <2>2. Within(i, zero, full, n)
    BY <1>6, <1>8, <2>1, EvaluateKeeps
  <2>3. n \in [B -> Int] /\ \A b \in B : zero[b] <= n[b] /\ n[b] <= full[b]
    BY <1>5, <2>2 DEF Within
  <2>4. \A b \in B : n[b] \in 0..Full
    BY <2>3 DEF zero, full, Full
  <2> QED
    BY <2>3, <2>4
<1>10. ASSUME Legal(w, bs)
       PROVE  Legal(n, bs) /\ \A b \in DOMAIN w : n[b] - w[b] \in (-StrategyStep(p.spec))..StrategyStep(p.spec)
  <2>1. DOMAIN w = B /\ SumFunction(w) = Full
        /\ \A b \in B : BoundsOf(bs)[b].min <= w[b] /\ w[b] <= BoundsOf(bs)[b].max
    BY <1>10 DEF Legal, TotalOf, B
  <2>2. \A b \in B : StartWeight(i, b) = w[b]
    BY <1>5, <2>1 DEF StartWeight
  <2>3. Encloses(i, lo, hi)
    BY <1>3, <1>4, <1>5, <2>1, <2>2 DEF Encloses
  <2> HIDE DEF lo, hi
  <2>4. Within(i, lo, hi, n) /\ \A b \in B : n[b] - StartWeight(i, b) \in (-i.step)..i.step
    BY <1>5, <1>6, <1>8, <2>3, EvaluateKeeps
  <2>5. LoopStart(i).current = [b \in B |-> StartWeight(i, b)]
    BY <1>5 DEF LoopStart
  <2>6. SumFunctionOnSet(LoopStart(i).current, B) = SumFunctionOnSet(w, B)
    BY <1>2, <2>2, <2>5, SumSame
  <2>7. SumFunction(n) = Full
    BY <1>5, <1>9, <2>1, <2>4, <2>6 DEF Within, SumFunction
  <2>8. \A b \in B : BoundsOf(bs)[b].min <= n[b] /\ n[b] <= BoundsOf(bs)[b].max
    BY <1>5, <2>4 DEF Within, lo, hi
  <2>9. \A b \in DOMAIN w : n[b] - w[b] \in (-StrategyStep(p.spec))..StrategyStep(p.spec)
    BY <1>5, <2>1, <2>2, <2>4
  <2> QED
    BY <1>9, <2>7, <2>8, <2>9 DEF Legal, TotalOf, B
<1> QED
  BY <1>6, <1>9, <1>10 DEF bs, B

\* The weights after a decision: moved by no more than a step, once the cooldown has passed,
\* or as they were.
Decided(p, st, e) ==
  IF e.phase = "Progressing"
    THEN /\ CooldownElapsed(p) /\ e.st.changeAge # Never
         /\ Legal(st.weights, p.spec.backends) =>
              /\ Legal(e.st.weights, p.spec.backends)
              /\ \A n \in DOMAIN st.weights :
                   e.st.weights[n] - st.weights[n] \in (-StrategyStep(p.spec))..StrategyStep(p.spec)
    ELSE e.st.weights = st.weights

\* What evaluateMetrics leaves: a status of which it has touched the conditions, the reason
\* and, if the cooldown has passed, the weights.
LEMMA EvaluatedKeeps ==
  ASSUME NEW p \in Objects, ValidSpec(p.spec.backends), NEW st \in Statuses, NEW data, NEW out
  PROVE  LET e == Evaluated(p, st, data, out)
         IN  /\ e.st \in Statuses /\ e.phase \in Phases
             /\ Legal(st.weights, p.spec.backends) => Legal(e.st.weights, p.spec.backends)
             /\ Decided(p, st, e)
<1> DEFINE ok == MetricsCondition(st, p.gen, "True")
           no == MetricsCondition(st, p.gen, "False")
           d  == Proposal(p, st.weights, data, out)
           e  == Evaluated(p, st, data, out)
<1>1. p.gen \in Generations /\ p.spec \in Specs
  BY ReconcilerAssumption DEF Objects, Generations
<1>2. /\ ok \in Statuses /\ ok.weights = st.weights
      /\ no \in Statuses /\ no.weights = st.weights
  BY <1>1 DEF MetricsCondition, Statuses, Conditions, Answers
<1> DEFINE Near(w) == \A n \in DOMAIN st.weights :
                        w[n] - st.weights[n] \in (-StrategyStep(p.spec))..StrategyStep(p.spec)
<1>3. d.changed => /\ d.weights \in Weightings
                   /\ Legal(st.weights, p.spec.backends) => Legal(d.weights, p.spec.backends) /\ Near(d.weights)
  <2>1. st.weights \in Weightings
    BY DEF Statuses
  <2>2. Named(p.spec.backends) \in SUBSET Names
    BY <1>1, ReconcilerAssumption DEF IsSpec
  <2> HIDE DEF d
  <2>3. d.changed => /\ d.weights \in [Named(p.spec.backends) -> 0..Full]
                     /\ Legal(st.weights, p.spec.backends) => Legal(d.weights, p.spec.backends) /\ Near(d.weights)
    BY <1>1, <2>1, ProposalKeeps DEF d
  <2> QED
    BY <2>2, <2>3, SplitTyped
<1>4. e = IF DOMAIN p.spec.thresholds = {} THEN [st |-> st, phase |-> "Stable"]
          ELSE IF SourceFails(p.spec, out) THEN [st |-> no, phase |-> "Frozen"]
          ELSE IF ~CooldownElapsed(p) THEN [st |-> [ok EXCEPT !.why = "cooldown"], phase |-> "Stable"]
          ELSE IF ~d.changed THEN [st |-> [ok EXCEPT !.why = "hold"], phase |-> "Stable"]
          ELSE [st |-> [ok EXCEPT !.why = "shift", !.weights = d.weights, !.changeAge = 0],
                phase |-> "Progressing"]
  BY DEF Evaluated
<1> HIDE DEF ok, no, d, e, Near
<1>5. /\ [ok EXCEPT !.why = "cooldown"] \in Statuses /\ [ok EXCEPT !.why = "cooldown"].weights = st.weights
      /\ [ok EXCEPT !.why = "hold"] \in Statuses /\ [ok EXCEPT !.why = "hold"].weights = st.weights
  BY <1>2 DEF Statuses
<1>6. ASSUME d.changed
      PROVE  LET n == [ok EXCEPT !.why = "shift", !.weights = d.weights, !.changeAge = 0]
             IN  n \in Statuses /\ n.weights = d.weights /\ n.changeAge = 0
  <2>1. 0 \in Never..MaxAge
    BY ReconcilerAssumption DEF Never
  <2> QED
    BY <1>2, <1>3, <1>6, <2>1 DEF Statuses
<1>7. /\ e.st \in Statuses /\ e.phase \in Phases
      /\ Legal(st.weights, p.spec.backends) => Legal(e.st.weights, p.spec.backends)
      /\ IF e.phase = "Progressing"
           THEN /\ CooldownElapsed(p) /\ e.st.changeAge = 0
                /\ Legal(st.weights, p.spec.backends) => Near(e.st.weights)
           ELSE e.st.weights = st.weights
  <2>1. CASE DOMAIN p.spec.thresholds = {}
    BY <1>4, <2>1 DEF Phases
  <2>2. CASE DOMAIN p.spec.thresholds # {} /\ SourceFails(p.spec, out)
    BY <1>2, <1>4, <2>2 DEF Phases
  <2>3. CASE DOMAIN p.spec.thresholds # {} /\ ~SourceFails(p.spec, out) /\ (~CooldownElapsed(p) \/ ~d.changed)
    BY <1>4, <1>5, <2>3 DEF Phases
  <2>4. CASE DOMAIN p.spec.thresholds # {} /\ ~SourceFails(p.spec, out) /\ CooldownElapsed(p) /\ d.changed
    BY <1>3, <1>4, <1>6, <2>4 DEF Phases
  <2> QED
    BY <2>1, <2>2, <2>3, <2>4
<1> QED
  BY <1>7 DEF e, Near, Decided, Never

----------------------------------------------------------------------------
(* The inductive invariant                                                 *)

\* Every variable has its type, the records with every field.
TypeInv ==
  /\ policy \in Objects \cup {Absent} /\ cache \in Objects \cup {Absent}
  /\ (route = NoRoute \/ IsRoute(route)) /\ (routeCache = NoRoute \/ IsRoute(routeCache))
  /\ queue \in {"none", "ready", "delayed", "backoff"} /\ delay \in 0..MaxAge
  /\ pc \in {"idle", "route", "status"}
  /\ pc = "idle" => job = NoJob
  /\ pc # "idle" => IsJob(job)
  /\ Buffers(samples)
  /\ IsWeights(gauges.weights) /\ gauges.phase \in Phases
  /\ edits \in 0..MaxEdits /\ faults \in 0..MaxFaults

\* Every edit that makes a policy or a generation is counted, and the cache holds no
\* policy and no generation that has not been written yet.
OrderInv ==
  /\ policy.live => policy.uid <= MaxEdits - edits /\ policy.gen <= MaxEdits - edits + 1
  /\ cache.live => cache.uid <= MaxEdits - edits
  /\ policy.live /\ cache.live =>
       cache.uid < policy.uid \/ (cache.uid = policy.uid /\ cache.gen <= policy.gen)

\* The verdict of the running Reconcile is the one its copy of the spec calls for; a refusal
\* leaves the status it read; weights it has moved were due; and unless an event has come in
\* since, that copy is the cache's.
JobInv ==
  pc # "idle" =>
    /\ job.result = "InvalidSpec" <=> ~ValidSpec(job.snap.spec.backends)
    /\ job.result = "Paused" <=> (ValidSpec(job.snap.spec.backends) /\ job.snap.spec.paused)
    /\ job.result \in Refusals => job.st = job.snap.status
    /\ job.snap.status.weights # NoWeights => Decided(job.snap, job.snap.status, job)
    /\ pc = "route" <=> job.result = "none"
    /\ queue \in {"none", "ready"}
    /\ queue = "none" => job.snap = cache

\* A policy that needs no further look.
Settled(p) ==
  /\ ~Active(p)
  /\ p.status.obsGen = p.gen
  /\ p.status.phase = IF ValidSpec(p.spec.backends) THEN "Frozen" ELSE "Degraded"

\* The fields a watch event would not come without.
Published == {"phase", "weights", "why", "obsGen", "conds"}

\* An event of the policy is still to reach the cache.
Outdated(p, c) ==
  \/ ~p.live
  \/ p.uid # c.uid
  \/ p.gen # c.gen
  \/ \E f \in Published : p.status[f] # c.status[f]

\* When the worker has nothing to do, what the cache holds needs no look or is about to be
\* replaced, which queues the policy again.
SettledInv ==
  pc = "idle" /\ queue = "none" =>
    IF cache.live THEN Settled(cache) \/ Outdated(policy, cache) ELSE gauges = NoGauges

IInv == TypeInv /\ OrderInv /\ JobInv /\ SettledInv

\* A live policy is a full record, an absent one is not live.
LEMMA LiveObject ==
  ASSUME NEW p \in Objects \cup {Absent}
  PROVE  /\ p.live => p \in Objects
         /\ ~p.live => p = Absent
         /\ p \in Objects => p.live
<1>1. p \in Objects => p.live = TRUE
  BY DEF Objects
<1>2. p = Absent => p.live = FALSE
  BY DEF Absent
<1> QED
  BY <1>1, <1>2

\* Ageing makes a policy of a policy, and leaves an absent one absent.
LEMMA AgedAny ==
  ASSUME NEW p \in Objects \cup {Absent}
  PROVE  Aged(p) \in Objects \cup {Absent} /\ (Aged(p).live <=> p.live)
<1>1. CASE p \in Objects
  BY <1>1, AgedKeeps, LiveObject
<1>2. CASE p = Absent
  BY <1>2, AgedAbsent
<1> QED
  BY <1>1, <1>2

\* The queue keeps its type, and never loses an item that has to be repeated.
LEMMA RequeueKeeps ==
  ASSUME NEW kind \in {"delayed", "backoff"}, NEW ticks \in 0..MaxAge, Requeue(kind, ticks),
         queue \in {"none", "ready", "delayed", "backoff"}, delay \in 0..MaxAge
  PROVE  /\ queue' \in {"ready", "delayed", "backoff"} /\ delay' \in 0..MaxAge
         /\ queue = "ready" => queue' = "ready"
  BY DEF Requeue, work

\* The wait between two Reconciles is a positive time the clock can tell.
LEMMA CooldownTypes ==
  ASSUME NEW s \in Specs
  PROVE  StrategyCooldown(s) \in 0..MaxAge /\ StrategyCooldown(s) > 0
  BY ReconcilerAssumption DEF StrategyCooldown, IsSpec

\* A live policy's numbers are integers.
LEMMA ObjectTypes ==
  ASSUME NEW p \in Objects
  PROVE  /\ p.gen \in Int /\ p.uid \in Int /\ p.status \in Statuses /\ p.spec \in Specs
         /\ p.status.obsGen \in Int /\ p.status.conds.gen \in Int
<1>1. p.gen \in Int /\ p.uid \in Int /\ p.status \in Statuses /\ p.spec \in Specs
  BY DEF Objects
<1>2. p.status.obsGen \in Generations /\ p.status.conds \in Conditions
  BY <1>1 DEF Statuses
<1>3. p.status.conds.gen \in Generations
  BY <1>2 DEF Conditions
<1> QED
  BY <1>1, <1>2, <1>3, ReconcilerAssumption DEF Generations

\* A cooldown that has passed stays passed.
LEMMA ElapsedStays ==
  ASSUME NEW p \in Objects, CooldownElapsed(p)
  PROVE  CooldownElapsed(Aged(p))
<1>1. Aged(p).status.changeAge = Older(p.status.changeAge) /\ Aged(p).spec = p.spec
  BY ObjectTypes, AgedKeeps, AgedStatusKeeps
<1>2. p.status.changeAge \in Never..MaxAge /\ StrategyCooldown(p.spec) \in 0..MaxAge /\ MaxAge \in Nat
  BY ObjectTypes, CooldownTypes, ReconcilerAssumption DEF Statuses
<1> QED
  BY <1>1, <1>2 DEF CooldownElapsed, Older, Never

\* Ageing undoes no decision.
LEMMA DecidedStays ==
  ASSUME NEW j, IsJob(j), Decided(j.snap, j.snap.status, j),
         NEW k, k.snap = Aged(j.snap), k.st = AgedStatus(j.st), k.phase = j.phase
  PROVE  Decided(k.snap, k.snap.status, k)
<1>1. j.snap \in Objects /\ j.snap.status \in Statuses /\ j.st \in Statuses
  BY ObjectTypes DEF IsJob
<1>2. /\ k.snap.spec = j.snap.spec /\ k.snap.status = AgedStatus(j.snap.status)
      /\ k.snap.status.weights = j.snap.status.weights /\ k.st.weights = j.st.weights
      /\ k.st.changeAge = Older(j.st.changeAge)
  BY <1>1, AgedKeeps, AgedStatusKeeps
<1>3. j.st.changeAge # Never => k.st.changeAge # Never
  <2>1. j.st.changeAge \in Never..MaxAge /\ MaxAge \in Nat
    BY <1>1, ReconcilerAssumption DEF Statuses
  <2> QED
    BY <1>2, <2>1 DEF Older, Never
<1>4. CooldownElapsed(j.snap) => CooldownElapsed(k.snap)
  BY <1>1, ElapsedStays
<1> QED
  BY <1>2, <1>3, <1>4 DEF Decided

\* What Reconcile does with the queue when it returns nil.
LEMMA SucceedKeeps ==
  ASSUME IsJob(job), Succeed,
         queue \in {"none", "ready", "delayed", "backoff"}, delay \in 0..MaxAge
  PROVE  /\ queue' \in {"none", "ready", "delayed", "backoff"} /\ delay' \in 0..MaxAge
         /\ job.result \notin Refusals \cup {"none"} => queue' # "none"
         /\ job.result \in Refusals => queue' = queue
<1>1. job.snap.spec \in Specs /\ job.result \in {"none"} \cup Refusals \cup Outcomes
  BY DEF IsJob, Objects
<1>2. StrategyCooldown(job.snap.spec) \in 0..MaxAge /\ 0 \in 0..MaxAge
  BY <1>1, CooldownTypes, ReconcilerAssumption
<1>3. CASE job.result \in {"Reconciled", "RouteMissing"}
  <2>1. Requeue("delayed", StrategyCooldown(job.snap.spec))
    BY <1>3 DEF Succeed
  <2> QED
    BY <1>2, <1>3, <2>1, RequeueKeeps DEF Refusals
<1>4. CASE job.result = "RouteUpdateFailed"
  <2>1. Requeue("backoff", 0)
    BY <1>4 DEF Succeed
  <2> QED
    BY <1>2, <1>4, <2>1, RequeueKeeps DEF Refusals
<1>5. CASE job.result \in Refusals \cup {"none"}
  BY <1>5 DEF Succeed, Refusals, work
<1> QED
  BY <1>1, <1>3, <1>4, <1>5 DEF Outcomes

\* What Apply's read leaves in the worker's hands.
LEMMA LookUpKeeps ==
  ASSUME cache \in Objects, Active(cache), routeCache = NoRoute \/ IsRoute(routeCache),
         NEW st \in Statuses, NEW phase \in Phases, LookUpRoute(st, phase)
  PROVE  /\ pc' \in {"route", "status"} /\ IsJob(job')
         /\ job'.snap = cache /\ job'.st = st /\ job'.phase = phase
         /\ job'.result \in {"none", "RouteMissing", "Reconciled"}
         /\ pc' = "route" <=> job'.result = "none"
         /\ pc' = "route" => routeCache.exists /\ job'.body = Rewritten(routeCache, st.weights)
<1> DEFINE body == IF routeCache.exists THEN Rewritten(routeCache, st.weights) ELSE NoRoute
<1>1. body = NoRoute \/ IsRoute(body)
  <2>1. CASE routeCache.exists
    <3>1. IsRoute(routeCache)
      BY <2>1 DEF NoRoute
    <3>2. body = [exists |-> TRUE, weights |-> body.weights] /\ DOMAIN body.weights = DOMAIN routeCache.weights
      BY <2>1, <3>1 DEF IsRoute, Rewritten
    <3> QED
      BY <3>1, <3>2 DEF IsRoute
  <2> QED
    BY <2>1
<1>2. PICK r \in {"none", "RouteMissing", "Reconciled"} :
        /\ job' = [snap |-> cache, st |-> st, phase |-> phase, result |-> r, body |-> body]
        /\ pc' \in {"route", "status"}
        /\ pc' = "route" <=> r = "none"
        /\ pc' = "route" => routeCache.exists
  <2> HIDE DEF body
  <2>1. \/ /\ ~routeCache.exists
           /\ job' = [snap |-> cache, st |-> st, phase |-> phase, result |-> "RouteMissing", body |-> body]
           /\ pc' = "status"
        \/ /\ routeCache.exists /\ body = routeCache
           /\ job' = [snap |-> cache, st |-> st, phase |-> phase, result |-> "Reconciled", body |-> body]
           /\ pc' = "status"
        \/ /\ routeCache.exists /\ body # routeCache
           /\ job' = [snap |-> cache, st |-> st, phase |-> phase, result |-> "none", body |-> body]
           /\ pc' = "route"
    BY DEF LookUpRoute, body
  <2> QED
    BY <2>1
<1>3. pc' = "route" => body = Rewritten(routeCache, st.weights)
  BY <1>2
<1> HIDE DEF body
<1>4. IsJob(job')
  BY <1>1, <1>2 DEF IsJob, Outcomes
<1> QED
  BY <1>2, <1>3, <1>4

\* The status an active policy starts from: its own, or its own with an initial allocation.
LEMMA InitializedKeeps ==
  ASSUME NEW p \in Objects, ValidSpec(p.spec.backends), NEW st \in Initialized(p)
  PROVE  /\ st \in Statuses
         /\ p.status.weights # NoWeights => st = p.status
         /\ p.status.weights = NoWeights => Legal(st.weights, p.spec.backends)
<1>1. p.spec \in Specs /\ p.status \in Statuses /\ IsBackends(p.spec.backends)
      /\ Named(p.spec.backends) \in SUBSET Names
  BY ReconcilerAssumption DEF Objects, IsSpec
<1>2. CASE p.status.weights # NoWeights
  BY <1>1, <1>2 DEF Initialized
<1>3. CASE p.status.weights = NoWeights
  <2>1. PICK w \in InitialWeights(p.spec.backends) : st = [p.status EXCEPT !.weights = w, !.why = "init"]
    BY <1>3 DEF Initialized
  <2>2. Legal(w, p.spec.backends) /\ w \in Weightings
    BY <1>1, <2>1, InitialIsLegal, SplitTyped
  <2> QED
    BY <1>1, <1>3, <2>1, <2>2 DEF Statuses
<1> QED
  BY <1>2, <1>3

\* Everything Steer does up to the route patch.
LEMMA SteerKeeps ==
  ASSUME TypeInv, Steer
  PROVE  /\ cache \in Objects /\ Active(cache)
         /\ pc' \in {"route", "status"} /\ IsJob(job')
         /\ job'.snap = cache /\ job'.result \in {"none", "RouteMissing", "Reconciled"}
         /\ pc' = "route" <=> job'.result = "none"
         /\ pc' = "route" => routeCache.exists /\ job'.body = Rewritten(routeCache, job'.st.weights)
         /\ Buffers(samples')
         /\ \/ cache.status.weights = NoWeights
            \/ Legal(cache.status.weights, cache.spec.backends)
            => Legal(job'.st.weights, cache.spec.backends)
         /\ cache.status.weights # NoWeights => Decided(cache, cache.status, job')
<1>1. cache \in Objects /\ Active(cache) /\ ValidSpec(cache.spec.backends)
  BY LiveObject DEF Steer, TypeInv, Active
<1>2. PICK st \in Initialized(cache), out \in [DOMAIN cache.spec.thresholds -> Readings] :
        /\ samples' = Observe(samples, cache.spec, out)
        /\ \E e \in {Evaluated(cache, st, samples', out)} : LookUpRoute(e.st, e.phase)
  BY DEF Steer
<1> DEFINE e == Evaluated(cache, st, samples', out)
<1>3. LookUpRoute(e.st, e.phase)
  BY <1>2
<1>4. Buffers(samples')
  <2>1. DOMAIN cache.spec.thresholds \subseteq SignalNames
    BY <1>1, ReconcilerAssumption DEF Objects, IsSpec
  <2> QED
    BY <1>2, <2>1, ObserveKeeps DEF TypeInv
<1>5. /\ st \in Statuses
      /\ cache.status.weights # NoWeights => st = cache.status
      /\ cache.status.weights = NoWeights => Legal(st.weights, cache.spec.backends)
  BY <1>1, InitializedKeeps
<1>6. /\ e.st \in Statuses /\ e.phase \in Phases
      /\ Legal(st.weights, cache.spec.backends) => Legal(e.st.weights, cache.spec.backends)
      /\ Decided(cache, st, e)
  BY <1>1, <1>5, EvaluatedKeeps
<1> HIDE DEF e
<1>7. /\ pc' \in {"route", "status"} /\ IsJob(job')
      /\ job'.snap = cache /\ job'.st = e.st /\ job'.phase = e.phase
      /\ job'.result \in {"none", "RouteMissing", "Reconciled"}
      /\ pc' = "route" <=> job'.result = "none"
      /\ pc' = "route" => routeCache.exists /\ job'.body = Rewritten(routeCache, e.st.weights)
  BY <1>1, <1>3, <1>6, LookUpKeeps DEF TypeInv
<1>8. Decided(cache, st, job')
  BY <1>6, <1>7 DEF Decided
<1> QED
  BY <1>1, <1>4, <1>5, <1>6, <1>7, <1>8

\* A status patch that reaches the server replaces the fields it carries.
LEMMA PublishKeeps ==
  ASSUME IsJob(job), job.result # "none", policy \in Objects,
         policy' = [policy EXCEPT !.status = Merged(@, job)]
  PROVE  /\ policy' \in Objects
         /\ policy'.uid = policy.uid /\ policy'.gen = policy.gen /\ policy'.spec = policy.spec
         /\ \A f \in Published :
              policy'.status[f] = IF Desired(job)[f] # job.snap.status[f] THEN Desired(job)[f]
                                                                         ELSE policy.status[f]
         /\ policy'.status.changeAge = IF job.phase = "Progressing" THEN Desired(job).changeAge
                                                                   ELSE policy.status.changeAge
<1> DEFINE m == Merged(policy.status, job)
<1>1. policy.status \in Statuses
  BY DEF Objects
<1>2. policy' = [policy EXCEPT !.status = m]
  OBVIOUS
<1>3. /\ m \in Statuses
      /\ \A f \in {"phase", "weights", "evaluatedNow", "why", "obsGen", "conds"} :
           m[f] = IF Desired(job)[f] # job.snap.status[f] THEN Desired(job)[f] ELSE policy.status[f]
      /\ m.changeAge = IF job.phase = "Progressing" THEN Desired(job).changeAge ELSE policy.status.changeAge
  BY <1>1, MergedKeeps
<1> HIDE DEF m
<1>4. /\ policy' \in Objects /\ policy'.status = m
      /\ policy'.uid = policy.uid /\ policy'.gen = policy.gen /\ policy'.spec = policy.spec
  BY <1>2, <1>3 DEF Objects
<1> QED
  BY <1>3, <1>4 DEF Published

\* The gauges hold weights and a phase.
LEMMA RecordedKeeps ==
  ASSUME IsJob(job), job.result # "none", IsWeights(gauges.weights), gauges.phase \in Phases,
         gauges' = Recorded(gauges, job)
  PROVE  IsWeights(gauges'.weights) /\ gauges'.phase \in Phases
<1>1. IsWeights(job.st.weights) /\ Desired(job).phase \in Phases
  BY DesiredKeeps, WeightingTypes DEF IsJob, Statuses
<1> DEFINE both == [n \in DOMAIN gauges.weights \cup DOMAIN job.st.weights |->
                      IF n \in DOMAIN job.st.weights THEN job.st.weights[n] ELSE gauges.weights[n]]
<1>2. IsWeights(both)
  BY <1>1 DEF IsWeights
<1>3. /\ gauges'.weights = IF job.result = "Reconciled" THEN both ELSE gauges.weights
      /\ gauges'.phase = IF job.result = "RouteUpdateFailed" THEN gauges.phase ELSE Desired(job).phase
  BY DEF Recorded
<1> HIDE DEF both
<1> QED
  BY <1>1, <1>2, <1>3

\* The route the patch under way leaves the job with.
LEMMA AnsweredKeeps ==
  ASSUME IsJob(job), NEW result \in {"Reconciled", "RouteUpdateFailed"}, Answered(result)
  PROVE  /\ pc' = "status" /\ IsJob(job') /\ job'.result = result
         /\ job'.snap = job.snap /\ job'.st = job.st /\ job'.phase = job.phase /\ job'.body = job.body
<1>1. job' = [job EXCEPT !.result = result] /\ pc' = "status"
  BY DEF Answered
<1>2. job' = [snap |-> job.snap, st |-> job.st, phase |-> job.phase, result |-> result, body |-> job.body]
  BY <1>1 DEF IsJob
<1> QED
  BY <1>1, <1>2 DEF IsJob, Outcomes

\* A refusal's job.
LEMMA RefuseKeeps ==
  ASSUME cache \in Objects, NEW result \in Refusals, Refuse(result)
  PROVE  /\ pc' = "status" /\ IsJob(job') /\ job'.result = result
         /\ job'.snap = cache /\ job'.st = cache.status /\ job'.phase = ""
         /\ Decided(cache, cache.status, job')
<1>1. /\ pc' = "status"
      /\ job' = [snap |-> cache, st |-> cache.status, phase |-> "", result |-> result, body |-> NoRoute]
  BY DEF Refuse
<1>2. cache.status \in Statuses /\ "" \in Phases
  BY DEF Objects, Phases
<1> QED
  BY <1>1, <1>2 DEF IsJob, Decided

\* A tick ages the copies the worker holds and nothing else of its job.
LEMMA TickedJobKeeps ==
  ASSUME IsJob(job), pc # "idle", Tick
  PROVE  /\ IsJob(job') /\ job'.snap = Aged(job.snap) /\ job'.st = AgedStatus(job.st)
         /\ job'.phase = job.phase /\ job'.result = job.result /\ job'.body = job.body
<1>1. job' = [job EXCEPT !.snap = Aged(@), !.st = AgedStatus(@)]
  BY DEF Tick
<1>2. job' = [snap |-> Aged(job.snap), st |-> AgedStatus(job.st), phase |-> job.phase,
              result |-> job.result, body |-> job.body]
  BY <1>1 DEF IsJob
<1>3. Aged(job.snap) \in Objects /\ AgedStatus(job.st) \in Statuses
  BY AgedKeeps, AgedStatusKeeps DEF IsJob
<1> QED
  BY <1>2, <1>3 DEF IsJob

\* Initially: a new policy, its event queued, nothing else.
LEMMA InitIInv == Init => IInv
<1> SUFFICES ASSUME Init PROVE IInv
  OBVIOUS
<1>1. /\ MaxEdits \in Nat /\ MaxFaults \in Nat /\ MaxAge \in Nat
  BY ReconcilerAssumption
<1>2. PICK s \in Specs : policy = NewPolicy(0, s)
  BY DEF Init
<1>3. policy \in Objects /\ policy.uid = 0 /\ policy.gen = 1
  BY <1>1, <1>2, NewPolicyTyped DEF NewPolicy
<1>4. IsRoute(route)
  BY ReconcilerAssumption DEF Init
<1>5. Buffers(samples)
  BY DEF Init, NoData, Buffers
<1>6. IsWeights(gauges.weights) /\ gauges.phase \in Phases
  BY DEF Init, NoGauges, NoWeights, IsWeights, Phases
<1>7. TypeInv
  BY <1>1, <1>3, <1>4, <1>5, <1>6 DEF TypeInv, Init
<1>8. OrderInv
  BY <1>1, <1>3 DEF OrderInv, Init
<1>9. JobInv /\ SettledInv
  BY DEF JobInv, SettledInv, Init
<1> QED
  BY <1>7, <1>8, <1>9 DEF IInv

\* The worker's steps keep the types.
LEMMA WorkerKeepsTypes == TypeInv /\ JobInv /\ Worker => TypeInv'
<1> SUFFICES ASSUME TypeInv, JobInv, Worker PROVE TypeInv'
  OBVIOUS
<1> USE DEF server, caches, work, worker, memory, limits
<1>0. 0 \in 0..MaxAge
  BY ReconcilerAssumption
<1>1. CASE ForgetPolicy
  <2>1. Buffers(samples')
    BY <1>1, ForgetKeeps DEF ForgetPolicy, TypeInv
  <2>2. IsWeights(gauges'.weights) /\ gauges'.phase \in Phases
    BY <1>1 DEF ForgetPolicy, NoGauges, NoWeights, IsWeights, Phases
  <2> QED
    BY <1>0, <1>1, <2>1, <2>2 DEF ForgetPolicy, Dequeue, TypeInv
<1>2. CASE RejectSpec
  <2>1. cache \in Objects /\ Refuse("InvalidSpec")
    BY <1>2, LiveObject DEF RejectSpec, TypeInv
  <2>2. pc' = "status" /\ IsJob(job')
    BY <2>1, RefuseKeeps DEF Refusals
  <2> QED
    BY <1>0, <1>2, <2>2 DEF RejectSpec, Refuse, Dequeue, TypeInv
<1>3. CASE HonorPause
  <2>1. cache \in Objects /\ Refuse("Paused")
    BY <1>3, LiveObject DEF HonorPause, TypeInv
  <2>2. pc' = "status" /\ IsJob(job')
    BY <2>1, RefuseKeeps DEF Refusals
  <2> QED
    BY <1>0, <1>3, <2>2 DEF HonorPause, Refuse, Dequeue, TypeInv
<1>4. CASE Steer
  <2>1. pc' \in {"route", "status"} /\ IsJob(job') /\ Buffers(samples')
    BY <1>4, SteerKeeps
  <2> QED
    BY <1>0, <1>4, <2>1 DEF Steer, Dequeue, TypeInv
<1>5. CASE PatchRoute
  <2>1. IsJob(job)
    BY <1>5 DEF PatchRoute, TypeInv
  <2>2. pc' = "status" /\ IsJob(job')
    BY <1>5, <2>1, AnsweredKeeps DEF PatchRoute
  <2>3. route' = NoRoute \/ IsRoute(route')
    BY <1>5, <2>1 DEF PatchRoute, TypeInv, IsJob
  <2> QED
    BY <1>5, <2>2, <2>3 DEF PatchRoute, TypeInv
<1>6. CASE PatchRouteFails
  <2>1. IsJob(job)
    BY <1>6 DEF PatchRouteFails, TypeInv
  <2>2. pc' = "status" /\ IsJob(job')
    BY <1>6, <2>1, AnsweredKeeps DEF PatchRouteFails
  <2>3. route' = NoRoute \/ IsRoute(route')
    BY <1>6, <2>1 DEF PatchRouteFails, TypeInv, IsJob
  <2>4. faults' \in 0..MaxFaults
    BY <1>6, ReconcilerAssumption DEF PatchRouteFails, TypeInv
  <2> QED
    BY <1>6, <2>2, <2>3, <2>4 DEF PatchRouteFails, TypeInv
<1>7. CASE PatchStatus \/ PatchStatusFails
  <2>1. IsJob(job) /\ job.result # "none"
    BY <1>7 DEF PatchStatus, PatchStatusFails, TypeInv, JobInv
  <2>2. policy' \in Objects \cup {Absent}
    BY <1>7, <2>1, LiveObject, PublishKeeps DEF PatchStatus, PatchStatusFails, TypeInv
  <2>3. IsWeights(gauges'.weights) /\ gauges'.phase \in Phases
    BY <1>7, <2>1, RecordedKeeps DEF PatchStatus, PatchStatusFails, Finished, TypeInv
  <2>4. queue' \in {"none", "ready", "delayed", "backoff"} /\ delay' \in 0..MaxAge
    <3>1. Succeed \/ Requeue("backoff", 0)
      BY <1>7 DEF PatchStatus, PatchStatusFails
    <3> QED
      BY <1>0, <2>1, <3>1, SucceedKeeps, RequeueKeeps DEF TypeInv
  <2>5. pc' = "idle" /\ job' = NoJob
    BY <1>7 DEF PatchStatus, PatchStatusFails, Finished
  <2>6. edits' \in 0..MaxEdits /\ faults' \in 0..MaxFaults
    BY <1>7, ReconcilerAssumption DEF PatchStatus, PatchStatusFails, TypeInv
  <2>7. UNCHANGED <<route, cache, routeCache, samples>>
    BY <1>7 DEF PatchStatus, PatchStatusFails
  <2> QED
    BY <2>2, <2>3, <2>4, <2>5, <2>6, <2>7 DEF TypeInv
<1> QED
  BY <1>1, <1>2, <1>3, <1>4, <1>5, <1>6, <1>7 DEF Worker

\* So do the informers, the queue and the clock.
LEMMA MachineKeepsTypes == TypeInv /\ Machine => TypeInv'
<1> SUFFICES ASSUME TypeInv, Machine PROVE TypeInv'
  OBVIOUS
<1> USE DEF server, caches, work, worker, memory, limits
<1>0. 0 \in 0..MaxAge /\ MaxAge \in Nat
  BY ReconcilerAssumption
<1>1. CASE SyncPolicy
  BY <1>0, <1>1 DEF SyncPolicy, TypeInv
<1>2. CASE SyncRoute
  BY <1>2 DEF SyncRoute, TypeInv
<1>3. CASE DelayOver
  BY <1>3 DEF DelayOver, TypeInv
<1>4. CASE BackoffOver
  BY <1>4 DEF BackoffOver, TypeInv
<1>5. CASE Tick
  <2>1. policy' \in Objects \cup {Absent} /\ cache' \in Objects \cup {Absent}
    BY <1>5, AgedAny DEF Tick, TypeInv
  <2>2. delay' \in 0..MaxAge
    BY <1>0, <1>5 DEF Tick, TypeInv
  <2>3. /\ pc' = "idle" => job' = NoJob
        /\ pc' # "idle" => IsJob(job')
    BY <1>5, TickedJobKeeps DEF Tick, TypeInv
  <2> QED
    BY <1>5, <2>1, <2>2, <2>3 DEF Tick, TypeInv
<1> QED
  BY <1>1, <1>2, <1>3, <1>4, <1>5 DEF Machine

\* So do the users and a crash.
LEMMA EnvironmentKeepsTypes == TypeInv /\ OrderInv /\ Environment => TypeInv'
<1> SUFFICES ASSUME TypeInv, OrderInv, Environment PROVE TypeInv'
  OBVIOUS
<1> USE DEF server, caches, work, worker, memory, limits
<1>0. 0 \in 0..MaxAge /\ MaxEdits \in Nat /\ MaxFaults \in Nat
  BY ReconcilerAssumption
<1>1. CASE EditSpec
  <2>1. policy \in Objects /\ policy.gen <= MaxEdits - edits + 1 /\ edits > 0 /\ edits' = edits - 1
    BY <1>1, LiveObject DEF EditSpec, UserEdit, TypeInv, OrderInv
  <2>2. PICK s \in Specs \ {policy.spec} : policy' = [policy EXCEPT !.spec = s, !.gen = @ + 1]
    BY <1>1 DEF EditSpec
  <2>3. policy.gen + 1 \in 1..(MaxEdits + 1)
    BY <1>0, <2>1 DEF Objects, TypeInv
  <2>4. policy' \in Objects
    BY <2>1, <2>2, <2>3 DEF Objects
  <2>5. edits' \in 0..MaxEdits
    BY <1>0, <2>1 DEF TypeInv
  <2> QED
    BY <1>1, <2>4, <2>5 DEF EditSpec, UserEdit, TypeInv
<1>2. CASE DeletePolicy
  BY <1>0, <1>2 DEF DeletePolicy, UserEdit, TypeInv
<1>3. CASE CreatePolicy
  <2>1. edits' \in 0..MaxEdits /\ MaxEdits - edits' \in 0..MaxEdits
    BY <1>0, <1>3 DEF CreatePolicy, UserEdit, TypeInv
  <2>2. policy' \in Objects
    BY <1>3, <2>1, NewPolicyTyped DEF CreatePolicy
  <2> QED
    BY <1>3, <2>1, <2>2 DEF CreatePolicy, UserEdit, TypeInv
<1>4. CASE EditRoute
  <2>1. route' = NoRoute \/ IsRoute(route')
    BY <1>4, ReconcilerAssumption DEF EditRoute
  <2> QED
    BY <1>0, <1>4, <2>1 DEF EditRoute, UserEdit, TypeInv
<1>5. CASE CrashAndRestart
  <2>1. Buffers(samples')
    BY <1>5 DEF CrashAndRestart, NoData, Buffers
  <2>2. IsWeights(gauges'.weights) /\ gauges'.phase \in Phases
    BY <1>5 DEF CrashAndRestart, NoGauges, NoWeights, IsWeights, Phases
  <2> QED
    BY <1>0, <1>5, <2>1, <2>2 DEF CrashAndRestart, TypeInv
<1> QED
  BY <1>1, <1>2, <1>3, <1>4, <1>5 DEF Environment

\* The numbers of policies and generations keep their order: the worker's patch changes
\* neither, the cache copies them, and an edit takes a fresh one.
LEMMA OrderKept == TypeInv /\ TypeInv' /\ OrderInv /\ JobInv /\ [Next]_vars => OrderInv'
<1> SUFFICES ASSUME TypeInv, TypeInv', OrderInv, JobInv, [Next]_vars PROVE OrderInv'
  OBVIOUS
<1> USE DEF server, caches, work, worker, memory, limits
<1>0. /\ MaxEdits \in Nat /\ edits \in Int /\ edits' \in Int
      /\ policy.live => policy \in Objects /\ policy.uid \in Int /\ policy.gen \in Int
      /\ cache.live => cache \in Objects /\ cache.uid \in Int /\ cache.gen \in Int
  <2>1. (policy.live => policy \in Objects) /\ (cache.live => cache \in Objects)
    BY LiveObject DEF TypeInv
  <2>2. \A p \in Objects : p.uid \in Int /\ p.gen \in Int
    BY DEF Objects
  <2>3. MaxEdits \in Nat /\ edits \in Int /\ edits' \in Int
    BY ReconcilerAssumption DEF TypeInv
  <2> QED
    BY <2>1, <2>2, <2>3
<1>1. CASE UNCHANGED <<policy, cache, edits>>
  BY <1>1 DEF OrderInv
<1>2. CASE PatchStatus \/ PatchStatusFails
  <2>1. UNCHANGED <<cache, edits>>
    BY <1>2 DEF PatchStatus, PatchStatusFails
  <2>2. CASE policy' = policy
    BY <2>1, <2>2 DEF OrderInv
  <2>3. CASE policy' # policy
    <3>1. IsJob(job) /\ job.result # "none"
      BY <1>2 DEF PatchStatus, PatchStatusFails, TypeInv, JobInv
    <3>2. policy \in Objects /\ policy' = [policy EXCEPT !.status = Merged(@, job)]
      BY <1>0, <1>2, <2>3 DEF PatchStatus, PatchStatusFails
    <3>3. policy'.uid = policy.uid /\ policy'.gen = policy.gen
      BY <3>1, <3>2, PublishKeeps
    <3>4. policy.live
      BY <3>2, LiveObject
    <3> QED
      BY <2>1, <3>3, <3>4 DEF OrderInv
  <2> QED
    BY <2>2, <2>3
<1>3. CASE SyncPolicy
  BY <1>0, <1>3 DEF SyncPolicy, OrderInv
<1>4. CASE Tick
  <2>1. /\ policy' = Aged(policy) /\ cache' = Aged(cache) /\ edits' = edits
    BY <1>4 DEF Tick
  <2>2. /\ policy'.live <=> policy.live
        /\ policy.live => policy'.uid = policy.uid /\ policy'.gen = policy.gen
    BY <1>0, <2>1, AgedKeeps, AgedAny DEF TypeInv
  <2>3. /\ cache'.live <=> cache.live
        /\ cache.live => cache'.uid = cache.uid /\ cache'.gen = cache.gen
    BY <1>0, <2>1, AgedKeeps, AgedAny DEF TypeInv
  <2> QED
    BY <2>1, <2>2, <2>3 DEF OrderInv
<1>5. CASE EditSpec
  <2>1. policy.live /\ policy \in Objects /\ edits' = edits - 1 /\ cache' = cache
    BY <1>0, <1>5 DEF EditSpec, UserEdit
  <2>2. policy'.uid = policy.uid /\ policy'.gen = policy.gen + 1
    BY <1>5, <2>1 DEF EditSpec, Objects
  <2> QED
    BY <1>0, <2>1, <2>2 DEF OrderInv
<1>6. CASE DeletePolicy
  <2>1. ~policy'.live /\ edits' = edits - 1 /\ cache' = cache
    BY <1>6 DEF DeletePolicy, UserEdit, Absent
  <2> QED
    BY <1>0, <2>1 DEF OrderInv
<1>7. CASE CreatePolicy
  <2>1. policy'.uid = MaxEdits - edits' /\ policy'.gen = 1 /\ edits' = edits - 1 /\ cache' = cache
    BY <1>7 DEF CreatePolicy, UserEdit, NewPolicy
  <2>2. edits' <= MaxEdits
    BY <1>0 DEF TypeInv
  <2> QED
    BY <1>0, <2>1, <2>2 DEF OrderInv
<1>8. CASE EditRoute
  BY <1>0, <1>8 DEF EditRoute, UserEdit, OrderInv
<1>9. CASE CrashAndRestart
  BY <1>0, <1>9 DEF CrashAndRestart, OrderInv
<1>10. CASE ForgetPolicy \/ RejectSpec \/ HonorPause \/ Steer \/ PatchRoute \/ PatchRouteFails
  BY <1>1, <1>10 DEF ForgetPolicy, RejectSpec, HonorPause, Refuse, Steer, PatchRoute, PatchRouteFails
<1>11. CASE SyncRoute \/ DelayOver \/ BackoffOver \/ UNCHANGED vars
  BY <1>1, <1>11 DEF SyncRoute, DelayOver, BackoffOver, vars
<1> QED
  BY <1>2, <1>3, <1>4, <1>5, <1>6, <1>7, <1>8, <1>9, <1>10, <1>11
  DEF Next, Worker, Machine, Environment

\* The verdict stays right about the copy it is of, and the copy stays the cache's until an
\* event replaces the cache and queues the policy again.
LEMMA JobKept == TypeInv /\ JobInv /\ [Next]_vars => JobInv'
<1> SUFFICES ASSUME TypeInv, JobInv, [Next]_vars PROVE JobInv'
  OBVIOUS
<1> USE DEF server, caches, work, worker, memory, limits
<1>1. CASE ForgetPolicy
  BY <1>1 DEF ForgetPolicy, Dequeue, TypeInv, JobInv
<1>2. CASE RejectSpec
  <2>1. cache \in Objects /\ Refuse("InvalidSpec") /\ queue' = "none" /\ cache' = cache
        /\ ~ValidSpec(cache.spec.backends)
    BY <1>2, LiveObject DEF RejectSpec, Refuse, Dequeue, TypeInv
  <2>2. /\ pc' = "status" /\ job'.result = "InvalidSpec" /\ job'.snap = cache /\ job'.st = cache.status
        /\ Decided(cache, cache.status, job')
    BY <2>1, RefuseKeeps DEF Refusals
  <2> QED
    BY <2>1, <2>2 DEF JobInv
<1>3. CASE HonorPause
  <2>1. cache \in Objects /\ Refuse("Paused") /\ queue' = "none" /\ cache' = cache
        /\ ValidSpec(cache.spec.backends) /\ cache.spec.paused
    BY <1>3, LiveObject DEF HonorPause, Refuse, Dequeue, TypeInv
  <2>2. /\ pc' = "status" /\ job'.result = "Paused" /\ job'.snap = cache /\ job'.st = cache.status
        /\ Decided(cache, cache.status, job')
    BY <2>1, RefuseKeeps DEF Refusals
  <2> QED
    BY <2>1, <2>2 DEF JobInv
<1>4. CASE Steer
  <2>1. queue' = "none" /\ cache' = cache
    BY <1>4 DEF Steer, Dequeue
  <2>2. Active(cache) /\ job'.snap = cache /\ job'.result \in {"none", "RouteMissing", "Reconciled"}
        /\ (pc' = "route" <=> job'.result = "none")
        /\ (cache.status.weights # NoWeights => Decided(cache, cache.status, job'))
    BY <1>4, SteerKeeps
  <2> QED
    BY <2>1, <2>2 DEF JobInv, Active, Refusals
<1>5. CASE PatchRoute \/ PatchRouteFails
  <2>1. pc = "route" /\ IsJob(job) /\ UNCHANGED <<cache, queue>>
        /\ (Answered("Reconciled") \/ Answered("RouteUpdateFailed"))
    BY <1>5 DEF PatchRoute, PatchRouteFails, TypeInv
  <2>2. /\ pc' = "status" /\ job'.result \in {"Reconciled", "RouteUpdateFailed"}
        /\ job'.snap = job.snap /\ job'.st = job.st /\ job'.phase = job.phase
    BY <2>1, AnsweredKeeps
  <2>3. job.result = "none"
    BY <2>1 DEF JobInv
  <2> QED
    BY <2>1, <2>2, <2>3 DEF JobInv, Refusals, Decided
<1>6. CASE PatchStatus \/ PatchStatusFails \/ CrashAndRestart
  BY <1>6 DEF PatchStatus, PatchStatusFails, Finished, CrashAndRestart, JobInv
<1>7. CASE SyncPolicy
  BY <1>7 DEF SyncPolicy, JobInv
<1>8. CASE Tick
  <2>1. pc' = pc /\ queue' = queue /\ cache' = Aged(cache)
    BY <1>8 DEF Tick
  <2>2. ASSUME pc # "idle"
        PROVE  /\ job'.snap = Aged(job.snap) /\ job'.st = AgedStatus(job.st) /\ job'.result = job.result
               /\ Aged(job.snap).status = AgedStatus(job.snap.status) /\ Aged(job.snap).spec = job.snap.spec
               /\ job'.snap.status.weights = job.snap.status.weights
               /\ Decided(job.snap, job.snap.status, job) => Decided(job'.snap, job'.snap.status, job')
    <3>1. IsJob(job) /\ job.snap \in Objects /\ job.snap.status \in Statuses
      BY <2>2, ObjectTypes DEF TypeInv, IsJob
    <3>2. /\ job'.snap = Aged(job.snap) /\ job'.st = AgedStatus(job.st) /\ job'.result = job.result
          /\ job'.phase = job.phase
      BY <1>8, <2>2, <3>1, TickedJobKeeps
    <3>3. Decided(job.snap, job.snap.status, job) => Decided(job'.snap, job'.snap.status, job')
      BY <3>1, <3>2, DecidedStays
    <3> QED
      BY <3>1, <3>2, <3>3, AgedKeeps, AgedStatusKeeps
  <2> QED
    BY <2>1, <2>2 DEF JobInv
<1>9. CASE DelayOver \/ BackoffOver
  BY <1>9 DEF DelayOver, BackoffOver, JobInv
<1>10. CASE SyncRoute \/ EditSpec \/ DeletePolicy \/ CreatePolicy \/ EditRoute \/ UNCHANGED vars
  BY <1>10 DEF SyncRoute, EditSpec, DeletePolicy, CreatePolicy, EditRoute, vars, JobInv
<1> QED
  BY <1>1, <1>2, <1>3, <1>4, <1>5, <1>6, <1>7, <1>8, <1>9, <1>10
  DEF Next, Worker, Machine, Environment

\* A status is its fields.
LEMMA SameStatus ==
  ASSUME NEW a \in Statuses, NEW b \in Statuses,
         a.phase = b.phase, a.weights = b.weights, a.changeAge = b.changeAge,
         a.evaluatedNow = b.evaluatedNow, a.why = b.why, a.obsGen = b.obsGen, a.conds = b.conds
  PROVE  a = b
<1> DEFINE F == {"phase", "weights", "changeAge", "evaluatedNow", "why", "obsGen", "conds"}
<1>1. a = [f \in F |-> a[f]] /\ b = [f \in F |-> b[f]]
  BY DEF Statuses
<1>2. \A f \in F : a[f] = b[f]
  OBVIOUS
<1> HIDE DEF F
<1> QED
  BY <1>1, <1>2

\* A patch computed from the cache's copy either leaves the server as the cache has it, with
\* nothing to publish, or makes the copy outdated in the field it changed.
LEMMA RefusalSettles ==
  ASSUME TypeInv, OrderInv, JobInv, pc # "idle", job.result \in Refusals, job.snap = cache,
         \/ SkipsPatch(job) /\ policy' = policy
         \/ /\ ~SkipsPatch(job) /\ policy.live
            /\ policy' = [policy EXCEPT !.status = Merged(@, job)]
  PROVE  Settled(cache) \/ Outdated(policy', cache)
<1>1. /\ IsJob(job) /\ cache \in Objects /\ job.result # "none" /\ job.st = cache.status
      /\ cache.status \in Statuses
      /\ (job.result = "InvalidSpec" <=> ~ValidSpec(cache.spec.backends))
      /\ (job.result = "Paused" <=> (ValidSpec(cache.spec.backends) /\ cache.spec.paused))
  BY DEF TypeInv, JobInv, IsJob, Refusals, Objects
<1>2. /\ Desired(job) \in Statuses
      /\ Desired(job).weights = cache.status.weights /\ Desired(job).why = cache.status.why
      /\ Desired(job).changeAge = cache.status.changeAge
      /\ Desired(job).evaluatedNow = cache.status.evaluatedNow
      /\ Desired(job).obsGen = cache.gen
      /\ job.result = "InvalidSpec" => Desired(job).phase = "Degraded"
      /\ job.result = "Paused" => Desired(job).phase = "Frozen"
  BY <1>1, DesiredKeeps
<1>3. CASE SkipsPatch(job)
  <2>1. Desired(job) = cache.status
    BY <1>3 DEF SkipsPatch
  <2> QED
    BY <1>1, <1>2, <2>1 DEF Settled, Active, Refusals
<1>4. CASE ~SkipsPatch(job) /\ policy.live /\ policy' = [policy EXCEPT !.status = Merged(@, job)]
  <2>1. Desired(job) # cache.status
    BY <1>4 DEF SkipsPatch, Refusals
  <2>2. PICK f \in Published : Desired(job)[f] # cache.status[f]
    <3>1. ASSUME \A f \in Published : Desired(job)[f] = cache.status[f]
          PROVE  Desired(job) = cache.status
      <4>1. /\ Desired(job).phase = cache.status.phase /\ Desired(job).obsGen = cache.status.obsGen
            /\ Desired(job).conds = cache.status.conds
        BY <3>1 DEF Published
      <4> QED
        BY <1>1, <1>2, <4>1, SameStatus
    <3> QED
      BY <2>1, <3>1
  <2>3. policy \in Objects
    BY <1>4, LiveObject DEF TypeInv
  <2>4. policy'.status[f] = Desired(job)[f]
    BY <1>1, <1>4, <2>2, <2>3, PublishKeeps
  <2> QED
    BY <2>2, <2>4 DEF Outdated
<1> QED
  BY <1>3, <1>4

\* While the worker is idle: what has been settled stays so and what is outdated stays so,
\* until the event comes.
LEMMA EditsKeepSettled ==
  ASSUME TypeInv, OrderInv, cache.live, Settled(cache) \/ Outdated(policy, cache),
         EditSpec \/ DeletePolicy \/ CreatePolicy
  PROVE  Settled(cache) \/ Outdated(policy', cache)
<1>1. CASE Settled(cache)
  BY <1>1
<1>2. CASE EditSpec
  <2>1. policy.live /\ policy \in Objects /\ cache \in Objects
    BY <1>2, LiveObject DEF EditSpec, TypeInv
  <2>2. policy'.uid = policy.uid /\ policy'.gen = policy.gen + 1
    BY <1>2, <2>1 DEF EditSpec, Objects
  <2>3. cache.uid < policy.uid \/ (cache.uid = policy.uid /\ cache.gen <= policy.gen)
    BY <2>1 DEF OrderInv
  <2>4. /\ policy.uid \in Int /\ cache.uid \in Int /\ policy.gen \in Int /\ cache.gen \in Int
    BY <2>1 DEF Objects
  <2> QED
    BY <2>2, <2>3, <2>4 DEF Outdated
<1>3. CASE DeletePolicy
  <2>1. policy' = Absent
    BY <1>3 DEF DeletePolicy
  <2> QED
    BY <2>1, AgedAbsent DEF Outdated
<1>4. CASE CreatePolicy
  <2>1. policy'.uid = MaxEdits - edits' /\ edits' = edits - 1
    BY <1>4 DEF CreatePolicy, UserEdit, NewPolicy
  <2>2. cache \in Objects /\ cache.uid <= MaxEdits - edits
    BY LiveObject DEF TypeInv, OrderInv
  <2>3. cache.uid \in Int /\ MaxEdits \in Int /\ edits \in Int
    BY <2>2, ReconcilerAssumption DEF Objects, TypeInv
  <2> QED
    BY <2>1, <2>2, <2>3 DEF Outdated
<1> QED
  BY <1>2, <1>3, <1>4

\* Ageing changes no published field.
LEMMA AgeingKeepsSettled ==
  ASSUME TypeInv, cache.live, Settled(cache) \/ Outdated(policy, cache)
  PROVE  Settled(Aged(cache)) \/ Outdated(Aged(policy), Aged(cache))
<1>1. cache \in Objects
  BY LiveObject DEF TypeInv
<1>2. \A p \in Objects : /\ Aged(p).uid = p.uid /\ Aged(p).gen = p.gen /\ Aged(p).spec = p.spec
                         /\ Aged(p).live /\ p.live
                         /\ \A f \in Published : Aged(p).status[f] = p.status[f]
  <2> SUFFICES ASSUME NEW p \in Objects
               PROVE  /\ Aged(p).uid = p.uid /\ Aged(p).gen = p.gen /\ Aged(p).spec = p.spec
                      /\ Aged(p).live /\ p.live
                      /\ \A f \in Published : Aged(p).status[f] = p.status[f]
    OBVIOUS
  <2>1. p.status \in Statuses
    BY DEF Objects
  <2> QED
    BY <2>1, AgedKeeps, AgedStatusKeeps, LiveObject DEF Published
<1>3. CASE Settled(cache)
  <2>1. Aged(cache).status.obsGen = cache.status.obsGen /\ Aged(cache).status.phase = cache.status.phase
    BY <1>1, <1>2 DEF Published
  <2> QED
    BY <1>1, <1>2, <1>3, <2>1 DEF Settled, Active
<1>4. CASE Outdated(policy, cache)
  <2>1. CASE ~policy.live
    BY <2>1, AgedAny DEF TypeInv, Outdated
  <2>2. CASE policy.live
    <3>1. policy \in Objects
      BY <2>2, LiveObject DEF TypeInv
    <3> QED
      BY <1>1, <1>2, <1>4, <3>1 DEF Outdated
  <2> QED
    BY <2>1, <2>2
<1> QED
  BY <1>3, <1>4

\* The queue runs empty only when there is nothing left to do.
LEMMA SettledKept == IInv /\ TypeInv' /\ [Next]_vars => SettledInv'
<1> SUFFICES ASSUME IInv, TypeInv', [Next]_vars PROVE SettledInv'
  OBVIOUS
<1> USE DEF server, caches, work, worker, memory, limits
<1>0. TypeInv /\ OrderInv /\ JobInv /\ SettledInv
  BY DEF IInv
<1>1. CASE ForgetPolicy
  BY <1>1 DEF ForgetPolicy, SettledInv
<1>2. CASE RejectSpec \/ HonorPause \/ Steer \/ PatchRoute \/ PatchRouteFails
  <2>1. pc' # "idle"
    BY <1>0, <1>2, SteerKeeps
    DEF RejectSpec, HonorPause, Refuse, PatchRoute, PatchRouteFails, Answered
  <2> QED
    BY <2>1 DEF SettledInv
<1>3. CASE PatchStatus \/ PatchStatusFails
  <2>1. pc = "status" /\ IsJob(job) /\ job.result # "none" /\ cache' = cache
    BY <1>0, <1>3 DEF PatchStatus, PatchStatusFails, TypeInv, JobInv
  <2>2. queue \in {"none", "ready", "delayed", "backoff"} /\ delay \in 0..MaxAge /\ 0 \in 0..MaxAge
    BY <1>0, ReconcilerAssumption DEF TypeInv
  <2>3. CASE queue' # "none"
    BY <2>3 DEF SettledInv
  <2>4. CASE queue' = "none"
    <3>1. ~Requeue("backoff", 0)
      BY <2>2, <2>4, RequeueKeeps
    <3>2. Succeed
      BY <1>3, <3>1 DEF PatchStatus, PatchStatusFails
    <3>3. job.result \in Refusals /\ queue = "none"
      BY <2>1, <2>2, <2>4, <3>2, SucceedKeeps
    <3>4. job.snap = cache /\ cache \in Objects
      BY <1>0, <2>1, <3>3 DEF JobInv, IsJob
    <3>5. \/ SkipsPatch(job) /\ policy' = policy
          \/ /\ ~SkipsPatch(job) /\ policy.live
             /\ policy' = [policy EXCEPT !.status = Merged(@, job)]
      BY <1>3, <3>1 DEF PatchStatus, PatchStatusFails
    <3>6. Settled(cache) \/ Outdated(policy', cache)
      BY <1>0, <2>1, <3>3, <3>4, <3>5, RefusalSettles
    <3> QED
      BY <2>1, <3>4, <3>6, LiveObject DEF SettledInv
  <2> QED
    BY <2>3, <2>4
<1>4. CASE SyncPolicy \/ DelayOver \/ BackoffOver
  BY <1>4 DEF SyncPolicy, DelayOver, BackoffOver, SettledInv
<1>5. CASE Tick
  <2>1. /\ policy' = Aged(policy) /\ cache' = Aged(cache) /\ UNCHANGED <<queue, pc, gauges>>
    BY <1>5 DEF Tick
  <2>2. Aged(cache).live <=> cache.live
    BY <1>0, AgedAny DEF TypeInv
  <2> QED
    BY <1>0, <2>1, <2>2, AgeingKeepsSettled DEF SettledInv
<1>6. CASE EditSpec \/ DeletePolicy \/ CreatePolicy
  <2>1. UNCHANGED <<cache, queue, pc, gauges>>
    BY <1>6 DEF EditSpec, DeletePolicy, CreatePolicy
  <2> QED
    BY <1>0, <1>6, <2>1, EditsKeepSettled DEF SettledInv
<1>7. CASE CrashAndRestart
  BY <1>7 DEF CrashAndRestart, SettledInv
<1>8. CASE SyncRoute \/ EditRoute \/ UNCHANGED vars
  BY <1>0, <1>8 DEF SyncRoute, EditRoute, vars, SettledInv
<1> QED
  BY <1>1, <1>2, <1>3, <1>4, <1>5, <1>6, <1>7, <1>8 DEF Next, Worker, Machine, Environment

\* Every step keeps the invariant.
LEMMA StepIInv == IInv /\ [Next]_vars => IInv'
<1> SUFFICES ASSUME IInv, [Next]_vars PROVE IInv'
  OBVIOUS
<1>1. TypeInv'
  <2>1. CASE UNCHANGED vars
    BY <2>1 DEF vars, IInv, TypeInv
  <2> QED
    BY <2>1, WorkerKeepsTypes, MachineKeepsTypes, EnvironmentKeepsTypes DEF IInv, Next
<1> QED
  BY <1>1, OrderKept, JobKept, SettledKept DEF IInv

\* The invariant holds in every state the control loop reaches.
THEOREM Invariance == Spec => []IInv
<1> QED
  BY InitIInv, StepIInv, PTL DEF Spec

\* Every variable of the control loop keeps its type: the objects and the copies of them
\* that Reconcile, the caches and the patches hand around, the queue, and the smoother's
\* buffers, none of which grows past its window.
THEOREM TypeCorrect == Spec => []TypeOK
<1>1. \A p \in Objects : IsPolicy(p) /\ p.live
  <2> SUFFICES ASSUME NEW p \in Objects PROVE IsPolicy(p) /\ p.live
    OBVIOUS
  <2>1. p.status \in Statuses /\ p.live
    BY LiveObject DEF Objects
  <2>2. IsStatus(p.status)
    BY <2>1, WeightingTypes DEF IsStatus, Statuses, Generations
  <2> QED
    BY <2>1, <2>2 DEF IsPolicy, Objects
<1>2. \A st \in Statuses : IsStatus(st)
  BY WeightingTypes DEF IsStatus, Statuses, Generations
<1>3. IInv => TypeOK
  <2> SUFFICES ASSUME TypeInv PROVE TypeOK
    BY DEF IInv
  <2>1. IsPolicy(policy) /\ IsPolicy(cache)
    BY <1>1 DEF TypeInv, IsPolicy
  <2>2. pc # "idle" => job.snap.live /\ IsPolicy(job.snap) /\ IsStatus(job.st)
    BY <1>1, <1>2 DEF TypeInv, IsJob
  <2>3. \A k \in DOMAIN samples : \A b \in DOMAIN samples[k] : Len(samples[k][b]) <= MaxWindow
    BY DEF TypeInv, Buffers
  <2> QED
    BY <2>1, <2>2, <2>3 DEF TypeInv, TypeOK
<1> QED
  BY <1>3, Invariance, PTL

\* No policy is forgotten: with the queue empty, the worker idle and the cache current, a
\* policy that exists has been refused and its status says so of its latest generation.
\* Whatever edits, deletions, crashes and failed calls came before.
THEOREM NobodyForgotten == Spec => []NeverForgotten
<1>1. IInv => NeverForgotten
  BY DEF IInv, SettledInv, Settled, Outdated, NeverForgotten
<1> QED
  BY <1>1, Invariance, PTL

\* Once the deletion of a policy has been seen, its gauges are gone.
THEOREM GaugesOfDeletedDropped == Spec => []GaugesDropped
<1>1. IInv => GaugesDropped
  BY DEF IInv, SettledInv, GaugesDropped
<1> QED
  BY <1>1, Invariance, PTL

----------------------------------------------------------------------------
(* What a policy can rely on until it is created again under its name      *)

\* Of a policy that has not been created again under its name: copies are of the present or
\* of earlier generations, the ones of the latest generation hold its spec, and the published
\* verdict is about no later generation than the copy the running Reconcile holds.  Of a
\* successor it does not hold: the status patch carries neither a uid nor a resourceVersion
\* and may publish a verdict about the old policy on the new one.
ReadInv ==
  Original =>
    /\ cache.live
    /\ cache.gen <= policy.gen
    /\ cache.gen = policy.gen => cache.spec = policy.spec
    /\ policy.status.obsGen <= cache.gen /\ policy.status.conds.gen <= cache.gen
    /\ pc # "idle" =>
         /\ job.snap.gen <= cache.gen
         /\ job.snap.gen = policy.gen => job.snap.spec = policy.spec
         /\ policy.status.obsGen <= job.snap.gen /\ policy.status.conds.gen <= job.snap.gen

\* A status patch that reaches the server publishes a verdict as a whole: the generation it
\* is about and the verdict, or neither.
LEMMA PublishedVerdict ==
  ASSUME IInv, PatchStatus \/ PatchStatusFails, policy'.live
  PROVE  /\ policy \in Objects /\ policy'.uid = policy.uid
         /\ policy'.gen = policy.gen /\ policy'.spec = policy.spec
         /\ policy'.status.obsGen \in {policy.status.obsGen, job.snap.gen}
         /\ \/ policy'.status.conds = policy.status.conds
            \/ policy'.status.conds.gen = job.snap.gen /\ policy'.status.conds.ready = job.result
<1>1. IsJob(job) /\ job.result # "none"
  BY DEF PatchStatus, PatchStatusFails, IInv, TypeInv, JobInv
<1>2. CASE policy' = policy
  BY <1>2, LiveObject DEF IInv, TypeInv
<1>3. CASE policy' # policy
  <2>1. policy.live /\ policy' = [policy EXCEPT !.status = Merged(@, job)]
    BY <1>3 DEF PatchStatus, PatchStatusFails
  <2>2. policy \in Objects
    BY <2>1, LiveObject DEF IInv, TypeInv
  <2>3. /\ policy'.uid = policy.uid /\ policy'.gen = policy.gen /\ policy'.spec = policy.spec
        /\ \A f \in Published :
             policy'.status[f] = IF Desired(job)[f] # job.snap.status[f] THEN Desired(job)[f]
                                                                        ELSE policy.status[f]
    BY <1>1, <2>1, <2>2, PublishKeeps
  <2>4. policy'.status.obsGen \in {policy.status.obsGen, Desired(job).obsGen}
        /\ policy'.status.conds \in {policy.status.conds, Desired(job).conds}
    BY <2>3 DEF Published
  <2>5. /\ Desired(job).obsGen = job.snap.gen
        /\ Desired(job).conds.gen = job.snap.gen /\ Desired(job).conds.ready = job.result
    BY <1>1, DesiredKeeps
  <2> QED
    BY <2>2, <2>3, <2>4, <2>5
<1> QED
  BY <1>2, <1>3

\* No step makes a policy the original one: a creation has been counted, so its uid is not 0.
LEMMA OriginalBefore ==
  ASSUME IInv, [Next]_vars, Original'
  PROVE  Original
<1> USE DEF server, caches, work, worker, memory, limits
<1>0. TypeInv
  BY DEF IInv
<1>1. ~CreatePolicy
  <2> SUFFICES ASSUME CreatePolicy PROVE FALSE
    OBVIOUS
  <2>1. PICK s \in Specs : policy' = NewPolicy(MaxEdits - edits', s)
    BY DEF CreatePolicy
  <2>2. policy'.uid = MaxEdits - edits'
    BY <2>1 DEF NewPolicy
  <2>3. edits \in 0..MaxEdits /\ edits' = edits - 1 /\ MaxEdits \in Nat
    BY <1>0, ReconcilerAssumption DEF CreatePolicy, UserEdit, TypeInv
  <2> QED
    BY <2>2, <2>3 DEF Original
<1>2. CASE Tick
  <2>1. policy' = Aged(policy)
    BY <1>2 DEF Tick
  <2>2. policy.live /\ policy \in Objects
    BY <1>0, <2>1, AgedAny, LiveObject DEF TypeInv, Original
  <2> QED
    BY <2>1, <2>2, AgedKeeps DEF Original
<1>3. CASE PatchStatus \/ PatchStatusFails
  BY <1>3, PublishedVerdict, LiveObject DEF Original
<1>4. CASE EditSpec
  <2>1. policy.live /\ policy \in Objects
    BY <1>0, <1>4, LiveObject DEF EditSpec, TypeInv
  <2>2. policy'.uid = policy.uid
    BY <1>4, <2>1 DEF EditSpec, Objects
  <2> QED
    BY <2>1, <2>2 DEF Original
<1>5. CASE UNCHANGED policy
  BY <1>5 DEF Original
<1>6. ~DeletePolicy
  BY DEF DeletePolicy, Absent, Original
<1> QED
  BY <1>1, <1>2, <1>3, <1>4, <1>5, <1>6
  DEF Next, Worker, Machine, Environment, ForgetPolicy, RejectSpec, HonorPause, Refuse, Steer, PatchRoute,
      PatchRouteFails, SyncPolicy, SyncRoute, DelayOver, BackoffOver, EditRoute, CrashAndRestart, vars

\* Every step keeps it.
LEMMA ReadKept == IInv /\ IInv' /\ ReadInv /\ [Next]_vars => ReadInv'
<1> SUFFICES ASSUME IInv, IInv', ReadInv, [Next]_vars, Original' PROVE ReadInv'
  BY DEF ReadInv
<1> USE DEF server, caches, work, worker, memory, limits
<1>0. TypeInv /\ JobInv /\ TypeInv'
  BY DEF IInv
<1>1. \A p \in Objects \cup {Absent} :
        p.live => /\ p \in Objects /\ p.gen \in Int
                  /\ p.status.obsGen \in Int /\ p.status.conds.gen \in Int
  BY ObjectTypes, LiveObject
<1>2. pc # "idle" => job.snap \in Objects /\ job.snap.gen \in Int
  BY <1>0, ObjectTypes DEF TypeInv, IsJob
<1>3. Original /\ policy.live /\ policy'.live
  BY OriginalBefore DEF Original
<1>4. /\ policy \in Objects /\ cache \in Objects /\ cache.live
      /\ policy.gen \in Int /\ policy.status.obsGen \in Int /\ policy.status.conds.gen \in Int
      /\ cache.gen \in Int
  BY <1>0, <1>1, <1>3 DEF TypeInv, ReadInv
<1>5. CASE UNCHANGED <<policy, cache, pc, job>>
  BY <1>3, <1>5 DEF ReadInv
<1>6. CASE RejectSpec \/ HonorPause \/ Steer
  <2>1. UNCHANGED <<policy, cache>>
    BY <1>6 DEF RejectSpec, HonorPause, Refuse, Steer
  <2>2. job'.snap = cache
    BY <1>0, <1>4, <1>6, SteerKeeps, RefuseKeeps DEF RejectSpec, HonorPause, Refusals
  <2> QED
    BY <1>3, <1>4, <2>1, <2>2 DEF ReadInv
<1>7. CASE PatchRoute \/ PatchRouteFails
  <2>1. /\ UNCHANGED <<policy, cache>> /\ pc = "route" /\ IsJob(job)
        /\ (Answered("Reconciled") \/ Answered("RouteUpdateFailed"))
    BY <1>0, <1>7 DEF PatchRoute, PatchRouteFails, TypeInv
  <2>2. job'.snap = job.snap
    BY <2>1, AnsweredKeeps
  <2> QED
    BY <1>3, <2>1, <2>2 DEF ReadInv
<1>8. CASE PatchStatus \/ PatchStatusFails
  <2>1. UNCHANGED cache /\ pc' = "idle" /\ pc # "idle"
    BY <1>8 DEF PatchStatus, PatchStatusFails, Finished
  <2>2. /\ policy'.gen = policy.gen /\ policy'.spec = policy.spec
        /\ policy'.status.obsGen \in {policy.status.obsGen, job.snap.gen}
        /\ \/ policy'.status.conds = policy.status.conds
           \/ policy'.status.conds.gen = job.snap.gen
    BY <1>3, <1>8, PublishedVerdict
  <2> QED
    BY <1>2, <1>3, <1>4, <2>1, <2>2 DEF ReadInv
<1>9. CASE SyncPolicy
  BY <1>2, <1>3, <1>4, <1>9 DEF SyncPolicy, ReadInv
<1>10. CASE Tick
  <2>1. /\ policy' = Aged(policy) /\ cache' = Aged(cache) /\ pc' = pc
    BY <1>10 DEF Tick
  <2>2. \A p \in Objects : /\ Aged(p).live /\ Aged(p).gen = p.gen /\ Aged(p).spec = p.spec
                           /\ Aged(p).status.obsGen = p.status.obsGen
                           /\ Aged(p).status.conds = p.status.conds
    BY ObjectTypes, AgedKeeps, AgedStatusKeeps
  <2>3. pc # "idle" => job'.snap = Aged(job.snap)
    BY <1>0, <1>10, TickedJobKeeps DEF TypeInv
  <2> QED
    BY <1>2, <1>3, <1>4, <2>1, <2>2, <2>3 DEF ReadInv
<1>11. CASE EditSpec
  <2>1. UNCHANGED <<cache, pc, job>>
    BY <1>11 DEF EditSpec
  <2>2. policy'.gen = policy.gen + 1 /\ policy'.status = policy.status
    BY <1>4, <1>11 DEF EditSpec, Objects
  <2> QED
    BY <1>2, <1>3, <1>4, <2>1, <2>2 DEF ReadInv
<1>12. CASE DeletePolicy \/ CreatePolicy
  BY <1>3, <1>12, AgedAbsent DEF DeletePolicy, CreatePolicy
<1>13. CASE CrashAndRestart
  BY <1>3, <1>4, <1>13 DEF CrashAndRestart, ReadInv
<1>14. CASE ForgetPolicy \/ SyncRoute \/ DelayOver \/ BackoffOver \/ EditRoute \/ UNCHANGED vars
  BY <1>5, <1>14 DEF ForgetPolicy, SyncRoute, DelayOver, BackoffOver, EditRoute, vars
<1> QED
  BY <1>6, <1>7, <1>8, <1>9, <1>10, <1>11, <1>12, <1>13, <1>14
  DEF Next, Worker, Machine, Environment

\* Initially the cache is current and nothing has been published.
LEMMA InitReadInv == Init => ReadInv
<1> SUFFICES ASSUME Init PROVE ReadInv
  OBVIOUS
<1>1. PICK s \in Specs : policy = NewPolicy(0, s)
  BY DEF Init
<1>2. policy.live /\ policy.gen = 1 /\ policy.status.obsGen = 0 /\ policy.status.conds.gen = 0
  BY <1>1 DEF NewPolicy, NewStatus
<1> QED
  BY <1>2 DEF ReadInv, Init

\* Once the status acknowledges the pause of the latest generation, no write of the
\* controller to the route is under way: whatever was in flight when the pause was written,
\* however stale the cache, whatever failed or crashed.
THEOREM PauseLasts == Spec => []PauseSticks
<1>1. IInv /\ ReadInv => PauseSticks
  <2> SUFFICES ASSUME IInv, ReadInv, Original, pc = "route", PauseAcknowledged PROVE FALSE
    BY DEF PauseSticks
  <2>1. /\ policy.live /\ policy.spec.paused /\ policy.status.obsGen = policy.gen
        /\ cache.live /\ policy \in Objects /\ cache \in Objects /\ job.snap \in Objects
    BY LiveObject DEF PauseAcknowledged, ReadInv, IInv, TypeInv, IsJob
  <2>2. policy.gen \in Int /\ cache.gen \in Int /\ job.snap.gen \in Int
    BY <2>1, ObjectTypes
  <2>3. job.snap.gen = policy.gen /\ job.snap.spec = policy.spec
    BY <2>1, <2>2 DEF ReadInv
  <2>4. job.result = "none"
    BY DEF IInv, JobInv
  <2> QED
    BY <2>1, <2>3, <2>4 DEF IInv, JobInv
<1>2. IInv /\ IInv' /\ ReadInv /\ [Next]_vars => ReadInv'
  BY ReadKept
<1> QED
  BY <1>1, <1>2, InitReadInv, Invariance, PTL DEF Spec

\* What the conditions say of the latest generation is true of it, although the patch that
\* wrote them was computed from a stale copy and merged into a newer object.
THEOREM VerdictIsRight == Spec => []ReadyMatchesSpec
<1>1. Init => ReadyMatchesSpec
  <2> SUFFICES ASSUME Init PROVE ReadyMatchesSpec
    OBVIOUS
  <2>1. PICK s \in Specs : policy = NewPolicy(0, s)
    BY DEF Init
  <2>2. policy.gen = 1 /\ policy.status.conds.gen = 0
    BY <2>1 DEF NewPolicy, NewStatus
  <2> QED
    BY <2>2 DEF ReadyMatchesSpec
<1>2. IInv /\ IInv' /\ ReadInv /\ ReadInv' /\ ReadyMatchesSpec /\ [Next]_vars => ReadyMatchesSpec'
  <2> SUFFICES ASSUME IInv, IInv', ReadInv, ReadInv', ReadyMatchesSpec, [Next]_vars,
                      Original', policy'.status.conds.gen = policy'.gen
               PROVE  ReadyMatchesSpec'
    BY DEF ReadyMatchesSpec
  <2> USE DEF server, caches, work, worker, memory, limits
  <2>0. Original /\ policy.live /\ policy'.live
    BY OriginalBefore DEF Original
  <2>1. CASE UNCHANGED policy
    BY <2>0, <2>1 DEF ReadyMatchesSpec
  <2>2. CASE PatchStatus \/ PatchStatusFails
    <3>1. /\ policy \in Objects /\ policy'.gen = policy.gen /\ policy'.spec = policy.spec
          /\ \/ policy'.status.conds = policy.status.conds
             \/ policy'.status.conds.gen = job.snap.gen /\ policy'.status.conds.ready = job.result
      BY <2>0, <2>2, PublishedVerdict
    <3>2. policy.live
      BY <3>1, LiveObject
    <3>3. CASE policy'.status.conds = policy.status.conds
      BY <2>0, <3>1, <3>2, <3>3 DEF ReadyMatchesSpec
    <3>4. CASE policy'.status.conds.gen = job.snap.gen /\ policy'.status.conds.ready = job.result
      <4>1. pc # "idle" /\ pc # "route"
        BY <2>2 DEF PatchStatus, PatchStatusFails
      <4>2. job.snap.spec = policy.spec
        BY <2>0, <3>1, <3>2, <3>4, <4>1 DEF ReadInv
      <4>3. job.result \in Refusals \cup Outcomes
        BY <4>1 DEF IInv, TypeInv, JobInv, IsJob
      <4>4. /\ job.result = "InvalidSpec" <=> ~ValidSpec(policy.spec.backends)
            /\ job.result = "Paused" <=> (ValidSpec(policy.spec.backends) /\ policy.spec.paused)
        BY <4>1, <4>2 DEF IInv, JobInv
      <4> QED
        BY <3>1, <3>4, <4>3, <4>4 DEF ReadyMatchesSpec, Refusals, Outcomes
    <3> QED
      BY <3>1, <3>3, <3>4
  <2>3. CASE Tick
    <3>1. policy' = Aged(policy)
      BY <2>3 DEF Tick
    <3>2. policy.live /\ policy \in Objects
      BY <2>0, LiveObject DEF IInv, TypeInv
    <3>3. policy'.gen = policy.gen /\ policy'.spec = policy.spec /\ policy'.status.conds = policy.status.conds
      BY <3>1, <3>2, ObjectTypes, AgedKeeps, AgedStatusKeeps
    <3> QED
      BY <2>0, <3>2, <3>3 DEF ReadyMatchesSpec
  <2>4. CASE EditSpec
    <3>1. policy.live /\ policy \in Objects /\ cache \in Objects
      BY <2>0, <2>4, LiveObject DEF EditSpec, IInv, TypeInv, ReadInv
    <3>2. policy'.gen = policy.gen + 1 /\ policy'.status = policy.status
      BY <2>4, <3>1 DEF EditSpec, Objects
    <3>3. policy.status.conds.gen <= cache.gen /\ cache.gen <= policy.gen
      BY <2>0, <3>1 DEF ReadInv
    <3>4. policy.gen \in Int /\ cache.gen \in Int /\ policy.status.conds.gen \in Int
      BY <3>1, ObjectTypes
    <3> QED
      BY <3>2, <3>3, <3>4
  <2>5. CASE DeletePolicy \/ CreatePolicy
    BY <2>0, <2>5, AgedAbsent DEF DeletePolicy, CreatePolicy
  <2> QED
    BY <2>1, <2>2, <2>3, <2>4, <2>5
    DEF Next, Worker, Machine, Environment, ForgetPolicy, RejectSpec, HonorPause, Refuse, Steer, PatchRoute,
        PatchRouteFails, SyncPolicy, SyncRoute, DelayOver, BackoffOver, EditRoute, CrashAndRestart, vars
<1>3. IInv /\ IInv' /\ ReadInv /\ [Next]_vars => ReadInv'
  BY ReadKept
<1> QED
  BY <1>1, <1>2, <1>3, InitReadInv, Invariance, PTL DEF Spec

----------------------------------------------------------------------------
(* Legal allocations, in the status and on the wire                        *)

\* Edits may pause a policy, invalidate it, change its thresholds or its pace: the valid
\* specs share one list of backends.  With two lists the weights decided for the one are
\* not an allocation of the other.
OneValidList ==
  \A s, t \in Specs : ValidSpec(s.backends) /\ ValidSpec(t.backends) => s.backends = t.backends

\* The HTTPRoute's backendRefs name the backends of the policy.
RoutesMatch ==
  \A r \in Routes, s \in Specs : ValidSpec(s.backends) => DOMAIN r.weights = Named(s.backends)

\* An allocation of some valid spec.
Allocated(w) == \E s \in Specs : ValidSpec(s.backends) /\ Legal(w, s.backends)

\* The weights of every copy of the status are none or an allocation.
WeightsInv ==
  /\ policy.live => policy.status.weights = NoWeights \/ Allocated(policy.status.weights)
  /\ cache.live  => cache.status.weights = NoWeights \/ Allocated(cache.status.weights)
  /\ pc # "idle" => \/ job.st.weights = NoWeights /\ job.phase # "Progressing"
                    \/ Allocated(job.st.weights)

\* The weights of the route, of its copy and of the patch under way are as some user wrote
\* them or an allocation.
RouteInv ==
  /\ route.exists => route \in Routes \/ Allocated(route.weights)
  /\ routeCache.exists => routeCache \in Routes \/ Allocated(routeCache.weights)
  /\ pc = "route" => job.body.exists /\ Allocated(job.body.weights)

\* With one valid list, an allocation is one of any valid spec.
LEMMA AllocatedForAll ==
  ASSUME OneValidList, NEW w, Allocated(w), NEW s \in Specs, ValidSpec(s.backends)
  PROVE  Legal(w, s.backends)
<1>1. PICK t \in Specs : ValidSpec(t.backends) /\ Legal(w, t.backends)
  BY DEF Allocated
<1>2. t.backends = s.backends
  BY <1>1 DEF OneValidList
<1> QED
  BY <1>1, <1>2

\* What Steer decides for a policy whose weights are none or an allocation.
LEMMA SteerAllocates ==
  ASSUME OneValidList, IInv, WeightsInv, Steer
  PROVE  Allocated(job'.st.weights)
<1>1. /\ cache \in Objects /\ Active(cache) /\ cache.live
      /\ \/ cache.status.weights = NoWeights
         \/ Legal(cache.status.weights, cache.spec.backends)
         => Legal(job'.st.weights, cache.spec.backends)
  BY SteerKeeps, LiveObject DEF IInv
<1>2. cache.spec \in Specs /\ ValidSpec(cache.spec.backends)
  BY <1>1 DEF Objects, Active
<1>3. cache.status.weights = NoWeights \/ Legal(cache.status.weights, cache.spec.backends)
  BY <1>1, <1>2, AllocatedForAll DEF WeightsInv
<1> QED
  BY <1>1, <1>2, <1>3 DEF Allocated

\* The copies of the weights only ever change for an allocation or for one another.
LEMMA WeightsKept ==
  ASSUME OneValidList
  PROVE  IInv /\ IInv' /\ WeightsInv /\ [Next]_vars => WeightsInv'
<1> SUFFICES ASSUME IInv, IInv', WeightsInv, [Next]_vars PROVE WeightsInv'
  OBVIOUS
<1> USE DEF server, caches, work, worker, memory, limits
<1>0. TypeInv /\ JobInv /\ TypeInv'
  BY DEF IInv
<1>1. CASE UNCHANGED <<policy, cache, pc, job>>
  BY <1>1 DEF WeightsInv
<1>2. CASE RejectSpec \/ HonorPause
  <2>1. UNCHANGED <<policy, cache>> /\ cache.live
    BY <1>2 DEF RejectSpec, HonorPause, Refuse
  <2>2. job'.st = cache.status /\ job'.phase = ""
    BY <1>0, <1>2, LiveObject, RefuseKeeps DEF RejectSpec, HonorPause, Refusals, TypeInv
  <2> QED
    BY <2>1, <2>2 DEF WeightsInv
<1>3. CASE Steer
  <2>1. UNCHANGED <<policy, cache>>
    BY <1>3 DEF Steer
  <2> QED
    BY <1>3, <2>1, SteerAllocates DEF WeightsInv
<1>4. CASE PatchRoute \/ PatchRouteFails
  <2>1. /\ UNCHANGED <<policy, cache>> /\ pc = "route" /\ IsJob(job)
        /\ (Answered("Reconciled") \/ Answered("RouteUpdateFailed"))
    BY <1>0, <1>4 DEF PatchRoute, PatchRouteFails, TypeInv
  <2>2. job'.st = job.st /\ job'.phase = job.phase
    BY <2>1, AnsweredKeeps
  <2> QED
    BY <2>1, <2>2 DEF WeightsInv
<1>5. CASE PatchStatus \/ PatchStatusFails
  <2>1. UNCHANGED cache /\ pc' = "idle" /\ pc # "idle" /\ pc # "route" /\ IsJob(job) /\ job.result # "none"
    BY <1>0, <1>5 DEF PatchStatus, PatchStatusFails, Finished, TypeInv, JobInv
  <2>2. CASE policy' = policy
    BY <2>1, <2>2 DEF WeightsInv
  <2>3. CASE policy' # policy
    <3>1. policy.live /\ policy' = [policy EXCEPT !.status = Merged(@, job)]
      BY <1>5, <2>3 DEF PatchStatus, PatchStatusFails
    <3>2. policy \in Objects
      BY <1>0, <3>1, LiveObject DEF TypeInv
    <3>3. policy'.status.weights \in {policy.status.weights, Desired(job).weights}
      BY <2>1, <3>1, <3>2, PublishKeeps DEF Published
    <3>4. Desired(job).weights = job.st.weights
      BY <2>1, DesiredKeeps
    <3> QED
      BY <2>1, <3>1, <3>3, <3>4 DEF WeightsInv
  <2> QED
    BY <2>2, <2>3
<1>6. CASE SyncPolicy
  BY <1>6 DEF SyncPolicy, WeightsInv
<1>7. CASE Tick
  <2>1. policy' = Aged(policy) /\ cache' = Aged(cache) /\ pc' = pc
    BY <1>7 DEF Tick
  <2>2. \A p \in Objects \cup {Absent} :
          Aged(p).live => p.live /\ Aged(p).status.weights = p.status.weights
    BY ObjectTypes, AgedAny, AgedKeeps, AgedStatusKeeps, LiveObject
  <2>3. pc # "idle" => job'.st.weights = job.st.weights /\ job'.phase = job.phase
    BY <1>0, <1>7, TickedJobKeeps, AgedStatusKeeps DEF TypeInv, IsJob
  <2> QED
    BY <1>0, <2>1, <2>2, <2>3 DEF WeightsInv, TypeInv
<1>8. CASE EditSpec
  <2>1. UNCHANGED <<cache, pc, job>> /\ policy.live /\ policy \in Objects
    BY <1>0, <1>8, LiveObject DEF EditSpec, TypeInv
  <2>2. policy'.status = policy.status
    BY <1>8, <2>1 DEF EditSpec, Objects
  <2> QED
    BY <2>1, <2>2 DEF WeightsInv
<1>9. CASE DeletePolicy
  <2>1. UNCHANGED <<cache, pc, job>> /\ ~policy'.live
    BY <1>9, AgedAbsent DEF DeletePolicy
  <2> QED
    BY <2>1 DEF WeightsInv
<1>10. CASE CreatePolicy
  <2>1. UNCHANGED <<cache, pc, job>> /\ \E s \in Specs : policy' = NewPolicy(MaxEdits - edits', s)
    BY <1>10 DEF CreatePolicy
  <2>2. \A u, s : NewPolicy(u, s).status.weights = NoWeights
    BY DEF NewPolicy, NewStatus
  <2> QED
    BY <2>1, <2>2 DEF WeightsInv
<1>11. CASE CrashAndRestart
  BY <1>11 DEF CrashAndRestart, WeightsInv
<1>12. CASE ForgetPolicy \/ SyncRoute \/ DelayOver \/ BackoffOver \/ EditRoute \/ UNCHANGED vars
  BY <1>1, <1>12 DEF ForgetPolicy, SyncRoute, DelayOver, BackoffOver, EditRoute, vars
<1> QED
  BY <1>2, <1>3, <1>4, <1>5, <1>6, <1>7, <1>8, <1>9, <1>10, <1>11, <1>12
  DEF Next, Worker, Machine, Environment

\* Initially there are no weights.
LEMMA InitWeightsInv == Init => WeightsInv
<1> SUFFICES ASSUME Init PROVE WeightsInv
  OBVIOUS
<1>1. PICK s \in Specs : policy = NewPolicy(0, s)
  BY DEF Init
<1>2. policy.status.weights = NoWeights
  BY <1>1 DEF NewPolicy, NewStatus
<1> QED
  BY <1>2 DEF WeightsInv, Init

\* Published weights are a legal allocation of the policy's backends, whatever the readings
\* were, whatever copy the patch was computed from, whatever failed, crashed or was deleted
\* and created again: they add up to 100 and keep to the bounds.
THEOREM PublishedWeightsLegal ==
  ASSUME OneValidList
  PROVE  Spec => []WeightsLegal
<1>1. IInv /\ WeightsInv => WeightsLegal
  <2> SUFFICES ASSUME IInv, WeightsInv, policy.live, policy.status.weights # NoWeights,
                      ValidSpec(policy.spec.backends)
               PROVE  Legal(policy.status.weights, policy.spec.backends)
    BY DEF WeightsLegal
  <2>1. policy.spec \in Specs
    BY LiveObject, ObjectTypes DEF IInv, TypeInv
  <2> QED
    BY <2>1, AllocatedForAll DEF WeightsInv
<1>2. IInv /\ IInv' /\ WeightsInv /\ [Next]_vars => WeightsInv'
  BY WeightsKept
<1> QED
  BY <1>1, <1>2, InitWeightsInv, Invariance, PTL DEF Spec

\* A rewritten route carries exactly the allocation it was given.
LEMMA RewrittenIsAllocated ==
  ASSUME RoutesMatch, NEW r, IsRoute(r), r \in Routes \/ Allocated(r.weights), OneValidList,
         NEW w, w = [n \in DOMAIN w |-> w[n]], Allocated(w)
  PROVE  Rewritten(r, w).exists /\ Allocated(Rewritten(r, w).weights)
<1>1. PICK s \in Specs : ValidSpec(s.backends) /\ Legal(w, s.backends)
  BY DEF Allocated
<1>2. DOMAIN w = Named(s.backends)
  BY <1>1 DEF Legal
<1>3. DOMAIN r.weights = Named(s.backends)
  <2>1. CASE r \in Routes
    BY <1>1, <2>1 DEF RoutesMatch
  <2>2. CASE Allocated(r.weights)
    BY <1>1, <2>2, AllocatedForAll DEF Legal
  <2> QED
    BY <2>1, <2>2
<1> DEFINE u == [n \in DOMAIN r.weights |-> IF n \in DOMAIN w THEN w[n] ELSE r.weights[n]]
<1>4. u = w
  BY <1>2, <1>3
<1>5. Rewritten(r, w) = [r EXCEPT !.weights = u]
  BY DEF Rewritten
<1> HIDE DEF u
<1>6. Rewritten(r, w).exists /\ Rewritten(r, w).weights = u
  BY <1>5 DEF IsRoute
<1> QED
  BY <1>4, <1>6

\* The controller only writes allocations to the route.
LEMMA RoutesKept ==
  ASSUME OneValidList, RoutesMatch
  PROVE  IInv /\ IInv' /\ WeightsInv /\ RouteInv /\ [Next]_vars => RouteInv'
<1> SUFFICES ASSUME IInv, IInv', WeightsInv, RouteInv, [Next]_vars PROVE RouteInv'
  OBVIOUS
<1> USE DEF server, caches, work, worker, memory, limits
<1>0. TypeInv /\ JobInv /\ TypeInv'
  BY DEF IInv
<1>1. CASE UNCHANGED <<route, routeCache>> /\ pc' # "route"
  BY <1>1 DEF RouteInv
<1>2. CASE UNCHANGED <<route, routeCache, pc, job>>
  BY <1>2 DEF RouteInv
<1>3. CASE Steer
  <2>1. UNCHANGED <<route, routeCache>>
    BY <1>3 DEF Steer
  <2>2. ASSUME pc' = "route" PROVE job'.body.exists /\ Allocated(job'.body.weights)
    <3>1. /\ routeCache.exists /\ job'.body = Rewritten(routeCache, job'.st.weights) /\ IsJob(job')
      BY <1>0, <1>3, <2>2, SteerKeeps
    <3>2. IsRoute(routeCache) /\ (routeCache \in Routes \/ Allocated(routeCache.weights))
      BY <1>0, <3>1 DEF TypeInv, NoRoute, RouteInv
    <3>3. Allocated(job'.st.weights)
      BY <1>3, SteerAllocates
    <3>4. job'.st.weights \in Weightings
      BY <3>1 DEF IsJob, Statuses
    <3>5. job'.st.weights = [n \in DOMAIN job'.st.weights |-> job'.st.weights[n]]
      BY <3>4 DEF Weightings
    <3> QED
      BY <3>1, <3>2, <3>3, <3>5, RewrittenIsAllocated
  <2> QED
    BY <2>1, <2>2 DEF RouteInv
<1>4. CASE PatchRoute \/ PatchRouteFails
  <2>1. /\ UNCHANGED routeCache /\ pc = "route" /\ pc' = "status"
        /\ (route' = route \/ route' = job.body)
    BY <1>4 DEF PatchRoute, PatchRouteFails, Answered
  <2> QED
    BY <2>1 DEF RouteInv
<1>5. CASE SyncRoute
  BY <1>5 DEF SyncRoute, RouteInv
<1>6. CASE Tick
  <2>1. UNCHANGED <<route, routeCache, pc>>
    BY <1>6 DEF Tick
  <2>2. pc # "idle" => job'.body = job.body
    BY <1>0, <1>6, TickedJobKeeps DEF TypeInv
  <2> QED
    BY <2>1, <2>2 DEF RouteInv
<1>7. CASE EditRoute
  <2>1. UNCHANGED <<routeCache, pc, job>> /\ (route' \in Routes \/ route' = NoRoute)
    BY <1>7 DEF EditRoute
  <2> QED
    BY <2>1 DEF RouteInv, NoRoute
<1>8. CASE CrashAndRestart
  BY <1>8 DEF CrashAndRestart, RouteInv
<1>9. CASE RejectSpec \/ HonorPause \/ PatchStatus \/ PatchStatusFails
  BY <1>1, <1>9 DEF RejectSpec, HonorPause, Refuse, PatchStatus, PatchStatusFails, Finished
<1>10. CASE ForgetPolicy \/ SyncPolicy \/ DelayOver \/ BackoffOver \/ EditSpec \/ DeletePolicy
            \/ CreatePolicy \/ UNCHANGED vars
  BY <1>2, <1>10
  DEF ForgetPolicy, SyncPolicy, DelayOver, BackoffOver, EditSpec, DeletePolicy, CreatePolicy, vars
<1> QED
  BY <1>3, <1>4, <1>5, <1>6, <1>7, <1>8, <1>9, <1>10 DEF Next, Worker, Machine, Environment

\* What stands in the route is what a user wrote there or an allocation the controller
\* decided on as a whole, never a mixture of two, although the patch replaces the whole list
\* of rules as the cache had it.
THEOREM WrittenRouteLegal ==
  ASSUME OneValidList, RoutesMatch
  PROVE  Spec => []RouteLegal
<1>1. Init => RouteInv
  BY DEF Init, RouteInv
<1>2. IInv /\ IInv' /\ WeightsInv /\ [Next]_vars => WeightsInv'
  BY WeightsKept
<1>3. IInv /\ IInv' /\ WeightsInv /\ RouteInv /\ [Next]_vars => RouteInv'
  BY RoutesKept
<1>4. RouteInv => RouteLegal
  BY DEF RouteInv, RouteLegal, Allocated
<1> QED
  BY <1>1, <1>2, <1>3, <1>4, InitWeightsInv, Invariance, PTL DEF Spec

----------------------------------------------------------------------------
(* The cooldown                                                            *)

\* What keeps the weights in step whatever happens: stale caches, edits, failed calls,
\* crashes, deletions and creations.  Published weights change only to those of the
\* Reconcile whose patch lands, and to the copy it started from that change was due: that
\* copy had none yet, or its cooldown had passed and, were its weights an allocation, the
\* new ones are one too and no backend has moved by more than a step.
ChangesAreDue ==
  [][WeightsChange =>
       LET copy == job.snap
           old  == copy.status.weights
           new  == job.st.weights
       IN  /\ pc = "status" /\ policy'.status.weights = new
           /\ \/ old = NoWeights
              \/ /\ CooldownElapsed(copy)
                 /\ Legal(old, copy.spec.backends) =>
                      /\ Legal(new, copy.spec.backends)
                      /\ \A n \in DOMAIN old :
                           new[n] - old[n] \in (-StrategyStep(copy.spec))..StrategyStep(copy.spec)]_vars

\* The published weights become others, or the first.
WeightsPublished == policy.live /\ policy'.live /\ policy'.status.weights # policy.status.weights

\* A step that changes the published weights of a policy is a status patch that lands.
LEMMA ChangesArePatches ==
  ASSUME IInv, [Next]_vars, WeightsPublished
  PROVE  /\ pc = "status" /\ IsJob(job) /\ job.result # "none" /\ policy \in Objects
         /\ policy' = [policy EXCEPT !.status = Merged(@, job)]
<1> USE DEF server, caches, work, worker, memory, limits
<1>1. policy \in Objects
  BY LiveObject DEF IInv, TypeInv, WeightsPublished
<1>2. ~Tick
  <2> SUFFICES ASSUME Tick PROVE FALSE
    OBVIOUS
  <2>1. policy' = Aged(policy)
    BY DEF Tick
  <2> QED
    BY <1>1, <2>1, ObjectTypes, AgedKeeps, AgedStatusKeeps DEF WeightsPublished
<1>3. ~EditSpec
  <2> SUFFICES ASSUME EditSpec PROVE FALSE
    OBVIOUS
  <2>1. PICK s \in Specs : policy' = [policy EXCEPT !.spec = s, !.gen = @ + 1]
    BY DEF EditSpec
  <2>2. policy'.status = policy.status
    BY <1>1, <2>1 DEF Objects
  <2> QED
    BY <2>2 DEF WeightsPublished
<1>4. ~DeletePolicy /\ ~CreatePolicy
  BY DEF DeletePolicy, CreatePolicy, WeightsPublished, Absent
<1>5. policy' # policy
  BY DEF WeightsPublished
<1>6. PatchStatus \/ PatchStatusFails
  BY <1>2, <1>3, <1>4, <1>5
  DEF Next, Worker, Machine, Environment, ForgetPolicy, RejectSpec, HonorPause, Refuse, Steer, PatchRoute,
      PatchRouteFails, SyncPolicy, SyncRoute, DelayOver, BackoffOver, EditRoute, CrashAndRestart, vars
<1>7. /\ pc = "status" /\ policy' = [policy EXCEPT !.status = Merged(@, job)]
  BY <1>5, <1>6 DEF PatchStatus, PatchStatusFails
<1>8. IsJob(job) /\ job.result # "none"
  BY <1>7 DEF IInv, TypeInv, JobInv
<1> QED
  BY <1>1, <1>7, <1>8

\* Every change of the published weights was due to the copy it was made from.  How stale
\* that copy may be is the rest of the story: see PublishesPacedSplit.
THEOREM DueToTheCopy == Spec => ChangesAreDue
<1>1. ASSUME IInv, [Next]_vars, WeightsChange
      PROVE  /\ pc = "status" /\ policy'.status.weights = job.st.weights
             /\ \/ job.snap.status.weights = NoWeights
                \/ /\ Decided(job.snap, job.snap.status, job)
                   /\ job.st.weights # job.snap.status.weights
  <2>1. /\ pc = "status" /\ IsJob(job) /\ job.result # "none" /\ policy \in Objects
        /\ policy' = [policy EXCEPT !.status = Merged(@, job)]
    BY <1>1, ChangesArePatches DEF WeightsChange, WeightsPublished
  <2>2. /\ Desired(job).weights = job.st.weights
    BY <2>1, DesiredKeeps
  <2>3. policy'.status.weights = IF Desired(job).weights # job.snap.status.weights THEN Desired(job).weights
                                                                                ELSE policy.status.weights
    BY <2>1, PublishKeeps DEF Published
  <2>4. policy'.status.weights # policy.status.weights
    BY <1>1 DEF WeightsChange
  <2>5. job.snap.status.weights # NoWeights => Decided(job.snap, job.snap.status, job)
    BY <1>1, <2>1 DEF IInv, JobInv
  <2> QED
    BY <2>1, <2>2, <2>3, <2>4, <2>5
<1>2. IInv /\ [Next]_vars =>
        [WeightsChange =>
           /\ pc = "status" /\ policy'.status.weights = job.st.weights
           /\ \/ job.snap.status.weights = NoWeights
              \/ /\ CooldownElapsed(job.snap)
                 /\ Legal(job.snap.status.weights, job.snap.spec.backends) =>
                      /\ Legal(job.st.weights, job.snap.spec.backends)
                      /\ \A n \in DOMAIN job.snap.status.weights :
                           job.st.weights[n] - job.snap.status.weights[n]
                             \in (-StrategyStep(job.snap.spec))..StrategyStep(job.snap.spec)]_vars
  BY <1>1 DEF Decided
<1> QED
  BY <1>2, Invariance, PTL DEF Spec, ChangesAreDue

----------------------------------------------------------------------------
(* The weights chosen                                                      *)

\* What a query answers is a number for each backend, or NaN: no infinity, which a mean or
\* a score would have no value for.
NumericReadings == \A r \in Readings \ {NoSource} : \A b \in DOMAIN r : r[b] \in Int \cup {NaN}

\* Recording a reading leaves a sample for each backend it names, and the other keys alone.
LEMMA RecordFills ==
  ASSUME NEW data, Buffers(data), NEW key, NEW reading \in Readings \ {NoSource}
  PROVE  /\ key \in DOMAIN Record(data, key, reading)
         /\ \A b \in DOMAIN reading : /\ b \in DOMAIN Record(data, key, reading)[key]
                                      /\ Len(Record(data, key, reading)[key][b]) > 0
         /\ \A k \in DOMAIN data \ {key} : /\ k \in DOMAIN Record(data, key, reading)
                                           /\ Record(data, key, reading)[k] = data[k]
<1> DEFINE seen == IF key \in DOMAIN data THEN DOMAIN data[key] ELSE {}
           kept == [b \in seen \cup DOMAIN reading |->
                      IF b \in DOMAIN reading
                        THEN LastSamples(Append(Buffer(data, key, b), reading[b]), MaxWindow)
                        ELSE data[key][b]]
<1>1. Record(data, key, reading) = [k \in DOMAIN data \cup {key} |-> IF k = key THEN kept ELSE data[k]]
  BY DEF Record
<1>2. ASSUME NEW b \in DOMAIN reading
      PROVE  b \in DOMAIN kept /\ Len(kept[b]) > 0
  <2>1. PICK buf : buf = Append(Buffer(data, key, b), reading[b])
    OBVIOUS
  <2>2. Buffer(data, key, b) \in Seq(Values) /\ reading[b] \in Values
    BY DEF Buffer, Buffers, Values
  <2>3. buf \in Seq(Values) /\ Len(buf) > 0
    BY <2>1, <2>2
  <2>4. MaxWindow \in Nat \ {0}
    BY ReconcilerAssumption
  <2>5. Len(LastSamples(buf, MaxWindow)) > 0
    BY <2>3, <2>4, LastSamplesSome
  <2> QED
    BY <2>1, <2>5
<1> HIDE DEF kept
<1> QED
  BY <1>1, <1>2

\* When no query fails, every signal has been read and each backend it reports has a sample.
LEMMA ObserveFills ==
  ASSUME NEW data, Buffers(data), NEW s, DOMAIN s.thresholds \subseteq SignalNames,
         NEW out \in [DOMAIN s.thresholds -> Readings], ~SourceFails(s, out),
         NEW sig \in DOMAIN s.thresholds
  PROVE  /\ out[sig] \in Readings \ {NoSource}
         /\ Key(sig) \in DOMAIN Observe(data, s, out)
         /\ \A b \in DOMAIN out[sig] : /\ b \in DOMAIN Observe(data, s, out)[Key(sig)]
                                       /\ Len(Observe(data, s, out)[Key(sig)][b]) > 0
<1> DEFINE first == IF "latency" \in Sampled(s, out) THEN Record(data, Key("latency"), out["latency"])
                                                    ELSE data
<1>1. Sampled(s, out) = DOMAIN s.thresholds
  BY DEF SourceFails
<1>2. \A e \in DOMAIN s.thresholds : out[e] \in Readings \ {NoSource}
  BY <1>1 DEF Sampled, Preceding, SignalNames
<1>3. Buffers(first)
  BY <1>1, <1>2, RecordKeeps
<1>4. Observe(data, s, out) = IF "errorRate" \in Sampled(s, out)
                                THEN Record(first, Key("errorRate"), out["errorRate"]) ELSE first
  BY DEF Observe
<1>5. Key("latency") # Key("errorRate")
  BY DEF Key
<1>6. "latency" \in DOMAIN s.thresholds =>
        /\ Key("latency") \in DOMAIN first
        /\ \A b \in DOMAIN out["latency"] : /\ b \in DOMAIN first[Key("latency")]
                                            /\ Len(first[Key("latency")][b]) > 0
  BY <1>1, <1>2, RecordFills
<1> HIDE DEF first
<1>7. CASE sig = "latency"
  <2>1. CASE "errorRate" \in DOMAIN s.thresholds
    <3>1. \A k \in DOMAIN first \ {Key("errorRate")} :
             k \in DOMAIN Observe(data, s, out) /\ Observe(data, s, out)[k] = first[k]
      BY <1>1, <1>2, <1>3, <1>4, <2>1, RecordFills
    <3> QED
      BY <1>2, <1>5, <1>6, <1>7, <3>1
  <2>2. CASE "errorRate" \notin DOMAIN s.thresholds
    BY <1>1, <1>2, <1>4, <1>6, <1>7, <2>2
  <2> QED
    BY <2>1, <2>2
<1>8. CASE sig = "errorRate"
  BY <1>1, <1>2, <1>3, <1>4, <1>8, RecordFills
<1> QED
  BY <1>7, <1>8 DEF SignalNames

\* The mean of a backend's last samples is a number, or NaN.
LEMMA MeanTyped ==
  ASSUME NumericReadings, NEW data, Buffers(data), NEW key \in DOMAIN data, NEW b \in DOMAIN data[key],
         Len(data[key][b]) > 0, NEW window \in Int
  PROVE  Mean(data, key, b, window) \in Int \cup {NaN}
<1> DEFINE slice == LastSamples(data[key][b], ClampedWindow(window))
<1>1. Values \subseteq Int \cup {NaN}
  BY DEF NumericReadings, Values
<1>2. PICK buf, n : buf = data[key][b] /\ n = ClampedWindow(window)
  OBVIOUS
<1>3. buf \in Seq(Values) /\ Len(buf) > 0 /\ n \in Nat \ {0}
  BY <1>2, ReconcilerAssumption DEF Buffers, ClampedWindow
<1>4. LastSamples(buf, n) \in Seq(Values) /\ Len(LastSamples(buf, n)) > 0
  BY <1>3, LastSamplesKeeps, LastSamplesSome
<1>5. slice \in Seq(Values) /\ Len(slice) > 0
  BY <1>2, <1>4
<1>6. Mean(data, key, b, window) = IF NaN \in Range(slice) THEN NaN
                                   ELSE IF Inf \in Range(slice) THEN Inf
                                   ELSE SumFunction(slice) * (MeanUnit \div Len(slice))
  BY DEF Mean
<1> HIDE DEF slice
<1>7. /\ Len(slice) \in Nat /\ DOMAIN slice = 1..Len(slice)
      /\ \A k \in DOMAIN slice : slice[k] \in Values
  BY <1>5, LenProperties, ElementOfSeq
<1>8. \A v \in Range(slice) : v \in Int \cup {NaN}
  BY <1>1, <1>7 DEF Range
<1>9. ASSUME NaN \notin Range(slice)
      PROVE  SumFunction(slice) * (MeanUnit \div Len(slice)) \in Int
  <2>1. IsFiniteSet(DOMAIN slice)
    BY <1>7, FS_Interval
  <2>2. \A k \in DOMAIN slice : slice[k] \in Int
    BY <1>8, <1>9 DEF Range
  <2>3. SumFunction(slice) \in Int
    BY <2>1, <2>2, SumType DEF SumFunction
  <2>4. MeanUnit \div Len(slice) \in Int
    BY <1>5, <1>7, ReconcilerAssumption
  <2> QED
    BY <2>3, <2>4
<1> QED
  BY <1>6, <1>8, <1>9

\* Every signal has been read, and every backend it reports has a sample.
Sensed(s, data, out) ==
  \A sig \in DOMAIN s.thresholds :
    /\ Key(sig) \in DOMAIN data
    /\ \A b \in DOMAIN out[sig] : b \in DOMAIN data[Key(sig)] /\ Len(data[Key(sig)][b]) > 0

\* What evaluateMetrics hands to the evaluator is an input of its type.
LEMMA DecisionInputTyped ==
  ASSUME NumericReadings, NEW p \in Objects, ValidSpec(p.spec.backends), NEW w \in Weightings,
         NEW data, Buffers(data),
         NEW out, Sensed(p.spec, data, out)
  PROVE  IsInput(DecisionInput(p, w, data, out))
<1> DEFINE i == DecisionInput(p, w, data, out)
           s == p.spec
           bs == s.backends
           B == Named(bs)
<1>0. IsBackends(bs)
  BY ReconcilerAssumption DEF Objects, IsSpec
<1>1. /\ B \subseteq Names
      /\ DOMAIN s.thresholds \subseteq SignalNames
      /\ \A sig \in DOMAIN s.thresholds : s.thresholds[sig] \in Int
      /\ s.step \in Int /\ s.window \in Int
  BY ReconcilerAssumption DEF Objects, IsSpec
<1>2. IsFiniteSet(B)
  <2> DEFINE z == [k \in DOMAIN bs |-> 0]
  <2>1. \A k \in DOMAIN bs : z[k] \in Int
    OBVIOUS
  <2> HIDE DEF z
  <2> QED
    BY <1>0, <2>1, ByNameKeeps
<1>3. ASSUME NEW n \in B
      PROVE  BoundsOf(bs)[n].min \in Int /\ BoundsOf(bs)[n].max \in Int
  <2>1. BoundsOf(bs)[n].min \in 0..Full /\ BoundsOf(bs)[n].max \in 0..Full
    BY <1>0, BoundsTypes
  <2> QED
    BY <2>1, PercentTypes
<1>4. DOMAIN w \subseteq Names /\ \A n \in DOMAIN w : w[n] \in Int
  <2>1. IsWeights(w) /\ \A n \in DOMAIN w : w[n] \in 0..Full
    BY WeightingTypes
  <2>2. \A n \in DOMAIN w : w[n] \in Int
    BY <2>1, PercentTypes
  <2> QED
    BY <2>1, <2>2 DEF IsWeights
<1>5. StrategyStep(s) \in Int /\ StrategyWindow(s) \in Int
  BY <1>1 DEF StrategyStep, StrategyWindow
<1>6. /\ i.bounds = BoundsOf(bs) /\ DOMAIN i.bounds = B /\ i.current = w
      /\ i.signals = Smoothed(data, s, out) /\ i.step = StrategyStep(s)
  BY DEF DecisionInput, BoundsOf
<1>7. DOMAIN i.signals = DOMAIN s.thresholds /\ DOMAIN i.signals \subseteq SignalNames
  BY <1>1, <1>6 DEF Smoothed
<1>8. ASSUME NEW sig \in DOMAIN s.thresholds
      PROVE  /\ i.signals[sig].threshold \in Int
             /\ \A b \in DOMAIN i.signals[sig].samples : i.signals[sig].samples[b] \in Int \cup {NaN}
  <2>1. i.signals[sig] = [threshold |-> s.thresholds[sig] * MeanUnit,
                          samples |-> [b \in DOMAIN out[sig] |-> Mean(data, Key(sig), b, StrategyWindow(s))]]
    BY <1>6 DEF Smoothed
  <2>2. s.thresholds[sig] * MeanUnit \in Int
    BY <1>1, ReconcilerAssumption
  <2>3. \A b \in DOMAIN out[sig] : Mean(data, Key(sig), b, StrategyWindow(s)) \in Int \cup {NaN}
    BY <1>5, MeanTyped DEF Sensed
  <2> QED
    BY <2>1, <2>2, <2>3
<1> HIDE DEF i
<1> QED
  BY <1>1, <1>2, <1>3, <1>4, <1>5, <1>6, <1>7, <1>8 DEF IsInput, i


\* The greedy allocation the evaluator makes of weights w for a policy, from the samples held
\* and whatever backends the queries have just reported.
GreedyFrom(p, w, data, new) ==
  \E out \in [DOMAIN p.spec.thresholds -> Readings \ {NoSource}] :
    new = GreedyWeights(DecisionInput(p, w, data, out))

\* The weights a decision starts from: those of the copy, or an initial allocation.
Bases(p) == IF p.status.weights # NoWeights THEN {p.status.weights} ELSE InitialWeights(p.spec.backends)

\* The weights of a job, as they come of its copy of the policy and the samples.
Chosen(j, data) ==
  \E w \in Bases(j.snap) :
    IF j.phase = "Progressing" THEN GreedyFrom(j.snap, w, data, j.st.weights) ELSE j.st.weights = w

\* evaluateMetrics moves the weights to the greedy allocation, or not at all.
LEMMA EvaluatedChooses ==
  ASSUME NumericReadings, NEW p \in Objects, ValidSpec(p.spec.backends), NEW st \in Statuses,
         NEW old, Buffers(old),
         NEW out \in [DOMAIN p.spec.thresholds -> Readings],
         NEW data, data = Observe(old, p.spec, out)
  PROVE  IF Evaluated(p, st, data, out).phase = "Progressing"
           THEN GreedyFrom(p, st.weights, data, Evaluated(p, st, data, out).st.weights)
           ELSE Evaluated(p, st, data, out).st.weights = st.weights
<1> DEFINE ok == MetricsCondition(st, p.gen, "True")
           no == MetricsCondition(st, p.gen, "False")
           d  == Proposal(p, st.weights, data, out)
           i  == DecisionInput(p, st.weights, data, out)
           e  == Evaluated(p, st, data, out)
<1>1. /\ ok.weights = st.weights /\ no.weights = st.weights
      /\ [ok EXCEPT !.why = "cooldown"].weights = st.weights
      /\ [ok EXCEPT !.why = "hold"].weights = st.weights
      /\ [ok EXCEPT !.why = "shift", !.weights = d.weights, !.changeAge = 0].weights = d.weights
  BY DEF MetricsCondition, Statuses
<1>2. d = Evaluate(i)
  BY DEF Proposal
<1>3. e = IF DOMAIN p.spec.thresholds = {} THEN [st |-> st, phase |-> "Stable"]
          ELSE IF SourceFails(p.spec, out) THEN [st |-> no, phase |-> "Frozen"]
          ELSE IF ~CooldownElapsed(p) THEN [st |-> [ok EXCEPT !.why = "cooldown"], phase |-> "Stable"]
          ELSE IF ~d.changed THEN [st |-> [ok EXCEPT !.why = "hold"], phase |-> "Stable"]
          ELSE [st |-> [ok EXCEPT !.why = "shift", !.weights = d.weights, !.changeAge = 0],
                phase |-> "Progressing"]
  BY DEF Evaluated
<1> HIDE DEF ok, no, d, e, i
<1>4. CASE /\ DOMAIN p.spec.thresholds # {} /\ ~SourceFails(p.spec, out)
           /\ CooldownElapsed(p) /\ d.changed
  <2>1. e.phase = "Progressing" /\ e.st.weights = d.weights
    BY <1>1, <1>3, <1>4
  <2>2. DOMAIN p.spec.thresholds \subseteq SignalNames
    BY ReconcilerAssumption DEF Objects, IsSpec
  <2>3. \A sig \in DOMAIN p.spec.thresholds :
          /\ out[sig] \in Readings \ {NoSource}
          /\ Key(sig) \in DOMAIN data
          /\ \A b \in DOMAIN out[sig] : b \in DOMAIN data[Key(sig)] /\ Len(data[Key(sig)][b]) > 0
    BY <1>4, <2>2, ObserveFills
  <2>4. out \in [DOMAIN p.spec.thresholds -> Readings \ {NoSource}] /\ Sensed(p.spec, data, out)
    BY <2>3 DEF Sensed
  <2>5. Buffers(data) /\ st.weights \in Weightings
    BY <2>2, ObserveKeeps DEF Statuses
  <2>6. IsInput(i)
    BY <2>4, <2>5, DecisionInputTyped DEF i
  <2>7. Evaluate(i) = IF Holds(i) \/ Moved(i) = 0 THEN [weights |-> i.current, changed |-> FALSE]
                      ELSE [weights |-> GreedyWeights(i), changed |-> TRUE]
    BY <2>6, EvaluateIsGreedy
  <2>8. d.weights = GreedyWeights(i)
    BY <1>2, <1>4, <2>7
  <2> QED
    BY <2>1, <2>4, <2>8 DEF e, i, GreedyFrom
<1>5. CASE ~(/\ DOMAIN p.spec.thresholds # {} /\ ~SourceFails(p.spec, out)
             /\ CooldownElapsed(p) /\ d.changed)
  <2>1. e.phase # "Progressing" /\ e.st.weights = st.weights
    BY <1>1, <1>3, <1>5
  <2> QED
    BY <2>1 DEF e
<1> QED
  BY <1>4, <1>5

\* What Steer leaves in its job is chosen from what it leaves in the buffers.
LEMMA SteerChooses ==
  ASSUME NumericReadings, TypeInv, Steer
  PROVE  Chosen(job', samples')
<1>1. cache \in Objects /\ ValidSpec(cache.spec.backends)
  BY LiveObject DEF Steer, TypeInv, Active
<1>2. PICK st \in Initialized(cache), out \in [DOMAIN cache.spec.thresholds -> Readings] :
        /\ samples' = Observe(samples, cache.spec, out)
        /\ \E e \in {Evaluated(cache, st, samples', out)} : LookUpRoute(e.st, e.phase)
  BY DEF Steer
<1>3. PICK e : e = Evaluated(cache, st, samples', out)
  OBVIOUS
<1>4. LookUpRoute(e.st, e.phase)
  BY <1>2, <1>3
<1>5. st \in Statuses /\ st.weights \in Bases(cache)
  <2>1. st \in Statuses
    BY <1>1, InitializedKeeps
  <2>2. cache.status \in Statuses
    BY <1>1 DEF Objects
  <2> QED
    BY <2>1, <2>2 DEF Initialized, Bases, Statuses
<1>6. job'.snap = cache /\ job'.st = e.st /\ job'.phase = e.phase
  BY <1>4 DEF LookUpRoute
<1>7. PICK p, old, data : p = cache /\ old = samples /\ data = samples'
  OBVIOUS
<1>8. /\ p \in Objects /\ ValidSpec(p.spec.backends) /\ Buffers(old) /\ out \in [DOMAIN p.spec.thresholds -> Readings]
      /\ data = Observe(old, p.spec, out) /\ e = Evaluated(p, st, data, out)
  BY <1>1, <1>2, <1>3, <1>7 DEF TypeInv
<1>9. IF e.phase = "Progressing" THEN GreedyFrom(p, st.weights, data, e.st.weights)
                                 ELSE e.st.weights = st.weights
  BY <1>5, <1>8, EvaluatedChooses
<1> QED
  BY <1>5, <1>6, <1>7, <1>9 DEF Chosen

\* The weights the running Reconcile holds come of the samples in the smoother: nothing is
\* observed between its decision and its patch, and a refusal decides nothing.
ChosenInv == pc # "idle" /\ job.result \notin Refusals => Chosen(job, samples)

\* A later result, or an older copy, takes nothing from the choice.
LEMMA ChosenStays ==
  ASSUME NEW j, NEW k, NEW data, k.phase = j.phase, k.st.weights = j.st.weights,
         k.snap.spec = j.snap.spec, k.snap.status.weights = j.snap.status.weights,
         Chosen(j, data)
  PROVE  Chosen(k, data)
<1>1. Bases(k.snap) = Bases(j.snap)
  BY DEF Bases
<1>2. \A w, new : GreedyFrom(k.snap, w, data, new) <=> GreedyFrom(j.snap, w, data, new)
  BY DEF GreedyFrom, DecisionInput
<1> QED
  BY <1>1, <1>2 DEF Chosen

LEMMA ChosenKept ==
  ASSUME NumericReadings, IInv, ChosenInv, [Next]_vars
  PROVE  ChosenInv'
<1> USE DEF server, caches, work, worker, memory, limits
<1>1. CASE ForgetPolicy
  BY <1>1 DEF ForgetPolicy, Dequeue, ChosenInv
<1>2. CASE RejectSpec \/ HonorPause
  <2>1. cache \in Objects /\ (Refuse("InvalidSpec") \/ Refuse("Paused"))
    BY <1>2, LiveObject DEF RejectSpec, HonorPause, IInv, TypeInv
  <2>2. job'.result \in Refusals
    BY <2>1, RefuseKeeps DEF Refusals
  <2> QED
    BY <2>2 DEF ChosenInv
<1>3. CASE Steer
  BY <1>3, SteerChooses DEF IInv, ChosenInv
<1>4. CASE PatchRoute \/ PatchRouteFails
  <2>1. pc = "route" /\ IsJob(job) /\ samples' = samples /\ job.result = "none"
        /\ (Answered("Reconciled") \/ Answered("RouteUpdateFailed"))
    BY <1>4 DEF PatchRoute, PatchRouteFails, IInv, TypeInv, JobInv
  <2>2. job'.snap = job.snap /\ job'.st = job.st /\ job'.phase = job.phase
    BY <2>1, AnsweredKeeps
  <2>3. Chosen(job, samples)
    BY <2>1 DEF ChosenInv, Refusals
  <2>4. PICK j, k, data : j = job /\ k = job' /\ data = samples
    OBVIOUS
  <2>5. Chosen(k, data)
    BY <2>2, <2>3, <2>4, ChosenStays
  <2> QED
    BY <2>1, <2>4, <2>5 DEF ChosenInv
<1>5. CASE PatchStatus \/ PatchStatusFails \/ CrashAndRestart
  BY <1>5 DEF PatchStatus, PatchStatusFails, Finished, CrashAndRestart, ChosenInv
<1>6. CASE Tick
  <2> SUFFICES ASSUME pc' # "idle", job'.result \notin Refusals PROVE Chosen(job', samples')
    BY DEF ChosenInv
  <2>1. pc # "idle" /\ IsJob(job) /\ samples' = samples
    BY <1>6 DEF Tick, IInv, TypeInv
  <2>2. /\ job'.snap = Aged(job.snap) /\ job'.st = AgedStatus(job.st)
        /\ job'.phase = job.phase /\ job'.result = job.result
    BY <1>6, <2>1, TickedJobKeeps
  <2>3. job.snap \in Objects /\ job.snap.status \in Statuses /\ job.st \in Statuses
    BY <2>1, ObjectTypes DEF IsJob
  <2>4. PICK j, k, data : j = job /\ k = job' /\ data = samples
    OBVIOUS
  <2>5. /\ k.phase = j.phase /\ k.st.weights = j.st.weights /\ k.snap.spec = j.snap.spec
        /\ k.snap.status.weights = j.snap.status.weights
    BY <2>2, <2>3, <2>4, AgedKeeps, AgedStatusKeeps
  <2>6. Chosen(j, data)
    BY <2>1, <2>2, <2>4 DEF ChosenInv
  <2>7. Chosen(k, data)
    BY <2>5, <2>6, ChosenStays
  <2> QED
    BY <2>1, <2>4, <2>7
<1>7. CASE \/ SyncPolicy \/ SyncRoute \/ DelayOver \/ BackoffOver
           \/ EditSpec \/ DeletePolicy \/ CreatePolicy \/ EditRoute \/ UNCHANGED vars
  <2>1. UNCHANGED <<pc, job, samples>>
    BY <1>7 DEF SyncPolicy, SyncRoute, DelayOver, BackoffOver, EditSpec, DeletePolicy, CreatePolicy,
                EditRoute, vars
  <2> QED
    BY <2>1 DEF ChosenInv
<1> QED
  BY <1>1, <1>2, <1>3, <1>4, <1>5, <1>6, <1>7 DEF Next, Worker, Machine, Environment

\* Whatever the interleaving of stale caches, edits, failed calls and crashes, the weights a
\* status patch publishes are those the code's two algorithms compute for some copy of the
\* policy, whole: the greedy allocation, from the weights of that copy (or an initial
\* allocation it had none of), under that copy's bounds, step and thresholds, on the means of
\* the samples the smoother holds; or, if nothing was shifted, an initial allocation.
WeightsAreComputed ==
  [][WeightsPublished =>
       IF job.phase = "Progressing"
         THEN \E w \in Bases(job.snap) : GreedyFrom(job.snap, w, samples, policy'.status.weights)
         ELSE /\ job.snap.status.weights = NoWeights
              /\ policy'.status.weights \in InitialWeights(job.snap.spec.backends)]_vars

\* The weights computed are the ones that land.
THEOREM ComputedWeightsLand ==
  ASSUME NumericReadings
  PROVE  Spec => WeightsAreComputed
<1>1. Init => ChosenInv
  BY DEF Init, ChosenInv
<1>2. IInv /\ ChosenInv /\ [Next]_vars => ChosenInv'
  BY ChosenKept
<1>3. ASSUME IInv, ChosenInv, [Next]_vars, WeightsPublished
      PROVE  IF job.phase = "Progressing"
               THEN \E w \in Bases(job.snap) : GreedyFrom(job.snap, w, samples, policy'.status.weights)
               ELSE /\ job.snap.status.weights = NoWeights
                    /\ policy'.status.weights \in InitialWeights(job.snap.spec.backends)
  <2>1. /\ pc = "status" /\ IsJob(job) /\ job.result # "none" /\ policy \in Objects
        /\ policy' = [policy EXCEPT !.status = Merged(@, job)]
    BY <1>3, ChangesArePatches
  <2>2. Desired(job).weights = job.st.weights
    BY <2>1, DesiredKeeps
  <2>3. policy'.status.weights = IF Desired(job).weights # job.snap.status.weights THEN Desired(job).weights
                                                                                ELSE policy.status.weights
    BY <2>1, PublishKeeps DEF Published
  <2>4. policy'.status.weights = job.st.weights /\ job.st.weights # job.snap.status.weights
    BY <1>3, <2>2, <2>3 DEF WeightsPublished
  <2>5. job.result \notin Refusals
    BY <1>3, <2>1, <2>4 DEF IInv, JobInv
  <2>6. Chosen(job, samples)
    BY <1>3, <2>1, <2>5 DEF ChosenInv
  <2> QED
    BY <2>4, <2>6 DEF Chosen, Bases
<1>4. IInv /\ ChosenInv /\ [Next]_vars =>
        [WeightsPublished =>
           IF job.phase = "Progressing"
             THEN \E w \in Bases(job.snap) : GreedyFrom(job.snap, w, samples, policy'.status.weights)
             ELSE /\ job.snap.status.weights = NoWeights
                  /\ policy'.status.weights \in InitialWeights(job.snap.spec.backends)]_vars
  BY <1>3
<1> QED
  BY <1>1, <1>2, <1>4, Invariance, PTL DEF Spec, WeightsAreComputed

----------------------------------------------------------------------------
(* When nothing but crashes disturbs it                                    *)

\* A prompt watch, calls that do not fail, and no edits: crashes are all that happens.
Undisturbed == PromptWatch /\ Env \subseteq {"crash"}

\* The worker never holds a copy from before the last change.
PacedInv ==
  /\ policy.live /\ cache.live
  /\ route.exists /\ routeCache.exists /\ (pc = "route" => job.body.exists)
  /\ pc # "idle" => queue = "none" /\ cache = policy /\ job.result # "RouteUpdateFailed"
  /\ pc = "idle" /\ queue = "ready" => cache = policy
  /\ queue = "delayed" /\ cache # policy => delay > 0
  /\ queue # "backoff"

\* Every step keeps it.
LEMMA PaceKept ==
  ASSUME Undisturbed
  PROVE  IInv /\ IInv' /\ PacedInv /\ [Next]_vars => PacedInv'
<1> SUFFICES ASSUME IInv, IInv', PacedInv, [Next]_vars PROVE PacedInv'
  OBVIOUS
<1> USE DEF server, caches, work, worker, memory, limits
<1>0. TypeInv /\ JobInv /\ TypeInv'
  BY DEF IInv
<1>1. ~PatchRouteFails /\ ~PatchStatusFails /\ ~EditSpec /\ ~DeletePolicy /\ ~CreatePolicy /\ ~EditRoute
  <2>1. Env \subseteq {"crash"}
    BY DEF Undisturbed
  <2> QED
    BY <2>1 DEF PatchRouteFails, PatchStatusFails, EditSpec, DeletePolicy, CreatePolicy, EditRoute, UserEdit
<1>2. CASE ForgetPolicy
  BY <1>2 DEF ForgetPolicy, PacedInv
<1>3. CASE RejectSpec \/ HonorPause
  <2>1. /\ UNCHANGED <<policy, cache, route, routeCache>> /\ queue' = "none" /\ cache = policy
    BY <1>3 DEF RejectSpec, HonorPause, Refuse, Dequeue, PacedInv
  <2>2. cache \in Objects
    BY <1>0, LiveObject DEF TypeInv, PacedInv
  <2>3. /\ pc' = "status" /\ job'.result \in Refusals /\ job'.snap = cache /\ job'.st = cache.status
    BY <1>3, <2>2, RefuseKeeps DEF RejectSpec, HonorPause, Refusals
  <2> QED
    BY <2>1, <2>3 DEF PacedInv, Refusals
<1>4. CASE Steer
  <2>1. /\ UNCHANGED <<policy, cache, route, routeCache>> /\ queue' = "none" /\ cache = policy
    BY <1>4 DEF Steer, Dequeue, PacedInv
  <2>2. /\ job'.snap = cache /\ job'.result \in {"none", "RouteMissing", "Reconciled"}
        /\ pc' = "route" => routeCache.exists /\ job'.body = Rewritten(routeCache, job'.st.weights)
    BY <1>0, <1>4, SteerKeeps
  <2>3. IsRoute(routeCache)
    BY <1>0 DEF TypeInv, PacedInv, NoRoute
  <2>4. \A w : Rewritten(routeCache, w).exists
    BY <2>3 DEF Rewritten, IsRoute
  <2> QED
    BY <2>1, <2>2, <2>4 DEF PacedInv
<1>5. CASE PatchRoute
  <2>1. /\ UNCHANGED <<policy, cache, routeCache, queue, delay>> /\ pc = "route" /\ IsJob(job)
        /\ route' = job.body /\ Answered("Reconciled")
    BY <1>0, <1>5 DEF PatchRoute, TypeInv, PacedInv
  <2>2. pc' = "status" /\ job'.result = "Reconciled" /\ job'.snap = job.snap /\ job'.st = job.st
    BY <2>1, AnsweredKeeps
  <2> QED
    BY <2>1, <2>2 DEF PacedInv
<1>6. CASE PatchStatus
  <2>1. /\ pc = "status" /\ pc' = "idle" /\ IsJob(job) /\ job.result # "none" /\ queue = "none"
        /\ UNCHANGED <<cache, route, routeCache>> /\ job.result # "RouteUpdateFailed" /\ policy.live
    BY <1>0, <1>6 DEF PatchStatus, Finished, TypeInv, JobInv, PacedInv
  <2>2. Succeed
    BY <1>6, <2>1 DEF PatchStatus
  <2>3. queue' = "none" \/ (queue' = "delayed" /\ delay' > 0)
    <3>1. StrategyCooldown(job.snap.spec) > 0
      BY <2>1, ObjectTypes, CooldownTypes DEF IsJob
    <3> QED
      BY <2>1, <2>2, <3>1 DEF Succeed, Requeue
  <2>4. policy'.live
    <3>1. policy \in Objects
      BY <1>0, <2>1, LiveObject DEF TypeInv
    <3> QED
      BY <1>6, <2>1, <3>1, PublishKeeps, LiveObject DEF PatchStatus
  <2> QED
    BY <2>1, <2>3, <2>4 DEF PacedInv
<1>7. CASE SyncPolicy
  BY <1>7 DEF SyncPolicy, PacedInv
<1>8. CASE SyncRoute
  BY <1>8 DEF SyncRoute, PacedInv
<1>9. CASE DelayOver \/ BackoffOver
  BY <1>9 DEF DelayOver, BackoffOver, PacedInv, TypeInv
<1>10. CASE Tick
  <2>1. /\ cache = policy /\ policy' = Aged(policy) /\ cache' = Aged(cache)
        /\ UNCHANGED <<route, routeCache, queue, pc>>
    BY <1>10 DEF Tick, Undisturbed
  <2>2. policy'.live /\ cache'.live
    BY <1>0, <2>1, AgedAny DEF TypeInv, PacedInv
  <2>3. ASSUME pc # "idle"
        PROVE  job'.result = job.result /\ job'.body = job.body
    BY <1>0, <1>10, <2>3, TickedJobKeeps DEF TypeInv
  <2> QED
    BY <2>1, <2>2, <2>3 DEF PacedInv
<1>11. CASE CrashAndRestart
  BY <1>11 DEF CrashAndRestart, PacedInv
<1>12. CASE UNCHANGED vars
  BY <1>12 DEF vars, PacedInv
<1> QED
  BY <1>1, <1>2, <1>3, <1>4, <1>5, <1>6, <1>7, <1>8, <1>9, <1>10, <1>11, <1>12
  DEF Next, Worker, Machine, Environment

\* Initially both copies agree and the route exists.
LEMMA InitPacedInv == Init => PacedInv
<1> SUFFICES ASSUME Init PROVE PacedInv
  OBVIOUS
<1>1. PICK s \in Specs : policy = NewPolicy(0, s)
  BY DEF Init
<1>2. policy.live
  BY <1>1 DEF NewPolicy
<1>3. route.exists
  BY ReconcilerAssumption DEF Init, IsRoute
<1> QED
  BY <1>2, <1>3 DEF Init, PacedInv

----------------------------------------------------------------------------
(* The applied weights                                                     *)

\* The weights r holds for backends of w are those of w to within s points.
Near(r, w, s) == \A n \in DOMAIN r.weights \cap DOMAIN w : r.weights[n] - w[n] \in (-s)..s

\* Percentages for the same backends, none further than s points away.
Moves(w, v, s) ==
  /\ DOMAIN v = DOMAIN w
  /\ \A n \in DOMAIN w : w[n] \in Int /\ v[n] \in Int /\ v[n] - w[n] \in (-s)..s

\* What carries w is near everything w is moved to, and the other way round.
LEMMA CarriersAreNear ==
  ASSUME NEW r, NEW w, NEW v, NEW s \in Nat, Moves(w, v, s)
  PROVE  /\ Carries(r, w) => Near(r, v, s)
         /\ Carries(r, v) => Near(r, w, s)
<1>1. ASSUME Carries(r, w), NEW n \in DOMAIN r.weights \cap DOMAIN v
      PROVE  r.weights[n] - v[n] \in (-s)..s
  <2>1. n \in DOMAIN w /\ r.weights[n] = w[n]
    BY <1>1 DEF Carries, Moves
  <2>2. v[n] - w[n] \in (-s)..s /\ w[n] \in Int /\ v[n] \in Int
    BY <2>1 DEF Moves
  <2> QED
    BY <2>1, <2>2
<1>2. ASSUME Carries(r, v), NEW n \in DOMAIN r.weights \cap DOMAIN w
      PROVE  r.weights[n] - w[n] \in (-s)..s
  <2>1. n \in DOMAIN v /\ r.weights[n] = v[n]
    BY <1>2 DEF Carries, Moves
  <2> QED
    BY <2>1 DEF Moves
<1> QED
  BY <1>1, <1>2 DEF Near

\* Weights that agree on everything a route names are as near to it as one another.
LEMMA NearThroughCopy ==
  ASSUME NEW r, NEW c, NEW w, NEW v, NEW s, DOMAIN c.weights = DOMAIN r.weights, DOMAIN v = DOMAIN w,
         Carries(c, w), Carries(c, v), Near(r, w, s)
  PROVE  Near(r, v, s)
  BY DEF Carries, Near

\* A rewritten route carries the weights it was rewritten for.
LEMMA RewrittenCarries ==
  ASSUME NEW r, IsRoute(r), NEW w
  PROVE  Carries(Rewritten(r, w), w) /\ DOMAIN Rewritten(r, w).weights = DOMAIN r.weights
<1> DEFINE u == [n \in DOMAIN r.weights |-> IF n \in DOMAIN w THEN w[n] ELSE r.weights[n]]
<1>1. Rewritten(r, w) = [r EXCEPT !.weights = u]
  BY DEF Rewritten
<1>2. DOMAIN u = DOMAIN r.weights /\ \A n \in DOMAIN u \cap DOMAIN w : u[n] = w[n]
  OBVIOUS
<1> HIDE DEF u
<1>3. Rewritten(r, w).weights = u
  BY <1>1 DEF IsRoute
<1> QED
  BY <1>2, <1>3 DEF Carries

\* A Reconcile moves an allocation by at most a step.
LEMMA DecidedMoves ==
  ASSUME NEW p, p \in Objects, NEW j, IsJob(j), Legal(p.status.weights, p.spec.backends),
         Decided(p, p.status, j)
  PROVE  Moves(p.status.weights, j.st.weights, StrategyStep(p.spec)) /\ StrategyStep(p.spec) \in Nat
<1>1. StrategyStep(p.spec) \in Nat
  BY ObjectTypes, ReconcilerAssumption DEF StrategyStep, IsSpec
<1>2. p.status.weights \in Weightings /\ j.st.weights \in Weightings
  BY ObjectTypes DEF IsJob, Statuses
<1>3. /\ \A n \in DOMAIN p.status.weights : p.status.weights[n] \in Int
      /\ \A n \in DOMAIN j.st.weights : j.st.weights[n] \in Int
  BY <1>2, WeightingTypes, PercentTypes
<1>4. CASE j.phase = "Progressing"
  <2>1. Legal(j.st.weights, p.spec.backends)
    BY <1>4 DEF Decided
  <2>2. DOMAIN j.st.weights = DOMAIN p.status.weights
    BY <2>1 DEF Legal
  <2>3. \A n \in DOMAIN p.status.weights :
          j.st.weights[n] - p.status.weights[n] \in (-StrategyStep(p.spec))..StrategyStep(p.spec)
    BY <1>4 DEF Decided
  <2> QED
    BY <1>1, <1>3, <2>2, <2>3 DEF Moves
<1>5. CASE j.phase # "Progressing"
  <2>1. j.st.weights = p.status.weights
    BY <1>5 DEF Decided
  <2> QED
    BY <1>1, <1>3, <2>1 DEF Moves
<1> QED
  BY <1>4, <1>5

\* An allocation is not the empty one.
LEMMA LegalIsSome ==
  ASSUME NEW w, NEW bs, Legal(w, bs)
  PROVE  w # NoWeights
<1>1. DOMAIN NoWeights = {}
  BY DEF NoWeights
<1>2. SumFunction(NoWeights) = 0
  BY <1>1, SumEmpty DEF SumFunction
<1> QED
  BY <1>2 DEF Legal, TotalOf, Full

\* What Apply's read finds if there is a route: something to patch, or the weights already there.
LEMMA SteerLooksUp ==
  ASSUME TypeInv, Steer, routeCache.exists
  PROVE  /\ job'.result \in {"none", "Reconciled"}
         /\ job'.result = "Reconciled" => Rewritten(routeCache, job'.st.weights) = routeCache
<1>1. PICK st, phase : LookUpRoute(st, phase)
  BY DEF Steer
<1> DEFINE body == Rewritten(routeCache, st.weights)
<1>2. PICK r \in {"none", "Reconciled"} :
        /\ job' = [snap |-> cache, st |-> st, phase |-> phase, result |-> r, body |-> body]
        /\ r = "Reconciled" => body = routeCache
  BY <1>1 DEF LookUpRoute
<1> HIDE DEF body
<1>3. job'.st = st /\ job'.result = r
  BY <1>2
<1> QED
  BY <1>2, <1>3 DEF body

\* The route and its copy differ by the last change at most: one of them carries w.
Linked(w) == routeCache.weights = route.weights \/ Carries(route, w) \/ Carries(routeCache, w)

\* The weights the running Reconcile has put on the route, or found there.
Applied == pc = "status" /\ job.result = "Reconciled"

\* The route is within a step of the published weights, and of those about to be published;
\* what the controller sees of it is the route itself, or the one of the two that has not
\* been written since carries the weights it decides from.
NearInv ==
  LET old  == policy.status.weights
      step == StrategyStep(policy.spec)
  IN  /\ old = NoWeights \/ Legal(old, policy.spec.backends)
      /\ DOMAIN routeCache.weights = DOMAIN route.weights
      /\ Near(route, old, step)
      /\ ~Applied => IF old = NoWeights THEN routeCache.weights = route.weights ELSE Linked(old)
      /\ Applied => Near(route, job.st.weights, step) /\ Linked(job.st.weights)
      /\ pc # "idle" =>
           /\ job.result # "RouteMissing"
           /\ job.result \notin Refusals => Legal(job.st.weights, policy.spec.backends)
           /\ pc = "route" => /\ DOMAIN job.body.weights = DOMAIN route.weights
                              /\ Carries(job.body, job.st.weights)

\* Steer, from the published weights, and from a copy of the route.
LEMMA SteerStaysNear ==
  ASSUME IInv, PacedInv, NearInv, Steer
  PROVE  NearInv'
<1> DEFINE old  == policy.status.weights
           new  == job'.st.weights
           step == StrategyStep(policy.spec)
<1>1. /\ UNCHANGED <<policy, route, routeCache>> /\ cache = policy /\ pc = "idle"
      /\ routeCache.exists /\ policy \in Objects /\ IsRoute(routeCache) /\ TypeInv
  BY LiveObject DEF Steer, Dequeue, PacedInv, server, caches, IInv, TypeInv, NoRoute
<1>2. /\ IsJob(job') /\ job'.snap = policy /\ pc' \in {"route", "status"}
      /\ pc' = "route" <=> job'.result = "none"
      /\ pc' = "route" => job'.body = Rewritten(routeCache, new)
      /\ Legal(new, policy.spec.backends)
      /\ old # NoWeights => Decided(policy, policy.status, job')
  BY <1>1, SteerKeeps DEF NearInv
<1>3. /\ job'.result \in {"none", "Reconciled"}
      /\ job'.result = "Reconciled" => Rewritten(routeCache, new) = routeCache
  BY <1>1, SteerLooksUp
<1>4. Carries(Rewritten(routeCache, new), new) /\ DOMAIN Rewritten(routeCache, new).weights = DOMAIN routeCache.weights
  BY <1>1, RewrittenCarries
<1>5. step \in Nat /\ Moves(new, new, step)
  <2>1. new \in Weightings
    BY <1>2 DEF IsJob, Statuses
  <2>2. \A n \in DOMAIN new : new[n] \in Int
    BY <2>1, WeightingTypes, PercentTypes
  <2>3. step \in Nat
    BY <1>1, ObjectTypes, ReconcilerAssumption DEF StrategyStep, IsSpec
  <2> QED
    BY <2>2, <2>3 DEF Moves
<1>6. old # NoWeights => Moves(old, new, step)
  <2>1. PICK p, j : p = policy /\ j = job'
    OBVIOUS
  <2>2. ASSUME old # NoWeights
        PROVE  Moves(p.status.weights, j.st.weights, StrategyStep(p.spec))
    BY <1>1, <1>2, <2>1, <2>2, DecidedMoves DEF NearInv
  <2> QED
    BY <2>1, <2>2
<1>7. ASSUME job'.result = "Reconciled" PROVE Near(route, new, step)
  <2>1. Carries(routeCache, new)
    BY <1>3, <1>4, <1>7
  <2>2. CASE routeCache.weights = route.weights
    <3>1. Carries(route, new)
      BY <2>1, <2>2 DEF Carries
    <3> QED
      BY <1>5, <3>1, CarriersAreNear
  <2>3. CASE old # NoWeights /\ Carries(route, old)
    BY <1>5, <1>6, <2>3, CarriersAreNear
  <2>4. CASE old # NoWeights /\ Carries(routeCache, old)
    <3>1. DOMAIN new = DOMAIN old /\ DOMAIN routeCache.weights = DOMAIN route.weights /\ Near(route, old, step)
      BY <1>6, <2>4 DEF Moves, NearInv
    <3> HIDE DEF new, old, step
    <3> QED
      BY <2>1, <2>4, <3>1, NearThroughCopy
  <2> QED
    BY <1>1, <2>2, <2>3, <2>4 DEF NearInv, Applied, Linked
<1>8. job'.result = "Reconciled" => Carries(routeCache, new)
  BY <1>3, <1>4
<1>9. pc' = "route" => /\ DOMAIN job'.body.weights = DOMAIN route.weights
                       /\ Carries(job'.body, new)
  BY <1>2, <1>4 DEF NearInv
<1>10. job'.result \notin Refusals
  BY <1>3 DEF Refusals
<1> QED
  BY <1>1, <1>2, <1>3, <1>7, <1>8, <1>9, <1>10 DEF NearInv, Applied, Linked

\* Every step keeps it.
LEMMA NearKept ==
  ASSUME Undisturbed
  PROVE  IInv /\ IInv' /\ PacedInv /\ NearInv /\ [Next]_vars => NearInv'
<1> SUFFICES ASSUME IInv, IInv', PacedInv, NearInv, [Next]_vars PROVE NearInv'
  OBVIOUS
<1> USE DEF server, caches, work, worker, memory, limits
<1>0. TypeInv /\ JobInv /\ TypeInv' /\ policy \in Objects /\ policy.live
  BY LiveObject DEF IInv, TypeInv, PacedInv
<1>1. ~PatchRouteFails /\ ~PatchStatusFails /\ ~EditSpec /\ ~DeletePolicy /\ ~CreatePolicy /\ ~EditRoute
  <2>1. Env \subseteq {"crash"}
    BY DEF Undisturbed
  <2> QED
    BY <2>1 DEF PatchRouteFails, PatchStatusFails, EditSpec, DeletePolicy, CreatePolicy, EditRoute, UserEdit
<1>2. CASE Steer
  BY <1>2, SteerStaysNear
<1>3. CASE RejectSpec \/ HonorPause
  <2>1. UNCHANGED <<policy, route, routeCache>> /\ pc = "idle" /\ cache \in Objects
    BY <1>0, <1>3, LiveObject DEF RejectSpec, HonorPause, Refuse, Dequeue, TypeInv
  <2>2. pc' = "status" /\ job'.result \in Refusals
    BY <1>3, <2>1, RefuseKeeps DEF RejectSpec, HonorPause, Refusals
  <2> QED
    BY <2>1, <2>2 DEF NearInv, Applied, Linked, Refusals
<1>4. CASE PatchRoute
  <2>1. /\ UNCHANGED <<policy, cache, routeCache>> /\ pc = "route" /\ IsJob(job)
        /\ route' = job.body /\ Answered("Reconciled") /\ job.snap = policy /\ job.result = "none"
    BY <1>0, <1>4 DEF PatchRoute, TypeInv, PacedInv, JobInv
  <2>2. pc' = "status" /\ job'.result = "Reconciled" /\ job'.st = job.st
    BY <2>1, AnsweredKeeps
  <2> DEFINE old  == policy.status.weights
             new  == job.st.weights
             step == StrategyStep(policy.spec)
  <2>3. Legal(new, policy.spec.backends) /\ Carries(route', new) /\ DOMAIN route'.weights = DOMAIN route.weights
    BY <2>1 DEF NearInv, Refusals
  <2>4. step \in Nat /\ Moves(new, new, step)
    <3>1. new \in Weightings
      BY <2>1 DEF IsJob, Statuses
    <3>2. \A n \in DOMAIN new : new[n] \in Int
      BY <3>1, WeightingTypes, PercentTypes
    <3>3. step \in Nat
      BY <1>0, ObjectTypes, ReconcilerAssumption DEF StrategyStep, IsSpec
    <3> QED
      BY <3>2, <3>3 DEF Moves
  <2>5. old # NoWeights => Moves(old, new, step)
    <3>1. old # NoWeights => Decided(policy, policy.status, job) /\ Legal(old, policy.spec.backends)
      BY <1>0, <2>1 DEF JobInv, NearInv
    <3>2. PICK p, j : p = policy /\ j = job
      OBVIOUS
    <3> QED
      BY <1>0, <2>1, <3>1, <3>2, DecidedMoves
  <2>6. PICK r : r = route'
    OBVIOUS
  <2>7. Near(r, new, step)
    BY <2>3, <2>4, <2>6, CarriersAreNear
  <2>8. Near(r, old, step)
    <3>1. CASE old = NoWeights
      <4>1. DOMAIN old = {}
        BY <3>1 DEF NoWeights
      <4> QED
        BY <4>1 DEF Near
    <3>2. CASE old # NoWeights
      BY <2>3, <2>4, <2>5, <2>6, <3>2, CarriersAreNear
    <3> QED
      BY <3>1, <3>2
  <2> QED
    BY <2>1, <2>2, <2>3, <2>6, <2>7, <2>8 DEF NearInv, Applied, Linked
<1>5. CASE PatchStatus
  <2>1. /\ pc = "status" /\ pc' = "idle" /\ IsJob(job) /\ job.result # "none"
        /\ UNCHANGED <<route, routeCache>> /\ job.snap = policy
    BY <1>0, <1>5 DEF PatchStatus, Finished, TypeInv, JobInv, PacedInv
  <2>2. CASE SkipsPatch(job) /\ policy' = policy
    <3>1. ~Applied
      BY <2>2 DEF SkipsPatch, Applied
    <3> QED
      BY <2>1, <2>2, <3>1 DEF NearInv, Applied, Linked
  <2>3. CASE policy' = [policy EXCEPT !.status = Merged(@, job)]
    <3>1. /\ policy'.spec = policy.spec
          /\ policy'.status.weights = IF Desired(job).weights # policy.status.weights
                                        THEN Desired(job).weights ELSE policy.status.weights
      BY <1>0, <2>1, <2>3, PublishKeeps DEF Published
    <3>2. policy'.status.weights = job.st.weights
      BY <2>1, <3>1, DesiredKeeps
    <3>3. CASE job.result \in Refusals
      <4>1. policy'.status.weights = policy.status.weights
        BY <1>0, <2>1, <3>2, <3>3 DEF JobInv
      <4> QED
        BY <2>1, <3>1, <3>3, <4>1 DEF NearInv, Applied, Linked, Refusals
    <3>4. CASE job.result \notin Refusals
      <4>1. job.result = "Reconciled"
        BY <2>1, <3>4 DEF IsJob, Refusals, Outcomes, NearInv, PacedInv
      <4>2. Legal(job.st.weights, policy.spec.backends) /\ job.st.weights # NoWeights
        BY <2>1, <3>4, LegalIsSome DEF NearInv
      <4> QED
        BY <2>1, <3>1, <3>2, <4>1, <4>2 DEF NearInv, Applied, Linked
    <3> QED
      BY <3>3, <3>4
  <2> QED
    BY <1>0, <1>5, <2>2, <2>3 DEF PatchStatus
<1>6. CASE SyncRoute
  BY <1>6 DEF SyncRoute, NearInv, Applied, Linked
<1>7. CASE CrashAndRestart
  BY <1>7 DEF CrashAndRestart, NearInv, Applied, Linked
<1>8. CASE Tick
  <2>1. UNCHANGED <<route, routeCache, pc>> /\ policy' = Aged(policy)
    BY <1>8 DEF Tick
  <2>2. policy'.spec = policy.spec /\ policy'.status.weights = policy.status.weights
    BY <1>0, <2>1, ObjectTypes, AgedKeeps, AgedStatusKeeps
  <2>3. pc # "idle" => /\ job'.result = job.result /\ job'.body = job.body
                       /\ job'.st.weights = job.st.weights
    BY <1>0, <1>8, TickedJobKeeps, AgedStatusKeeps DEF TypeInv, IsJob
  <2> QED
    BY <2>1, <2>2, <2>3 DEF NearInv, Applied, Linked
<1>9. CASE ForgetPolicy \/ SyncPolicy \/ DelayOver \/ BackoffOver \/ UNCHANGED vars
  <2>1. UNCHANGED <<policy, route, routeCache, pc, job>>
    BY <1>9 DEF ForgetPolicy, SyncPolicy, DelayOver, BackoffOver, vars
  <2> QED
    BY <2>1 DEF NearInv, Applied, Linked
<1> QED
  BY <1>1, <1>2, <1>3, <1>4, <1>5, <1>6, <1>7, <1>8, <1>9 DEF Next, Worker, Machine, Environment

\* Initially nothing is published.
LEMMA InitNearInv == Init => NearInv
<1> SUFFICES ASSUME Init PROVE NearInv
  OBVIOUS
<1>1. PICK s \in Specs : policy = NewPolicy(0, s)
  BY DEF Init
<1>2. policy.status.weights = NoWeights /\ DOMAIN NoWeights = {}
  BY <1>1 DEF NewPolicy, NewStatus, NoWeights
<1> QED
  BY <1>2 DEF Init, NearInv, Applied, Near

\* The route never strays from what is published by more than a step, although a crash
\* between the two patches may come again and again and each restart may shift anew.
THEOREM AppliedStaysNear ==
  ASSUME Undisturbed
  PROVE  Spec => []AppliedNearPublished
<1>1. NearInv => AppliedNearPublished
  BY DEF NearInv, Near, AppliedNearPublished
<1>2. IInv /\ IInv' /\ PacedInv /\ [Next]_vars => PacedInv'
  BY PaceKept
<1>3. IInv /\ IInv' /\ PacedInv /\ NearInv /\ [Next]_vars => NearInv'
  BY NearKept
<1> QED
  BY <1>1, <1>2, <1>3, InitPacedInv, InitNearInv, Invariance, PTL DEF Spec

----------------------------------------------------------------------------
(* The loop implements a paced split                                       *)

\* Every spec a user may write is valid and has the same backends, step and cooldown; the
\* thresholds, the window and the pause may differ.
SamePace ==
  \A s \in Specs : /\ ValidSpec(s.backends) /\ s.backends = Sole.backends
                   /\ StrategyStep(s) = StrategyStep(Sole)
                   /\ StrategyCooldown(s) = StrategyCooldown(Sole)

\* A legal allocation is a split of the abstract specification.
LEMMA LegalIsSplit ==
  ASSUME NEW w, Legal(w, Sole.backends)
  PROVE  Paced!IsSplit(w)
<1>1. DOMAIN BoundsOf(Sole.backends) = Named(Sole.backends)
  BY DEF BoundsOf
<1>2. Paced!SumFunction(w) = SumFunction(w)
  BY DEF SumFunction, SumFunctionOnSet, FoldFunctionOnSet, MapThenFoldSet, Paced!SumFunction,
         Paced!SumFunctionOnSet, Paced!FoldFunctionOnSet, Paced!MapThenFoldSet
<1> QED
  BY <1>1, <1>2 DEF Legal, TotalOf, Paced!IsSplit

\* A status patch is a publication, a move, or nothing the abstract specification sees.
LEMMA PatchIsPaced ==
  ASSUME SamePace, Undisturbed, IInv, PacedInv, WeightsInv, PatchStatus
  PROVE  [Paced!Next]_(Paced!vars)
<1> DEFINE old == policy.status
           new == policy'.status
<1>1. /\ pc # "idle" /\ job.snap = cache /\ cache = policy /\ IsJob(job) /\ job.result # "none"
      /\ policy \in Objects /\ policy.live
  BY LiveObject DEF PatchStatus, IInv, TypeInv, JobInv, PacedInv
<1>2. CASE policy' = policy
  BY <1>2 DEF Paced!vars
<1>3. CASE policy' # policy
  <2>1. policy' = [policy EXCEPT !.status = Merged(@, job)]
    BY <1>3 DEF PatchStatus
  <2>2. /\ new.weights = job.st.weights
        /\ new.changeAge = IF job.phase = "Progressing" THEN job.st.changeAge ELSE old.changeAge
    <3>1. /\ new.weights = IF Desired(job).weights # old.weights THEN Desired(job).weights ELSE old.weights
          /\ new.changeAge = IF job.phase = "Progressing" THEN Desired(job).changeAge ELSE old.changeAge
      BY <1>1, <2>1, PublishKeeps DEF Published
    <3>2. Desired(job).weights = job.st.weights /\ Desired(job).changeAge = job.st.changeAge
      BY <1>1, DesiredKeeps
    <3> QED
      BY <3>1, <3>2
  <2>3. /\ job.st \in Statuses /\ old \in Statuses /\ policy.spec \in Specs
        /\ job.st.changeAge \in Never..MaxAge /\ old.changeAge \in Never..MaxAge
    BY <1>1, ObjectTypes DEF IsJob, Statuses
  <2>4. OneValidList
    BY DEF SamePace, OneValidList
  <2>5. \A w : Allocated(w) => Legal(w, Sole.backends) /\ Paced!IsSplit(w)
    BY LegalIsSplit DEF SamePace, Allocated
  <2>6. \/ job.st.weights = NoWeights /\ job.phase # "Progressing"
        \/ Paced!IsSplit(job.st.weights)
    BY <1>1, <2>5 DEF WeightsInv
  <2>8. NoWeights = Paced!Nothing /\ Never = Paced!Never
    BY DEF NoWeights, Paced!Nothing, Never, Paced!Never
  <2> HIDE DEF old, new
  <2>9. Paced!vars = <<old.weights, old.changeAge>> /\ Paced!vars' = <<new.weights, new.changeAge>>
    BY DEF Paced!vars, old, new
  <2>10. CASE old.weights = NoWeights
    <3>1. CASE job.st.weights = NoWeights /\ job.phase # "Progressing"
      BY <2>2, <2>9, <2>10, <3>1
    <3>2. CASE Paced!IsSplit(job.st.weights)
      <4>1. Paced!IsSplit(new.weights) /\ new.changeAge \in Never..MaxAge
        BY <2>2, <2>3, <3>2
      <4>2. Paced!Publish
        BY <2>8, <2>10, <4>1 DEF Paced!Publish, old, new
      <4> QED
        BY <4>2 DEF Paced!Next
    <3> QED
      BY <2>6, <3>1, <3>2
  <2>11. CASE old.weights # NoWeights
    <3>1. Decided(policy, old, job)
      BY <1>1, <2>11 DEF IInv, JobInv, old
    <3>2. CASE job.phase # "Progressing"
      BY <2>2, <2>9, <3>1, <3>2 DEF Decided
    <3>3. CASE job.phase = "Progressing"
      <4>1. Legal(old.weights, Sole.backends)
        BY <1>1, <2>5, <2>11 DEF WeightsInv, old
      <4>2. Legal(old.weights, policy.spec.backends)
        BY <2>3, <4>1 DEF SamePace
      <4>3. /\ CooldownElapsed(policy) /\ new.changeAge # Never
            /\ \A n \in DOMAIN old.weights :
                 new.weights[n] - old.weights[n] \in (-StrategyStep(policy.spec))..StrategyStep(policy.spec)
        BY <2>2, <3>1, <3>3, <4>2 DEF Decided
      <4>4. old.changeAge = Never \/ old.changeAge >= StrategyCooldown(Sole)
        BY <2>3, <4>3 DEF CooldownElapsed, SamePace, old
      <4>5. \A n \in DOMAIN old.weights :
              new.weights[n] - old.weights[n] \in (-StrategyStep(Sole))..StrategyStep(Sole)
        BY <2>3, <4>3 DEF SamePace
      <4>6. new.changeAge \in 0..MaxAge
        BY <2>2, <2>3, <3>3, <4>3, ReconcilerAssumption DEF Never
      <4>7. Paced!IsSplit(new.weights)
        <5>1. Legal(job.st.weights, Sole.backends)
          BY <2>3, <3>1, <3>3, <4>2 DEF Decided, SamePace
        <5> QED
          BY <2>2, <5>1, LegalIsSplit
      <4>8. Paced!Move
        BY <2>8, <2>11, <4>4, <4>5, <4>6, <4>7 DEF Paced!Move, old, new
      <4> QED
        BY <4>8 DEF Paced!Next
    <3> QED
      BY <3>2, <3>3
  <2> QED
    BY <2>10, <2>11
<1> QED
  BY <1>2, <1>3

\* With a prompt watch and nothing but crashes around it, what the whole loop publishes, with
\* its caches and its queue, is a paced split between the backends.
THEOREM PublishesPacedSplit ==
  ASSUME SamePace, Undisturbed
  PROVE  Spec => ImplementsPacedSplit
<1>1. OneValidList
  BY DEF SamePace, OneValidList
<1>2. Init => Paced!Init
  <2> SUFFICES ASSUME Init PROVE Paced!Init
    OBVIOUS
  <2>1. PICK s \in Specs : policy = NewPolicy(0, s)
    BY DEF Init
  <2>2. policy.status.weights = NoWeights /\ policy.status.changeAge = Never
    BY <2>1 DEF NewPolicy, NewStatus
  <2> QED
    BY <2>2 DEF Paced!Init, Paced!Nothing, Paced!Never, NoWeights, Never
<1>3. ASSUME IInv, PacedInv, WeightsInv, [Next]_vars PROVE [Paced!Next]_(Paced!vars)
  <2> USE DEF server, caches, work, worker, memory, limits
  <2>1. Env \subseteq {"crash"}
    BY DEF Undisturbed
  <2>2. CASE PatchStatus
    BY <1>3, <2>2, PatchIsPaced
  <2>3. CASE Tick
    <3>1. policy' = Aged(policy) /\ policy \in Objects
      BY <1>3, <2>3, LiveObject DEF Tick, IInv, TypeInv, PacedInv
    <3>2. /\ policy'.status.weights = policy.status.weights
          /\ policy'.status.changeAge = Older(policy.status.changeAge)
      BY <3>1, ObjectTypes, AgedKeeps, AgedStatusKeeps
    <3>3. policy.status.changeAge \in Never..MaxAge /\ MaxAge \in Nat
      BY <3>1, ObjectTypes, ReconcilerAssumption DEF Statuses
    <3>4. CASE policy.status.changeAge = Never \/ policy.status.changeAge = MaxAge
      BY <3>2, <3>4 DEF Older, Paced!vars
    <3>5. CASE ~(policy.status.changeAge = Never \/ policy.status.changeAge = MaxAge)
      <4>1. Paced!Tick
        BY <3>2, <3>3, <3>5 DEF Older, Paced!Tick, Never, Paced!Never
      <4> QED
        BY <4>1 DEF Paced!Next
    <3> QED
      BY <3>4, <3>5
  <2>4. CASE UNCHANGED policy
    BY <2>4 DEF Paced!vars
  <2> QED
    BY <1>3, <2>1, <2>2, <2>3, <2>4
    DEF Next, Worker, Machine, Environment, ForgetPolicy, RejectSpec, HonorPause, Refuse, Steer, PatchRoute,
        PatchRouteFails, PatchStatusFails, SyncPolicy, SyncRoute, DelayOver, BackoffOver, EditSpec,
        DeletePolicy, CreatePolicy, EditRoute, UserEdit, CrashAndRestart, vars
<1>4. IInv /\ IInv' /\ PacedInv /\ [Next]_vars => PacedInv'
  BY PaceKept
<1>5. IInv /\ IInv' /\ WeightsInv /\ [Next]_vars => WeightsInv'
  BY <1>1, WeightsKept
<1> QED
  BY <1>2, <1>3, <1>4, <1>5, InitPacedInv, InitWeightsInv, Invariance, PTL
  DEF Spec, ImplementsPacedSplit, Paced!Spec
=============================================================================
