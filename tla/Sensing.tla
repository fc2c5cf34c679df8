------------------------------ MODULE Sensing ------------------------------
(***************************************************************************)
(* The sensing half of evaluateMetrics, round after round: one query per   *)
(* configured signal, the reading of its reply series by series, the       *)
(* smoother, and what is handed to the evaluator.  Between two rounds the  *)
(* spec may be edited, the policy deleted and created again, or the        *)
(* process restarted.  Beside it the machine keeps the history of every    *)
(* answer, to say what the averages should be.                             *)
(***************************************************************************)
EXTENDS Smoothing, PromSource

CONSTANTS
  Policies,    \* the policies one process serves
  Plans,       \* what a spec says of sensing: [backends, signals, window]
  Replies,     \* what a query may be answered
  MaxRounds    \* bound on the rounds

\* What a query may measure: any float64.
Measures == Int \cup {NaN, Inf}

ASSUME SensingAssumption ==
  /\ {NaN, Inf} \cap Int = {}
  /\ \A r \in Replies : IsReply(r) /\ \A i \in DOMAIN r.series : r.series[i].value \in Measures \cup {Malformed}
  /\ \A plan \in Plans : plan.window \in Int
  /\ \A plan \in Plans : plan.signals # {} /\ plan.signals \subseteq {"latency", "errorRate"}
  /\ MaxRounds \in Nat

VARIABLES
  data,      \* Smoother.data
  pc,        \* "idle", "query", "read", "ready" (for the evaluator), "frozen"
  round,     \* the round under way or just over
  reply,     \* the reply being read
  next,      \* the series read next
  out,       \* the samples read so far
  history,   \* per key and backend, every sample answered since the process started
  rounds     \* rounds begun

reading == <<reply, next, out>>
vars    == <<data, pc, round, reply, next, out, history, rounds>>

Configured(plan, sig) == IF sig \in plan.signals THEN <<sig>> ELSE <<>>

\* signalSpecs: the configured signals, latency first.
SignalSpecs(plan) == Configured(plan, "latency") \o Configured(plan, "errorRate")

\* Mutant of Key: one buffer for both signals.
KeyOfPolicy(p, sig) == <<p>>

Key(p, sig)     == <<p, sig>>
ForgetPolicyKey(p) == <<p>>
Keys == {Key(p, sig) : p \in Policies, sig \in {"latency", "errorRate"}}

StrategyWindow(plan) == IF plan.window <= 0 THEN 3 ELSE plan.window

NoRound == [policy |-> "none"]
NoReply == [received |-> FALSE]
NoHistory == [k \in {} |-> <<>>]

Past(k, b) == IF k \in DOMAIN history /\ b \in DOMAIN history[k] THEN history[k][b] ELSE <<>>

Init ==
  /\ data = NoData
  /\ pc = "idle"
  /\ round = NoRound
  /\ reply = NoReply /\ next = 1 /\ out = NoSamples
  /\ history = NoHistory
  /\ rounds = 0

Resting == pc \in {"idle", "ready", "frozen"}

BeginRound(p, plan) ==
  /\ Resting
  /\ rounds < MaxRounds
  /\ rounds' = rounds + 1
  /\ round' = [policy |-> p, plan |-> plan, todo |-> SignalSpecs(plan), signals |-> [sig \in {} |-> NoSamples]]
  /\ pc' = "query"
  /\ UNCHANGED <<data, reading, history>>

\* Mutant of Freeze: the failed signal skipped and the others evaluated.
SkipSignal ==
  /\ round' = [round EXCEPT !.todo = Tail(@)]
  /\ pc' = IF Len(round.todo) = 1 THEN "ready" ELSE "query"
  /\ reply' = NoReply /\ next' = 1 /\ out' = NoSamples
  /\ UNCHANGED <<data, history, rounds>>

\* Sample returned an error: the round ends and nothing goes to the evaluator.
Freeze ==
  /\ pc' = "frozen"
  /\ reply' = NoReply /\ next' = 1 /\ out' = NoSamples
  /\ UNCHANGED <<data, round, history, rounds>>

QueryFails ==
  /\ pc = "query"
  /\ \E r \in Replies : ~Accepted(r)
  /\ Freeze

QueryAnswered ==
  /\ pc = "query"
  /\ \E r \in {r \in Replies : Accepted(r)} : reply' = r
  /\ next' = 1 /\ out' = NoSamples
  /\ pc' = "read"
  /\ UNCHANGED <<data, round, history, rounds>>

Series == reply.series[next]
Wanted == round.plan.backends

ReadSeries ==
  /\ pc = "read" /\ next <= Len(reply.series)
  /\ next' = next + 1
  /\ \/ ~Concerns(Series, Wanted) /\ UNCHANGED out
     \/ Concerns(Series, Wanted) /\ Series.value # Malformed /\ out' = Collect(out, Series)
  /\ UNCHANGED <<data, pc, round, reply, history, rounds>>

\* One bad value of a requested backend fails the whole query.
ReadMalformed ==
  /\ pc = "read" /\ next <= Len(reply.series)
  /\ Concerns(Series, Wanted) /\ Series.value = Malformed
  /\ Freeze

\* The reply is read: its samples go through the smoother, and the means on.
RecordSamples ==
  /\ pc = "read" /\ next > Len(reply.series)
  /\ LET sig == Head(round.todo)
         k   == Key(round.policy, sig)
     IN  /\ data' = Record(data, k, out)
         /\ round' = [round EXCEPT
              !.todo = Tail(@),
              !.signals = [s \in DOMAIN @ \cup {sig} |->
                 IF s # sig THEN @[s]
                 ELSE [b \in DOMAIN out |-> Mean(data', k, b, StrategyWindow(round.plan))]]]
         /\ history' = [h \in DOMAIN history \cup {<<round.policy, sig>>} |->
              IF h # <<round.policy, sig>> THEN history[h]
              ELSE [b \in DOMAIN out \cup (IF h \in DOMAIN history THEN DOMAIN history[h] ELSE {}) |->
                     IF b \in DOMAIN out THEN Append(Past(h, b), out[b]) ELSE history[h][b]]]
  /\ pc' = IF Len(round.todo) = 1 THEN "ready" ELSE "query"
  /\ reply' = NoReply /\ next' = 1 /\ out' = NoSamples
  /\ UNCHANGED rounds

\* The policy is deleted: Forget gets a key nothing is kept under.
Forget(p) ==
  /\ Resting
  /\ data' = ForgetKey(data, ForgetPolicyKey(p))
  /\ round' = NoRound /\ pc' = "idle"
  /\ UNCHANGED <<reading, history, rounds>>

Restart ==
  /\ data' = NoData /\ history' = NoHistory
  /\ round' = NoRound /\ pc' = "idle"
  /\ reply' = NoReply /\ next' = 1 /\ out' = NoSamples
  /\ UNCHANGED rounds

Next ==
  \/ \E p \in Policies, plan \in Plans : BeginRound(p, plan)
  \/ QueryFails \/ QueryAnswered \/ ReadSeries \/ ReadMalformed \/ RecordSamples
  \/ \E p \in Policies : Forget(p)
  \/ Restart

Spec == Init /\ [][Next]_vars

----------------------------------------------------------------------------
(* Properties                                                              *)

\* Every variable has its type, and no buffer outgrows the cap.
TypeOK ==
  /\ \A k \in DOMAIN data : \A b \in DOMAIN data[k] : Len(data[k][b]) \in 1..MaxWindow
  /\ pc \in {"idle", "query", "read", "ready", "frozen"}
  /\ pc \in {"query", "read"} => round.todo # <<>>
  /\ pc # "idle" => round.policy \in Policies /\ round.plan \in Plans
  /\ DOMAIN history \subseteq Keys
  /\ rounds \in 0..MaxRounds

----------------------------------------------------------------------------
(* PromSource.Sample, stated without its loop                              *)

Concerning(r, b) ==
  {i \in DOMAIN r.series : Concerns(r.series[i], Wanted) /\ BackendOf(r.series[i]) = b}

LastOf(S) == CHOOSE i \in S : \A j \in S : j <= i

\* source.go "one value per backend name ... omit backends the query did not produce a value for
\* (rather than inventing zeros)": once a reply is read, exactly the backends with a
\* series have a sample, the last series' of each, whatever else the vector holds; and no
\* value that is not a number has been passed over on the way.
SampleKeepsContract ==
  pc = "read" /\ next > Len(reply.series) =>
    /\ DOMAIN out = {b \in Wanted : Concerning(reply, b) # {}}
    /\ \A b \in DOMAIN out : out[b] = reply.series[LastOf(Concerning(reply, b))].value
    /\ \A b \in DOMAIN out, i \in DOMAIN reply.series :
         i \in Concerning(reply, b) => reply.series[i].value # Malformed

\* README.md "Metrics down => freeze": the evaluator gets the samples of every configured
\* signal, each asked for in this round, or the round freezes; an outage of one
\* signal never leaves the decision to the other alone.
AllOrNothing ==
  /\ pc = "ready"  => DOMAIN round.signals = round.plan.signals
  /\ pc = "frozen" => DOMAIN round.signals # round.plan.signals

\* The positions of a history a window covers, counted from its end.
Recent(h, w) == {i \in DOMAIN h : Len(h) - i < w}

\* smoother.go "the mean of the most recent window entries", controller.go "a latency spike
\* does not pollute the error-rate moving average": each mean handed on is that of
\* the last answers for this policy, signal and backend since the process started, through trimmed
\* buffers, edits of the window, rounds cut short and other policies' samples; and one NaN
\* or infinite answer spoils it exactly as long as it is among them.
MeanOfRecent ==
  round # NoRound =>
    \A sig \in DOMAIN round.signals : \A b \in DOMAIN round.signals[sig] :
      LET h    == history[<<round.policy, sig>>][b]
          w    == StrategyWindow(round.plan)
          S    == Recent(h, IF w > MaxWindow THEN MaxWindow ELSE w)
          mean == round.signals[sig][b]
      IN  IF \E i \in S : h[i] = NaN THEN mean = NaN
          ELSE IF \E i \in S : h[i] = Inf THEN mean = Inf
          ELSE mean \notin {NaN, Inf} /\ mean * Cardinality(S) = MeanUnit * SumFunctionOnSet(h, S)
=============================================================================
