--------------------------- MODULE SensingProofs ---------------------------
(***************************************************************************)
(* Theorems about Sensing, for all plans and replies, whatever the window: *)
(* what a query's result contains, that a decision gets all configured     *)
(* signals or none, and that every mean handed on is that of the last      *)
(* answers.  The last rests on an invariant that ties the smoother's       *)
(* trimmed buffers to the whole history of answers.                        *)
(***************************************************************************)
EXTENDS Sensing, SumTheorems, SequenceTheorems

----------------------------------------------------------------------------
(* The inductive invariant                                                 *)

Todos == {<<>>, <<"latency">>, <<"errorRate">>, <<"latency", "errorRate">>}

\* A round is about a policy and a plan; the signals it has means of and the signals it has
\* still to ask for are together the plan's, and none is asked for twice.
RoundInv ==
  /\ pc \in {"idle", "query", "read", "ready", "frozen"}
  /\ rounds \in 0..MaxRounds
  /\ pc = "idle" => round = NoRound
  /\ pc # "idle" =>
       /\ round = [policy |-> round.policy, plan |-> round.plan, todo |-> round.todo, signals |-> round.signals]
       /\ round.policy \in Policies /\ round.plan \in Plans
       /\ round.todo \in Todos /\ Range(round.todo) \subseteq round.plan.signals
       /\ DOMAIN round.signals = round.plan.signals \ Range(round.todo)
       /\ round.todo = <<>> <=> pc = "ready"

\* The series that have been read.
ReadOf(b) == {i \in Concerning(reply, b) : i < next}

\* The samples are the last values of the series read, none of them malformed.
ReadInv ==
  pc = "read" =>
    /\ reply \in Replies /\ next \in 1..(Len(reply.series) + 1)
    /\ DOMAIN out = {b \in Wanted : ReadOf(b) # {}}
    /\ \A b \in DOMAIN out : \E i \in ReadOf(b) :
         out[b] = reply.series[i].value /\ \A j \in ReadOf(b) : j <= i
    /\ \A b \in Wanted : \A i \in ReadOf(b) : reply.series[i].value # Malformed

\* A buffer holds the end of its history.
HistoryInv ==
  /\ DOMAIN data = DOMAIN history /\ DOMAIN history \subseteq Keys
  /\ \A k \in DOMAIN history :
       /\ DOMAIN data[k] = DOMAIN history[k]
       /\ \A b \in DOMAIN history[k] :
            /\ history[k][b] \in Seq(Measures) /\ history[k][b] # <<>>
            /\ data[k][b] = LastSamples(history[k][b], MaxWindow)

\* The mean of the last w entries of a history.
MeanOf(h, w) ==
  LET slice == LastSamples(h, ClampedWindow(w))
  IN  IF NaN \in Range(slice) THEN NaN
      ELSE IF Inf \in Range(slice) THEN Inf
      ELSE SumFunction(slice) * (MeanUnit \div Len(slice))

\* The means of a round are those of the histories as they are now.
MeansInv ==
  pc # "idle" =>
    \A sig \in DOMAIN round.signals :
      LET k == <<round.policy, sig>> IN
      /\ k \in DOMAIN history
      /\ \A b \in DOMAIN round.signals[sig] :
           b \in DOMAIN history[k] /\ round.signals[sig][b] = MeanOf(history[k][b], StrategyWindow(round.plan))

IInv == RoundInv /\ ReadInv /\ HistoryInv /\ MeansInv

----------------------------------------------------------------------------
(* The ends of sequences                                                   *)

\* The last n elements of a sequence: as many as there are, up to n, in place.
LEMMA LastSamplesAre ==
  ASSUME NEW V, NEW h \in Seq(V), NEW n \in Nat \ {0}
  PROVE  LET s == LastSamples(h, n)
         IN  /\ s \in Seq(V) /\ Len(h) \in Nat
             /\ Len(s) \in Nat /\ (Len(h) > n => Len(s) = n) /\ (Len(h) <= n => Len(s) = Len(h))
             /\ \A i \in 1..Len(s) : s[i] = h[(Len(h) - Len(s)) + i]
<1> DEFINE first == IF Len(h) > n THEN Len(h) - n + 1 ELSE 1
           s == SubSeq(h, first, Len(h))
<1>1. Len(h) \in Nat /\ \A i \in 1..Len(h) : h[i] \in V
  BY LenProperties, ElementOfSeq
<1>2. /\ first \in Int /\ first >= 1
      /\ first <= Len(h) + 1
      /\ Len(h) > n => (Len(h) - first) + 1 = n
      /\ Len(h) <= n => (Len(h) - first) + 1 = Len(h)
  BY <1>1
<1>3. \A i \in first..Len(h) : h[i] \in V
  BY <1>1, <1>2
<1>4. LastSamples(h, n) = s
  BY DEF LastSamples
<1>5. /\ s \in Seq(V)
      /\ Len(s) = IF first <= Len(h) THEN Len(h) - first + 1 ELSE 0
      /\ \A i \in 1..(Len(h) - first + 1) : s[i] = h[first + i - 1]
  <2> HIDE DEF first
  <2> QED
    BY <1>1, <1>2, <1>3, SubSeqProperties
<1>6. Len(s) = (Len(h) - first) + 1
  <2> HIDE DEF s, first
  <2>1. CASE first <= Len(h)
    BY <1>5, <2>1
  <2>2. CASE first = Len(h) + 1
    BY <1>1, <1>2, <1>5, <2>2
  <2> QED
    BY <1>1, <1>2, <2>1, <2>2
<1>7. \A i \in 1..Len(s) : s[i] = h[(Len(h) - Len(s)) + i]
  <2> HIDE DEF first, s
  <2> TAKE i \in 1..Len(s)
  <2>1. i \in 1..(Len(h) - first + 1) /\ first + i - 1 = (Len(h) - Len(s)) + i
    BY <1>1, <1>2, <1>6
  <2> QED
    BY <1>5, <2>1
<1> HIDE DEF first, s
<1>8. Len(s) \in Nat /\ (Len(h) > n => Len(s) = n) /\ (Len(h) <= n => Len(s) = Len(h))
  BY <1>1, <1>2, <1>6
<1> QED
  BY <1>1, <1>4, <1>5, <1>7, <1>8

\* The end of an end is an end.
LEMMA LastOfLast ==
  ASSUME NEW V, NEW h \in Seq(V), NEW m \in Nat \ {0}, NEW n \in 1..m
  PROVE  LastSamples(LastSamples(h, m), n) = LastSamples(h, n)
<1> DEFINE a == LastSamples(h, m)
           b == LastSamples(a, n)
           c == LastSamples(h, n)
<1>1. /\ a \in Seq(V) /\ Len(h) \in Nat
      /\ Len(a) \in Nat /\ (Len(h) > m => Len(a) = m) /\ (Len(h) <= m => Len(a) = Len(h))
      /\ \A i \in 1..Len(a) : a[i] = h[(Len(h) - Len(a)) + i]
  BY LastSamplesAre
<1>2. n \in Nat \ {0}
  OBVIOUS
<1>3. /\ c \in Seq(V)
      /\ Len(c) \in Nat /\ (Len(h) > n => Len(c) = n) /\ (Len(h) <= n => Len(c) = Len(h))
      /\ \A i \in 1..Len(c) : c[i] = h[(Len(h) - Len(c)) + i]
  BY <1>2, LastSamplesAre
<1> HIDE DEF a, c
<1>4. /\ b \in Seq(V)
      /\ Len(b) \in Nat /\ (Len(a) > n => Len(b) = n) /\ (Len(a) <= n => Len(b) = Len(a))
      /\ \A i \in 1..Len(b) : b[i] = a[(Len(a) - Len(b)) + i]
  BY <1>1, <1>2, LastSamplesAre
<1> HIDE DEF b
<1>5. Len(b) = Len(c) /\ Len(b) \in Nat
  BY <1>1, <1>2, <1>3, <1>4
<1>6. ASSUME NEW i \in 1..Len(b)
      PROVE  b[i] = c[i]
  <2>1. (Len(a) - Len(b)) + i \in 1..Len(a)
    BY <1>1, <1>4, <1>5
  <2>2. b[i] = h[(Len(h) - Len(a)) + ((Len(a) - Len(b)) + i)]
    BY <1>1, <1>4, <2>1
  <2>3. (Len(h) - Len(a)) + ((Len(a) - Len(b)) + i) = (Len(h) - Len(c)) + i
    BY <1>1, <1>4, <1>5
  <2> QED
    BY <1>3, <1>5, <2>2, <2>3
<1>7. b = c
  BY <1>3, <1>4, <1>5, <1>6, SeqEqual
<1> QED
  BY <1>7 DEF a, b, c

\* Trimming before an append as well as after it makes no difference.
LEMMA LastOfAppended ==
  ASSUME NEW V, NEW h \in Seq(V), NEW v \in V, NEW m \in Nat \ {0}
  PROVE  LastSamples(Append(LastSamples(h, m), v), m) = LastSamples(Append(h, v), m)
<1> DEFINE a == LastSamples(h, m)
           b == Append(a, v)
           c == Append(h, v)
           d == LastSamples(b, m)
           e == LastSamples(c, m)
<1>1. /\ a \in Seq(V) /\ Len(h) \in Nat
      /\ Len(a) \in Nat /\ (Len(h) > m => Len(a) = m) /\ (Len(h) <= m => Len(a) = Len(h))
      /\ \A i \in 1..Len(a) : a[i] = h[(Len(h) - Len(a)) + i]
  BY LastSamplesAre
<1> HIDE DEF a
<1>2. /\ b \in Seq(V) /\ Len(b) = Len(a) + 1
      /\ \A i \in 1..Len(a) : b[i] = a[i]
      /\ b[Len(a) + 1] = v
  BY <1>1
<1>3. /\ c \in Seq(V) /\ Len(c) = Len(h) + 1
      /\ \A i \in 1..Len(h) : c[i] = h[i]
      /\ c[Len(h) + 1] = v
  BY <1>1
<1> HIDE DEF b, c
<1>4. /\ d \in Seq(V)
      /\ Len(d) \in Nat /\ (Len(b) > m => Len(d) = m) /\ (Len(b) <= m => Len(d) = Len(b))
      /\ \A i \in 1..Len(d) : d[i] = b[(Len(b) - Len(d)) + i]
  BY <1>2, LastSamplesAre
<1>5. /\ e \in Seq(V)
      /\ Len(e) \in Nat /\ (Len(c) > m => Len(e) = m) /\ (Len(c) <= m => Len(e) = Len(c))
      /\ \A i \in 1..Len(e) : e[i] = c[(Len(c) - Len(e)) + i]
  BY <1>3, LastSamplesAre
<1> HIDE DEF d, e
<1>6. Len(d) = Len(e) /\ Len(d) \in Nat
  BY <1>1, <1>2, <1>3, <1>4, <1>5
<1>7. ASSUME NEW i \in 1..Len(d)
      PROVE  d[i] = e[i]
  <2> DEFINE j == (Len(b) - Len(d)) + i
             k == (Len(c) - Len(e)) + i
  <2>1. j \in 1..Len(b) /\ k = (Len(h) - Len(a)) + j /\ k \in 1..Len(c)
    BY <1>1, <1>2, <1>3, <1>4, <1>5, <1>6
  <2>2. d[i] = b[j] /\ e[i] = c[k]
    BY <1>4, <1>5, <1>6
  <2> HIDE DEF j, k
  <2>3. CASE j = Len(a) + 1
    <3>1. k = Len(h) + 1
      BY <1>1, <2>1, <2>3
    <3> QED
      BY <1>2, <1>3, <2>2, <2>3, <3>1
  <2>4. CASE j \in 1..Len(a)
    <3>1. k \in 1..Len(h)
      BY <1>1, <2>1, <2>4
    <3>2. b[j] = a[j] /\ c[k] = h[k]
      BY <1>2, <1>3, <2>4, <3>1
    <3>3. a[j] = h[k]
      BY <1>1, <2>1, <2>4
    <3> QED
      BY <2>2, <3>2, <3>3
  <2> QED
    BY <1>1, <1>2, <2>1, <2>3, <2>4
<1>8. d = e
  BY <1>4, <1>5, <1>6, <1>7, SeqEqual
<1> QED
  BY <1>8 DEF a, b, c, d, e

----------------------------------------------------------------------------
(* Means                                                                   *)

\* The window a round uses, as the smoother clamps it.
LEMMA WindowClamped ==
  ASSUME NEW plan \in Plans
  PROVE  LET w == StrategyWindow(plan)
             c == ClampedWindow(w)
         IN  w \in Nat \ {0} /\ c \in 1..MaxWindow /\ c = IF w > MaxWindow THEN MaxWindow ELSE w
  BY WindowAssumption, SensingAssumption DEF StrategyWindow, ClampedWindow

\* The mean of the end of a history is the sum of the recent entries over their number;
\* one that is not a number, or not finite, spoils it.
LEMMA MeanIsMean ==
  ASSUME NEW h \in Seq(Measures), h # <<>>, NEW w, ClampedWindow(w) \in 1..MaxWindow
  PROVE  LET S    == Recent(h, ClampedWindow(w))
             mean == MeanOf(h, w)
         IN  IF \E i \in S : h[i] = NaN THEN mean = NaN
             ELSE IF \E i \in S : h[i] = Inf THEN mean = Inf
             ELSE mean \notin {NaN, Inf} /\ mean * Cardinality(S) = MeanUnit * SumFunctionOnSet(h, S)
<1> DEFINE c == ClampedWindow(w)
           s == LastSamples(h, c)
           S == Recent(h, c)
           D == 1..Len(s)
           name == [i \in D |-> (Len(h) - Len(s)) + i]
<1>1. c \in Nat \ {0} /\ c <= MaxWindow
  BY WindowAssumption
<1> HIDE DEF c
<1>2. /\ s \in Seq(Measures) /\ Len(h) \in Nat
      /\ Len(s) \in Nat /\ (Len(h) > c => Len(s) = c) /\ (Len(h) <= c => Len(s) = Len(h))
      /\ \A i \in 1..Len(s) : s[i] = h[(Len(h) - Len(s)) + i]
  BY <1>1, LastSamplesAre
<1>3. Len(h) \in Nat \ {0} /\ DOMAIN h = 1..Len(h)
  BY EmptySeq, LenProperties
<1>4. DOMAIN s = D /\ Len(s) \in 1..MaxWindow /\ Len(s) <= Len(h) /\ Len(s) <= c
      /\ \A i \in D : s[i] \in Measures
  BY <1>1, <1>2, <1>3, WindowAssumption, LenProperties, ElementOfSeq
<1> HIDE DEF s
<1>5. ASSUME NEW i \in D
      PROVE  name[i] \in 1..Len(h) /\ Len(h) - name[i] < c /\ h[name[i]] = s[i]
  <2>1. name[i] = (Len(h) - Len(s)) + i /\ i \in 1..Len(s)
    OBVIOUS
  <2> HIDE DEF name
  <2>2. name[i] \in 1..Len(h) /\ Len(h) - name[i] = Len(s) - i
    BY <1>3, <1>4, <2>1
  <2>3. Len(h) - name[i] < c
    <3>1. c \in Int
      BY <1>1
    <3>2. Len(s) \in Int /\ Len(s) <= c
      BY <1>2, <1>4
    <3>3. i \in Int /\ i >= 1
      BY <2>1
    <3>4. Len(s) - i < c
      BY <3>1, <3>2, <3>3
    <3> QED
      BY <2>2, <3>4
  <2>4. h[name[i]] = s[i]
    BY <1>2, <2>1
  <2> QED
    BY <2>2, <2>3, <2>4
<1>6. \A x, y \in D : name[x] = name[y] => x = y
  BY <1>3, <1>4
<1>7. {name[i] : i \in D} = S
  <2>1. \A i \in D : name[i] \in S
    <3> HIDE DEF name
    <3> QED
      BY <1>3, <1>5 DEF Recent
  <2>2. ASSUME NEW k \in S
        PROVE  k \in {name[i] : i \in D}
    <3>1. k \in 1..Len(h) /\ Len(h) - k < c
      BY <1>3 DEF Recent
    <3>2. k - (Len(h) - Len(s)) \in D
      <4>1. Len(h) - k < Len(s)
        <5>1. CASE Len(h) > c
          BY <1>2, <3>1, <5>1
        <5>2. CASE Len(h) <= c
          BY <1>2, <3>1, <5>2
        <5> QED
          BY <1>1, <1>3, <5>1, <5>2
      <4> QED
        BY <1>3, <1>4, <3>1, <4>1
    <3>3. name[k - (Len(h) - Len(s))] = k
      BY <1>3, <1>4, <3>1, <3>2
    <3> QED
      BY <3>2, <3>3
  <2> QED
    BY <2>1, <2>2
<1>8. IsFiniteSet(D) /\ Cardinality(D) = Len(s)
  BY <1>4, FS_Interval
<1>9. Range(s) = {s[i] : i \in D}
  BY <1>4 DEF Range
<1> HIDE DEF D, name, S
<1>10. \A v : v \in Range(s) <=> \E k \in S : h[k] = v
  BY <1>5, <1>7, <1>9
<1>11. ASSUME \A i \in S : h[i] # NaN /\ h[i] # Inf
       PROVE  LET q == SumFunction(s) * (MeanUnit \div Len(s))
              IN  q \notin {NaN, Inf} /\ q * Cardinality(S) = MeanUnit * SumFunctionOnSet(h, S)
  <2>1. \A i \in D : s[i] \in Int /\ h[name[i]] = s[i]
    BY <1>4, <1>5, <1>7, <1>11 DEF Measures
  <2>2. SumFunctionOnSet(h, S) = SumFunctionOnSet(s, D) /\ SumFunctionOnSet(s, D) \in Int
    <3>1. SumFunctionOnSet(h, {name[i] : i \in D}) = SumFunctionOnSet(s, D)
      BY <1>6, <1>8, <2>1, SumRenamed
    <3> QED
      BY <1>7, <1>8, <2>1, <3>1, SumType
  <2>3. SumFunction(s) = SumFunctionOnSet(s, D)
    BY <1>4 DEF SumFunction
  <2>4. Cardinality(S) = Len(s)
    <3>1. name \in [D -> S]
      BY <1>7 DEF name
    <3>2. name \in Injection(D, S)
      BY <1>6, <3>1 DEF Injection, IsInjective
    <3>3. name \in Surjection(D, S)
      BY <1>7, <3>1 DEF Surjection
    <3>4. Cardinality(S) = Cardinality(D)
      BY <1>8, <3>2, <3>3, FS_Surjection
    <3> QED
      BY <1>8, <3>4
  <2> DEFINE t == SumFunctionOnSet(s, D)
             n == Len(s)
             d == MeanUnit \div n
  <2>5. n \in Nat \ {0} /\ t \in Int /\ MeanUnit \in Nat /\ MeanUnit % n = 0
    BY <1>4, <2>2, WindowAssumption
  <2> HIDE DEF t, n
  <2>6. d \in Nat /\ d * n = MeanUnit
    BY <2>5
  <2> HIDE DEF d
  <2>7. t * d \in Int /\ (t * d) * n = (d * n) * t
    BY <2>5, <2>6
  <2>8. (t * d) * n = MeanUnit * t /\ t * d \notin {NaN, Inf}
    BY <2>6, <2>7, SensingAssumption
  <2> QED
    BY <2>2, <2>3, <2>4, <2>8 DEF t, n, d
<1>12. CASE \E i \in S : h[i] = NaN
  BY <1>10, <1>12 DEF MeanOf, c, s, S
<1>13. CASE ~(\E i \in S : h[i] = NaN) /\ (\E i \in S : h[i] = Inf)
  BY <1>10, <1>13 DEF MeanOf, c, s, S
<1>14. CASE \A i \in S : h[i] # NaN /\ h[i] # Inf
  <2>1. MeanOf(h, w) = SumFunction(s) * (MeanUnit \div Len(s))
    BY <1>10, <1>14 DEF MeanOf, c, s
  <2> QED
    BY <1>11, <1>14, <2>1 DEF c, S
<1> QED
  BY <1>12, <1>13, <1>14

----------------------------------------------------------------------------
(* The round                                                               *)

\* The signals still to ask for, and what asking for the next one leaves.
LEMMA TodoSteps ==
  ASSUME NEW t \in Todos, t # <<>>
  PROVE  /\ Tail(t) \in Todos /\ Head(t) \in {"latency", "errorRate"}
         /\ Head(t) \notin Range(Tail(t)) /\ Range(t) = Range(Tail(t)) \cup {Head(t)}
         /\ Len(t) = 1 <=> Tail(t) = <<>>
<1> DEFINE la == "latency"
           er == "errorRate"
<1>1. /\ Range(<<>>) = {} /\ Range(<<la>>) = {la} /\ Range(<<er>>) = {er}
      /\ Range(<<la, er>>) = {la, er}
  BY DEF Range
<1>2. CASE t = <<la>>
  <2>1. Tail(t) = <<>> /\ Head(t) = la /\ Len(t) = 1
    BY <1>2
  <2> QED
    BY <1>1, <1>2, <2>1 DEF Todos
<1>3. CASE t = <<er>>
  <2>1. Tail(t) = <<>> /\ Head(t) = er /\ Len(t) = 1
    BY <1>3
  <2> QED
    BY <1>1, <1>3, <2>1 DEF Todos
<1>4. CASE t = <<la, er>>
  <2>1. Tail(t) = <<er>> /\ Head(t) = la /\ Len(t) = 2
    BY <1>4
  <2> QED
    BY <1>1, <1>4, <2>1 DEF Todos
<1> QED
  BY <1>2, <1>3, <1>4 DEF Todos

\* A round asks for exactly the configured signals, and there is one.
LEMMA SignalsListed ==
  ASSUME NEW plan \in Plans
  PROVE  /\ SignalSpecs(plan) \in Todos /\ SignalSpecs(plan) # <<>>
         /\ Range(SignalSpecs(plan)) = plan.signals
<1> DEFINE la == "latency"
           er == "errorRate"
<1>1. plan.signals # {} /\ plan.signals \subseteq {la, er}
  BY SensingAssumption
<1>2. /\ Range(<<la>>) = {la} /\ Range(<<er>>) = {er}
      /\ Range(<<la, er>>) = {la, er}
  BY DEF Range
<1> DEFINE Signals == {la, er}
<1>3. /\ <<la>> \o <<>> = <<la>> /\ <<>> \o <<er>> = <<er>>
      /\ <<la>> \o <<er>> = <<la, er>>
  <2>1. <<la>> \in Seq(Signals) /\ <<er>> \in Seq(Signals) /\ <<la, er>> \in Seq(Signals)
    OBVIOUS
  <2>2. /\ <<la>> \o <<er>> \in Seq(Signals) /\ Len(<<la>> \o <<er>>) = 2
        /\ (<<la>> \o <<er>>)[1] = la /\ (<<la>> \o <<er>>)[2] = er
    OBVIOUS
  <2>3. \A i \in 1..2 : (<<la>> \o <<er>>)[i] = <<la, er>>[i]
    BY <2>2
  <2>4. <<la>> \o <<er>> = <<la, er>>
    BY <2>1, <2>2, <2>3, SeqEqual
  <2> QED
    BY <2>1, <2>4, ConcatEmptySeq
<1>4. CASE plan.signals = {la}
  <2>1. Configured(plan, la) = <<la>> /\ Configured(plan, er) = <<>>
    BY <1>4 DEF Configured
  <2>2. SignalSpecs(plan) = <<la>>
    BY <1>3, <2>1 DEF SignalSpecs
  <2> QED
    BY <1>2, <1>4, <2>2 DEF Todos
<1>5. CASE plan.signals = {er}
  <2>1. Configured(plan, la) = <<>> /\ Configured(plan, er) = <<er>>
    BY <1>5 DEF Configured
  <2>2. SignalSpecs(plan) = <<er>>
    BY <1>3, <2>1 DEF SignalSpecs
  <2> QED
    BY <1>2, <1>5, <2>2 DEF Todos
<1>6. CASE plan.signals = {la, er}
  <2>1. Configured(plan, la) = <<la>> /\ Configured(plan, er) = <<er>>
    BY <1>6 DEF Configured
  <2>2. SignalSpecs(plan) = <<la, er>>
    BY <1>3, <2>1 DEF SignalSpecs
  <2> QED
    BY <1>2, <1>6, <2>2 DEF Todos
<1> QED
  BY <1>1, <1>4, <1>5, <1>6

\* It holds initially: nothing has been measured.
LEMMA InitIInv == Init => IInv
<1> SUFFICES ASSUME Init PROVE IInv
  OBVIOUS
<1>1. RoundInv /\ ReadInv /\ MeansInv
  BY SensingAssumption DEF Init, RoundInv, ReadInv, MeansInv
<1>2. HistoryInv
  BY DEF Init, HistoryInv, NoData, NoHistory
<1> QED
  BY <1>1, <1>2 DEF IInv

\* A round begins with all signals to ask for.
LEMMA BeginKeeps ==
  ASSUME IInv, NEW p \in Policies, NEW plan \in Plans, BeginRound(p, plan)
  PROVE  IInv'
<1>1. /\ rounds < MaxRounds /\ rounds' = rounds + 1 /\ pc' = "query"
      /\ round' = [policy |-> p, plan |-> plan, todo |-> SignalSpecs(plan), signals |-> [sig \in {} |-> NoSamples]]
      /\ UNCHANGED <<data, history>>
  BY DEF BeginRound
<1>2. /\ SignalSpecs(plan) \in Todos /\ SignalSpecs(plan) # <<>>
      /\ Range(SignalSpecs(plan)) = plan.signals
  BY SignalsListed
<1>3. DOMAIN round'.signals = {}
  BY <1>1
<1>4. rounds' \in 0..MaxRounds
  BY <1>1, SensingAssumption DEF IInv, RoundInv
<1>5. RoundInv'
  BY <1>1, <1>2, <1>3, <1>4 DEF RoundInv
<1>6. ReadInv' /\ HistoryInv'
  BY <1>1 DEF IInv, ReadInv, HistoryInv
<1>7. MeansInv'
  BY <1>3 DEF MeansInv
<1> QED
  BY <1>5, <1>6, <1>7 DEF IInv

\* A failed query ends the round with a signal still to ask for.
LEMMA FreezeKeeps ==
  ASSUME IInv, pc \in {"query", "read"}, Freeze
  PROVE  IInv'
<1>1. pc' = "frozen" /\ UNCHANGED <<data, round, history, rounds>>
  BY DEF Freeze
<1>2. RoundInv' /\ ReadInv' /\ HistoryInv' /\ MeansInv'
  BY <1>1 DEF IInv, RoundInv, ReadInv, HistoryInv, MeansInv
<1> QED
  BY <1>2 DEF IInv

----------------------------------------------------------------------------
(* The reading of a reply                                                  *)

\* An answer has a list of series, and nothing of it has been read.
LEMMA AnswerKeeps ==
  ASSUME IInv, QueryAnswered
  PROVE  IInv'
<1>1. /\ pc = "query" /\ pc' = "read" /\ reply' \in Replies /\ next' = 1 /\ out' = NoSamples
      /\ UNCHANGED <<data, round, history, rounds>>
  BY DEF QueryAnswered
<1>2. Len(reply'.series) \in Nat /\ DOMAIN reply'.series = 1..Len(reply'.series)
  BY <1>1, SensingAssumption, LenProperties DEF IsReply
<1>3. \A b : ReadOf(b)' = {}
  BY <1>1, <1>2 DEF ReadOf, Concerning
<1>4. DOMAIN out' = {}
  BY <1>1 DEF NoSamples
<1>5. next' \in 1..(Len(reply'.series) + 1)
  BY <1>1, <1>2
<1>6. ReadInv'
  BY <1>1, <1>3, <1>4, <1>5 DEF ReadInv
<1>7. RoundInv' /\ HistoryInv' /\ MeansInv'
  BY <1>1 DEF IInv, RoundInv, HistoryInv, MeansInv
<1> QED
  BY <1>6, <1>7 DEF IInv

\* A series of a requested backend replaces that backend's sample; any other leaves the
\* samples alone.
LEMMA SeriesKeeps ==
  ASSUME IInv, ReadSeries
  PROVE  IInv'
<1>1. /\ pc = "read" /\ pc' = "read" /\ next <= Len(reply.series) /\ next' = next + 1
      /\ UNCHANGED <<data, round, reply, history, rounds>>
      /\ \/ ~Concerns(Series, Wanted) /\ out' = out
         \/ Concerns(Series, Wanted) /\ Series.value # Malformed /\ out' = Collect(out, Series)
  BY DEF ReadSeries
<1>2. /\ reply \in Replies /\ next \in 1..(Len(reply.series) + 1)
      /\ DOMAIN out = {b \in Wanted : ReadOf(b) # {}}
      /\ \A b \in DOMAIN out : \E i \in ReadOf(b) :
           out[b] = reply.series[i].value /\ \A j \in ReadOf(b) : j <= i
      /\ \A b \in Wanted : \A i \in ReadOf(b) : reply.series[i].value # Malformed
  BY <1>1 DEF IInv, ReadInv
<1>3. Len(reply.series) \in Nat /\ DOMAIN reply.series = 1..Len(reply.series)
  BY <1>2, SensingAssumption, LenProperties DEF IsReply
<1>4. next \in DOMAIN reply.series /\ next \in Nat /\ next' \in 1..(Len(reply.series) + 1)
  BY <1>1, <1>2, <1>3
<1> DEFINE new(b) == {i \in Concerning(reply, b) : i < next + 1}
<1>5. ASSUME NEW b
      PROVE  /\ ReadOf(b)' = new(b)
             /\ new(b) = ReadOf(b) \cup (IF Concerns(Series, Wanted) /\ BackendOf(Series) = b THEN {next} ELSE {})
             /\ \A i \in ReadOf(b) : i \in Nat /\ i < next
  <2>1. ReadOf(b)' = new(b)
    BY <1>1 DEF ReadOf, Concerning, Wanted
  <2>2. \A i \in Concerning(reply, b) : i \in Nat
    BY <1>3 DEF Concerning
  <2>3. next \in Concerning(reply, b) <=> (Concerns(Series, Wanted) /\ BackendOf(Series) = b)
    BY <1>4 DEF Concerning, Series
  <2>4. \A i \in Nat : i < next + 1 <=> (i < next \/ i = next)
    BY <1>4
  <2> QED
    BY <1>4, <2>1, <2>2, <2>3, <2>4 DEF ReadOf
<1> HIDE DEF new
<1>6. Wanted' = Wanted
  BY <1>1 DEF Wanted
<1>7. CASE ~Concerns(Series, Wanted)
  <2>1. out' = out /\ \A b : ReadOf(b)' = ReadOf(b)
    BY <1>1, <1>5, <1>7
  <2> QED
    BY <1>1, <1>2, <1>4, <1>6, <2>1 DEF IInv, ReadInv, RoundInv, HistoryInv, MeansInv
<1>8. CASE Concerns(Series, Wanted)
  <2> PICK c : c = BackendOf(Series)
    OBVIOUS
  <2>1. Series.value # Malformed /\ out' = Collect(out, Series) /\ c \in Wanted
    BY <1>1, <1>8 DEF Concerns, BackendOf
  <2>2. ReadOf(c)' = ReadOf(c) \cup {next} /\ \A b : b # c => ReadOf(b)' = ReadOf(b)
    BY <1>5, <1>8
  <2>3. /\ DOMAIN out' = DOMAIN out \cup {c} /\ out'[c] = Series.value
        /\ \A b \in DOMAIN out : b # c => out'[b] = out[b]
    BY <2>1 DEF Collect
  <2>4. Series = reply.series[next]
    BY DEF Series
  <2>5. DOMAIN out' = {b \in Wanted : ReadOf(b)' # {}}
    BY <1>2, <2>1, <2>2, <2>3
  <2>6. \A j \in ReadOf(c)' : j <= next
    BY <1>4, <1>5, <2>2
  <2>7. ASSUME NEW b \in DOMAIN out'
        PROVE  \E i \in ReadOf(b)' : out'[b] = reply.series[i].value /\ \A j \in ReadOf(b)' : j <= i
    <3>1. CASE b = c
      BY <2>2, <2>3, <2>4, <2>6, <3>1
    <3>2. CASE b # c
      <4>1. b \in DOMAIN out /\ out'[b] = out[b] /\ ReadOf(b)' = ReadOf(b)
        BY <2>2, <2>3, <3>2
      <4> QED
        BY <1>2, <4>1
    <3> QED
      BY <3>1, <3>2
  <2>8. ASSUME NEW b \in Wanted, NEW i \in ReadOf(b)'
        PROVE  reply.series[i].value # Malformed
    <3>1. CASE i \in ReadOf(b)
      BY <1>2, <3>1
    <3>2. CASE i = next
      BY <2>1, <2>4, <3>2
    <3> QED
      BY <2>2, <3>1, <3>2
  <2>9. ReadInv'
    <3>1. reply' = reply
      BY <1>1
    <3> QED
      BY <1>2, <1>4, <1>6, <2>5, <2>7, <2>8, <3>1 DEF ReadInv
  <2> QED
    BY <1>1, <2>9 DEF IInv, RoundInv, HistoryInv, MeansInv
<1> QED
  BY <1>7, <1>8

----------------------------------------------------------------------------
(* The recording of samples                                                *)

\* What has been read of a requested backend is a float64.
LEMMA SamplesMeasured ==
  ASSUME IInv, pc = "read", NEW b \in DOMAIN out
  PROVE  out[b] \in Measures
<1>1. /\ reply \in Replies /\ DOMAIN out = {c \in Wanted : ReadOf(c) # {}}
      /\ \E i \in ReadOf(b) : out[b] = reply.series[i].value
      /\ \A c \in Wanted : \A i \in ReadOf(c) : reply.series[i].value # Malformed
  BY DEF IInv, ReadInv
<1>2. PICK i \in ReadOf(b) : out[b] = reply.series[i].value
  BY <1>1
<1>3. i \in DOMAIN reply.series /\ out[b] # Malformed
  BY <1>1, <1>2 DEF ReadOf, Concerning
<1> QED
  BY <1>1, <1>2, <1>3, SensingAssumption

\* A recorded sample comes to the end of its backend's history and of its buffer, which
\* keeps the end of the one the end of the other.
LEMMA RecordKeeps ==
  ASSUME IInv, RecordSamples
  PROVE  IInv'
<1> PICK sig, k : sig = Head(round.todo) /\ k = <<round.policy, sig>>
  OBVIOUS
<1> PICK w : w = StrategyWindow(round.plan)
  OBVIOUS
<1> PICK D : D = DOMAIN out
  OBVIOUS
<1> PICK seen : seen = IF k \in DOMAIN history THEN DOMAIN history[k] ELSE {}
  OBVIOUS
<1>1. /\ pc = "read" /\ data' = Record(data, k, out)
      /\ round' = [round EXCEPT
              !.todo = Tail(@),
              !.signals = [s \in DOMAIN @ \cup {sig} |->
                 IF s # sig THEN @[s] ELSE [b \in D |-> Mean(data', k, b, w)]]]
      /\ history' = [h \in DOMAIN history \cup {k} |->
              IF h # k THEN history[h]
              ELSE [b \in D \cup (IF h \in DOMAIN history THEN DOMAIN history[h] ELSE {}) |->
                     IF b \in D THEN Append(Past(h, b), out[b]) ELSE history[h][b]]]
      /\ pc' = IF Len(round.todo) = 1 THEN "ready" ELSE "query"
      /\ rounds' = rounds
  BY DEF RecordSamples, Key
<1>2. /\ round = [policy |-> round.policy, plan |-> round.plan, todo |-> round.todo, signals |-> round.signals]
      /\ round.policy \in Policies /\ round.plan \in Plans
      /\ round.todo \in Todos /\ round.todo # <<>> /\ Range(round.todo) \subseteq round.plan.signals
      /\ DOMAIN round.signals = round.plan.signals \ Range(round.todo)
      /\ rounds \in 0..MaxRounds
  BY <1>1 DEF IInv, RoundInv
<1>3. /\ Tail(round.todo) \in Todos /\ sig \in {"latency", "errorRate"}
      /\ sig \notin Range(Tail(round.todo)) /\ Range(round.todo) = Range(Tail(round.todo)) \cup {sig}
      /\ Len(round.todo) = 1 <=> Tail(round.todo) = <<>>
  BY <1>2, TodoSteps
<1>4. k \in Keys
  BY <1>2, <1>3 DEF Keys, Key
<1> DEFINE means == [s \in DOMAIN round.signals \cup {sig} |->
                       IF s # sig THEN round.signals[s] ELSE [b \in D |-> Mean(data', k, b, w)]]
<1>5. round' = [policy |-> round.policy, plan |-> round.plan, todo |-> Tail(round.todo), signals |-> means]
  BY <1>1, <1>2
<1>6. /\ DOMAIN means = DOMAIN round.signals \cup {sig}
      /\ \A s \in DOMAIN round.signals : s # sig => means[s] = round.signals[s]
      /\ means[sig] = [b \in D |-> Mean(data', k, b, w)]
  OBVIOUS
<1> HIDE DEF means
<1>7. RoundInv'
  <2>1. DOMAIN means = round.plan.signals \ Range(Tail(round.todo))
    BY <1>2, <1>3, <1>6
  <2>2. Range(Tail(round.todo)) \subseteq round.plan.signals
    BY <1>2, <1>3
  <2>3. /\ round'.policy = round.policy /\ round'.plan = round.plan
        /\ round'.todo = Tail(round.todo) /\ round'.signals = means
    BY <1>5
  <2>4. pc' \in {"ready", "query"} /\ (Tail(round.todo) = <<>> <=> pc' = "ready")
    BY <1>1, <1>3
  <2> QED
    BY <1>1, <1>2, <1>3, <1>5, <2>1, <2>2, <2>3, <2>4 DEF RoundInv
<1>8. ReadInv'
  BY <1>1 DEF ReadInv
<1>9. /\ DOMAIN data = DOMAIN history /\ DOMAIN history \subseteq Keys
      /\ \A h \in DOMAIN history :
           /\ DOMAIN data[h] = DOMAIN history[h]
           /\ \A b \in DOMAIN history[h] :
                /\ history[h][b] \in Seq(Measures) /\ history[h][b] # <<>>
                /\ data[h][b] = LastSamples(history[h][b], MaxWindow)
  BY DEF IInv, HistoryInv
<1>10. MaxWindow \in Nat \ {0}
  BY WindowAssumption
<1>11. ASSUME NEW b
       PROVE  Past(k, b) \in Seq(Measures) /\ Buffer(data, k, b) = LastSamples(Past(k, b), MaxWindow)
  <2>1. CASE k \in DOMAIN history /\ b \in DOMAIN history[k]
    BY <1>9, <2>1 DEF Past, Buffer
  <2>2. CASE ~(k \in DOMAIN history /\ b \in DOMAIN history[k])
    <3>1. Past(k, b) = <<>> /\ Buffer(data, k, b) = <<>>
      BY <1>9, <2>2 DEF Past, Buffer
    <3>2. <<>> \in Seq(Measures) /\ Len(<<>>) = 0
      BY EmptySeq
    <3>3. LastSamples(<<>>, MaxWindow) \in Seq(Measures) /\ Len(LastSamples(<<>>, MaxWindow)) = 0
      <4>1. PICK e \in Seq(Measures) : e = <<>> /\ Len(e) = 0
        BY <3>2
      <4>2. LastSamples(e, MaxWindow) \in Seq(Measures)
            /\ (Len(e) <= MaxWindow => Len(LastSamples(e, MaxWindow)) = Len(e))
        BY <1>10, LastSamplesAre
      <4>3. Len(e) <= MaxWindow
        BY <1>10, <4>1
      <4> QED
        BY <4>1, <4>2, <4>3
    <3>4. LastSamples(<<>>, MaxWindow) = <<>>
      BY <3>2, <3>3, EmptySeq
    <3> QED
      BY <3>1, <3>2, <3>4
  <2> QED
    BY <2>1, <2>2
<1>12. /\ DOMAIN data' = DOMAIN data \cup {k}
       /\ \A h \in DOMAIN data : h # k => data'[h] = data[h]
       /\ DOMAIN data'[k] = seen \cup D
       /\ \A b \in D : data'[k][b] = LastSamples(Append(Buffer(data, k, b), out[b]), MaxWindow)
       /\ \A b \in seen : b \notin D => data'[k][b] = data[k][b]
  <2> DEFINE kept == [b \in seen \cup D |->
                        IF b \in D THEN LastSamples(Append(Buffer(data, k, b), out[b]), MaxWindow) ELSE data[k][b]]
  <2>1. seen = IF k \in DOMAIN data THEN DOMAIN data[k] ELSE {}
    BY <1>9
  <2>2. data' = [h \in DOMAIN data \cup {k} |-> IF h = k THEN kept ELSE data[h]]
    BY <1>1, <2>1 DEF Record
  <2>3. /\ DOMAIN kept = seen \cup D
        /\ \A b \in D : kept[b] = LastSamples(Append(Buffer(data, k, b), out[b]), MaxWindow)
        /\ \A b \in seen : b \notin D => kept[b] = data[k][b]
    OBVIOUS
  <2> HIDE DEF kept
  <2>4. data'[k] = kept /\ DOMAIN data' = DOMAIN data \cup {k} /\ \A h \in DOMAIN data : h # k => data'[h] = data[h]
    BY <2>2
  <2> QED
    BY <2>3, <2>4
<1>13. /\ DOMAIN history' = DOMAIN history \cup {k}
       /\ \A h \in DOMAIN history : h # k => history'[h] = history[h]
       /\ DOMAIN history'[k] = seen \cup D
       /\ \A b \in D : history'[k][b] = Append(Past(k, b), out[b])
       /\ \A b \in seen : b \notin D => history'[k][b] = history[k][b]
  <2> DEFINE kept == [b \in D \cup seen |-> IF b \in D THEN Append(Past(k, b), out[b]) ELSE history[k][b]]
  <2>1. history' = [h \in DOMAIN history \cup {k} |-> IF h # k THEN history[h] ELSE kept]
    BY <1>1
  <2>2. /\ DOMAIN kept = seen \cup D
        /\ \A b \in D : kept[b] = Append(Past(k, b), out[b])
        /\ \A b \in seen : b \notin D => kept[b] = history[k][b]
    OBVIOUS
  <2> HIDE DEF kept
  <2>3. history'[k] = kept /\ DOMAIN history' = DOMAIN history \cup {k}
        /\ \A h \in DOMAIN history : h # k => history'[h] = history[h]
    BY <2>1
  <2> QED
    BY <2>2, <2>3
<1>14. ASSUME NEW b \in seen \cup D
       PROVE  /\ history'[k][b] \in Seq(Measures) /\ history'[k][b] # <<>>
              /\ data'[k][b] = LastSamples(history'[k][b], MaxWindow)
  <2>1. CASE b \in D
    <3>1. out[b] \in Measures
      BY <1>1, <2>1, SamplesMeasured
    <3>2. Past(k, b) \in Seq(Measures) /\ Buffer(data, k, b) = LastSamples(Past(k, b), MaxWindow)
      BY <1>11
    <3>3. LastSamples(Append(LastSamples(Past(k, b), MaxWindow), out[b]), MaxWindow)
            = LastSamples(Append(Past(k, b), out[b]), MaxWindow)
      BY <1>10, <3>1, <3>2, LastOfAppended
    <3>4. Append(Past(k, b), out[b]) \in Seq(Measures) /\ Append(Past(k, b), out[b]) # <<>>
      <4>1. PICK q \in Seq(Measures), v \in Measures : q = Past(k, b) /\ v = out[b]
        BY <3>1, <3>2
      <4>2. Append(q, v) \in Seq(Measures) /\ Len(Append(q, v)) = Len(q) + 1 /\ Len(q) \in Nat
        OBVIOUS
      <4>3. Append(q, v) # <<>>
        BY <4>2, EmptySeq
      <4> QED
        BY <4>1, <4>2, <4>3
    <3>5. history'[k][b] = Append(Past(k, b), out[b])
      BY <1>13, <2>1
    <3>6. data'[k][b] = LastSamples(Append(LastSamples(Past(k, b), MaxWindow), out[b]), MaxWindow)
      BY <1>12, <2>1, <3>2
    <3> QED
      BY <3>3, <3>4, <3>5, <3>6
  <2>2. CASE b \notin D
    <3>1. k \in DOMAIN history /\ b \in DOMAIN history[k] /\ b \in seen
      BY <2>2
    <3>2. history'[k][b] = history[k][b] /\ data'[k][b] = data[k][b]
      BY <1>12, <1>13, <2>2, <3>1
    <3> QED
      BY <1>9, <3>1, <3>2
  <2> QED
    BY <2>1, <2>2
<1>15. HistoryInv'
  <2>1. ASSUME NEW h \in DOMAIN history'
        PROVE  /\ DOMAIN data'[h] = DOMAIN history'[h]
               /\ \A b \in DOMAIN history'[h] :
                    /\ history'[h][b] \in Seq(Measures) /\ history'[h][b] # <<>>
                    /\ data'[h][b] = LastSamples(history'[h][b], MaxWindow)
    <3>1. CASE h = k
      BY <1>12, <1>13, <1>14, <3>1
    <3>2. CASE h # k
      <4>1. h \in DOMAIN history /\ history'[h] = history[h] /\ data'[h] = data[h]
        BY <1>9, <1>12, <1>13, <3>2
      <4> QED
        BY <1>9, <4>1
    <3> QED
      BY <3>1, <3>2
  <2> QED
    BY <1>4, <1>9, <1>12, <1>13, <2>1 DEF HistoryInv
<1>16. ASSUME NEW b \in D
       PROVE  Mean(data', k, b, w) = MeanOf(history'[k][b], w)
  <2>1. data'[k][b] = LastSamples(history'[k][b], MaxWindow) /\ history'[k][b] \in Seq(Measures)
    BY <1>14
  <2>2. ClampedWindow(w) \in 1..MaxWindow
    BY <1>2, WindowClamped
  <2>3. LastSamples(data'[k][b], ClampedWindow(w)) = LastSamples(history'[k][b], ClampedWindow(w))
    BY <1>10, <2>1, <2>2, LastOfLast
  <2> QED
    BY <2>3 DEF Mean, MeanOf
<1>17. MeansInv'
  <2>1. /\ round'.policy = round.policy /\ round'.plan = round.plan /\ round'.signals = means
        /\ StrategyWindow(round'.plan) = w
    BY <1>5
  <2> SUFFICES ASSUME NEW s \in DOMAIN means
               PROVE  /\ <<round.policy, s>> \in DOMAIN history'
                      /\ \A b \in DOMAIN means[s] :
                           /\ b \in DOMAIN history'[<<round.policy, s>>]
                           /\ means[s][b] = MeanOf(history'[<<round.policy, s>>][b], w)
    BY <2>1 DEF MeansInv
  <2>2. CASE s = sig
    <3>1. \A b \in D : b \in DOMAIN history'[k] /\ means[sig][b] = MeanOf(history'[k][b], w)
      BY <1>6, <1>13, <1>16
    <3>2. DOMAIN means[sig] = D /\ k \in DOMAIN history'
      BY <1>6, <1>13
    <3> QED
      BY <2>2, <3>1, <3>2
  <2>3. CASE s # sig
    <3>1. s \in DOMAIN round.signals /\ means[s] = round.signals[s]
      BY <1>6, <2>3
    <3>2. /\ <<round.policy, s>> \in DOMAIN history
          /\ \A b \in DOMAIN round.signals[s] :
               /\ b \in DOMAIN history[<<round.policy, s>>]
               /\ round.signals[s][b] = MeanOf(history[<<round.policy, s>>][b], w)
      BY <1>1, <3>1 DEF IInv, MeansInv
    <3>3. <<round.policy, s>> # k
      BY <2>3
    <3>4. history'[<<round.policy, s>>] = history[<<round.policy, s>>] /\ <<round.policy, s>> \in DOMAIN history'
      BY <1>13, <3>2, <3>3
    <3> QED
      BY <3>1, <3>2, <3>4
  <2> QED
    BY <2>2, <2>3
<1> QED
  BY <1>7, <1>8, <1>15, <1>17 DEF IInv

\* A deletion drops nothing: no buffer is kept under the key it names.
LEMMA ForgetKeeps ==
  ASSUME IInv, NEW p \in Policies, Forget(p)
  PROVE  IInv'
<1>1. /\ data' = ForgetKey(data, <<p>>) /\ round' = NoRound /\ pc' = "idle"
      /\ UNCHANGED <<history, rounds>>
  BY DEF Forget, ForgetPolicyKey
<1>2. <<p>> \notin DOMAIN data
  <2>1. DOMAIN data \subseteq Keys
    BY DEF IInv, HistoryInv
  <2>2. <<p>> \notin Keys
    BY DEF Keys, Key
  <2> QED
    BY <2>1, <2>2
<1>3. DOMAIN data' = DOMAIN data /\ \A k \in DOMAIN data : data'[k] = data[k]
  BY <1>1, <1>2 DEF ForgetKey
<1>4. HistoryInv'
  <2>1. history' = history
    BY <1>1
  <2> QED
    BY <1>3, <2>1 DEF IInv, HistoryInv
<1>5. RoundInv' /\ ReadInv' /\ MeansInv'
  BY <1>1 DEF IInv, RoundInv, ReadInv, MeansInv
<1> QED
  BY <1>4, <1>5 DEF IInv

\* A new process has neither buffers nor a history.
LEMMA RestartKeeps ==
  ASSUME IInv, Restart
  PROVE  IInv'
<1>1. RoundInv' /\ ReadInv' /\ MeansInv'
  BY DEF Restart, IInv, RoundInv, ReadInv, MeansInv
<1>2. HistoryInv'
  BY DEF Restart, HistoryInv, NoData, NoHistory
<1> QED
  BY <1>1, <1>2 DEF IInv

\* Every step keeps it.
LEMMA NextIInv == IInv /\ [Next]_vars => IInv'
<1> SUFFICES ASSUME IInv, [Next]_vars PROVE IInv'
  OBVIOUS
<1>1. CASE QueryFails
  BY <1>1, FreezeKeeps DEF QueryFails
<1>2. CASE ReadMalformed
  BY <1>2, FreezeKeeps DEF ReadMalformed
<1>3. CASE UNCHANGED vars
  <2>1. \A b : ReadOf(b)' = ReadOf(b)
    BY <1>3 DEF vars, reading, ReadOf, Concerning, Wanted
  <2>2. ReadInv'
    BY <1>3, <2>1 DEF vars, reading, IInv, ReadInv, Wanted
  <2> QED
    BY <1>3, <2>2 DEF vars, reading, IInv, RoundInv, HistoryInv, MeansInv
<1> QED
  BY <1>1, <1>2, <1>3, BeginKeeps, AnswerKeeps, SeriesKeeps, RecordKeeps, ForgetKeeps, RestartKeeps DEF Next

\* So it holds in every state the program reaches.
THEOREM Invariance == Spec => []IInv
  BY InitIInv, NextIInv, PTL DEF Spec

----------------------------------------------------------------------------
(* The promises                                                            *)

\* Every variable has its type, and no buffer is empty or outgrows the cap, however
\* often the window is edited and rounds are cut short.
THEOREM TypeCorrect == Spec => []TypeOK
<1>1. IInv => TypeOK
  <2> SUFFICES ASSUME IInv PROVE TypeOK
    OBVIOUS
  <2>1. ASSUME NEW k \in DOMAIN data, NEW b \in DOMAIN data[k]
        PROVE  Len(data[k][b]) \in 1..MaxWindow
    <3>1. /\ history[k][b] \in Seq(Measures) /\ history[k][b] # <<>>
          /\ data[k][b] = LastSamples(history[k][b], MaxWindow)
      BY DEF IInv, HistoryInv
    <3>2. MaxWindow \in Nat \ {0}
      BY WindowAssumption
    <3>3. Len(history[k][b]) \in Nat \ {0}
      BY <3>1, EmptySeq
    <3>4. LET n == Len(data[k][b])
              m == Len(history[k][b])
          IN  n \in Nat /\ (m > MaxWindow => n = MaxWindow) /\ (m <= MaxWindow => n = m)
      BY <3>1, <3>2, LastSamplesAre
    <3> QED
      BY <3>2, <3>3, <3>4
  <2>2. pc \in {"query", "read"} => round.todo # <<>>
    BY DEF IInv, RoundInv
  <2> QED
    BY <2>1, <2>2 DEF IInv, RoundInv, HistoryInv, TypeOK
<1> QED
  BY <1>1, Invariance, PTL

\* source.go's contract of Sample, for any reply: exactly the requested backends with a series,
\* the last one's value each, nothing invented and nothing malformed.
THEOREM SampleContract == Spec => []SampleKeepsContract
<1>1. IInv => SampleKeepsContract
  <2> SUFFICES ASSUME IInv, pc = "read", next > Len(reply.series)
               PROVE  /\ DOMAIN out = {b \in Wanted : Concerning(reply, b) # {}}
                      /\ \A b \in DOMAIN out : out[b] = reply.series[LastOf(Concerning(reply, b))].value
                      /\ \A b \in DOMAIN out, i \in DOMAIN reply.series :
                           i \in Concerning(reply, b) => reply.series[i].value # Malformed
    BY DEF SampleKeepsContract
  <2>1. /\ reply \in Replies /\ next \in 1..(Len(reply.series) + 1)
        /\ DOMAIN out = {b \in Wanted : ReadOf(b) # {}}
        /\ \A b \in DOMAIN out : \E i \in ReadOf(b) :
             out[b] = reply.series[i].value /\ \A j \in ReadOf(b) : j <= i
        /\ \A b \in Wanted : \A i \in ReadOf(b) : reply.series[i].value # Malformed
    BY DEF IInv, ReadInv
  <2>2. Len(reply.series) \in Nat /\ DOMAIN reply.series = 1..Len(reply.series)
    BY <2>1, SensingAssumption, LenProperties DEF IsReply
  <2>3. ASSUME NEW b
        PROVE  ReadOf(b) = Concerning(reply, b) /\ \A i \in Concerning(reply, b) : i \in Nat
    <3>1. \A i \in Concerning(reply, b) : i \in 1..Len(reply.series)
      BY <2>2 DEF Concerning
    <3>2. \A i \in 1..Len(reply.series) : i < next
      BY <2>1, <2>2
    <3> QED
      BY <3>1, <3>2 DEF ReadOf
  <2>4. ASSUME NEW b \in DOMAIN out
        PROVE  out[b] = reply.series[LastOf(Concerning(reply, b))].value
    <3>1. PICK i \in Concerning(reply, b) :
            out[b] = reply.series[i].value /\ \A j \in Concerning(reply, b) : j <= i
      BY <2>1, <2>3
    <3>2. LastOf(Concerning(reply, b)) \in Concerning(reply, b)
          /\ \A j \in Concerning(reply, b) : j <= LastOf(Concerning(reply, b))
      BY <3>1 DEF LastOf
    <3>3. LastOf(Concerning(reply, b)) = i
      BY <2>3, <3>1, <3>2
    <3> QED
      BY <3>1, <3>3
  <2> QED
    BY <2>1, <2>3, <2>4
<1> QED
  BY <1>1, Invariance, PTL

\* The evaluator gets the means of every configured signal, all asked for in this round, or it
\* gets nothing: an outage of one signal never leaves the decision to the other.
THEOREM NoSignalAlone == Spec => []AllOrNothing
<1>1. IInv => AllOrNothing
  <2> SUFFICES ASSUME IInv PROVE AllOrNothing
    OBVIOUS
  <2>1. CASE pc = "ready"
    <3>1. round.todo = <<>> /\ DOMAIN round.signals = round.plan.signals \ Range(round.todo)
      BY <2>1 DEF IInv, RoundInv
    <3>2. Range(<<>>) = {}
      BY DEF Range
    <3> QED
      BY <2>1, <3>1, <3>2 DEF AllOrNothing
  <2>2. CASE pc = "frozen"
    <3>1. /\ round.todo \in Todos /\ round.todo # <<>> /\ Range(round.todo) \subseteq round.plan.signals
          /\ DOMAIN round.signals = round.plan.signals \ Range(round.todo)
      BY <2>2 DEF IInv, RoundInv
    <3>2. Head(round.todo) \in Range(round.todo)
      BY <3>1, TodoSteps
    <3> QED
      BY <2>2, <3>1, <3>2 DEF AllOrNothing
  <2> QED
    BY <2>1, <2>2 DEF AllOrNothing
<1> QED
  BY <1>1, Invariance, PTL

\* smoother.go's mean, for every window and history: each mean handed to the evaluator is that
\* of the last answers for this policy, signal and backend, through trimmed buffers, edits
\* of the window and rounds cut short; no other policy, signal or backend has a part in it.
THEOREM MeansAreRecent == Spec => []MeanOfRecent
<1>1. IInv => MeanOfRecent
  <2> SUFFICES ASSUME IInv, round # NoRound, NEW sig \in DOMAIN round.signals,
                      NEW b \in DOMAIN round.signals[sig]
               PROVE  LET h    == history[<<round.policy, sig>>][b]
                          w    == StrategyWindow(round.plan)
                          S    == Recent(h, IF w > MaxWindow THEN MaxWindow ELSE w)
                          mean == round.signals[sig][b]
                      IN  IF \E i \in S : h[i] = NaN THEN mean = NaN
                          ELSE IF \E i \in S : h[i] = Inf THEN mean = Inf
                          ELSE mean \notin {NaN, Inf} /\ mean * Cardinality(S) = MeanUnit * SumFunctionOnSet(h, S)
    BY DEF MeanOfRecent
  <2> DEFINE h == history[<<round.policy, sig>>][b]
             w == StrategyWindow(round.plan)
  <2>1. pc # "idle" /\ round.plan \in Plans
    BY DEF IInv, RoundInv
  <2>2. /\ <<round.policy, sig>> \in DOMAIN history /\ b \in DOMAIN history[<<round.policy, sig>>]
        /\ round.signals[sig][b] = MeanOf(h, w)
    BY <2>1 DEF IInv, MeansInv
  <2>3. h \in Seq(Measures) /\ h # <<>>
    BY <2>2 DEF IInv, HistoryInv
  <2>4. ClampedWindow(w) \in 1..MaxWindow /\ ClampedWindow(w) = IF w > MaxWindow THEN MaxWindow ELSE w
    BY <2>1, WindowClamped
  <2> HIDE DEF h, w
  <2>5. LET S    == Recent(h, ClampedWindow(w))
            mean == MeanOf(h, w)
        IN  IF \E i \in S : h[i] = NaN THEN mean = NaN
            ELSE IF \E i \in S : h[i] = Inf THEN mean = Inf
            ELSE mean \notin {NaN, Inf} /\ mean * Cardinality(S) = MeanUnit * SumFunctionOnSet(h, S)
    BY <2>3, <2>4, MeanIsMean
  <2> QED
    BY <2>2, <2>4, <2>5 DEF h, w
<1> QED
  BY <1>1, Invariance, PTL
=============================================================================
