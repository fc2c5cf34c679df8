------------------------ MODULE RouteWeighterProofs ------------------------
(***************************************************************************)
(* Theorems about RouteWeighter, for every set of policies, whatever the   *)
(* route's rules and however far the cache is behind: the types with the   *)
(* whereabouts of every policy; what a route may carry for a policy that   *)
(* shares none of its backends; and what the controller may do to an edit  *)
(* of what no policy manages.  The inductive invariant asks of every copy  *)
(* of the route there is, the cache, the versions on their way to it and   *)
(* the requests on their way to the server, what the first promise asks of *)
(* the server's.                                                           *)
(***************************************************************************)
EXTENDS RouteWeighter, SequenceTheorems, FiniteSetTheorems, TLAPS

----------------------------------------------------------------------------
(* The inductive invariant                                                 *)

\* All of a policy's weights are those of one allocation of as, or those of one manifest.
WholeFor(p, rules, as) ==
  \/ \E a \in as : Carries(Route(rules), a)
  \/ \E m \in Manifests : SeenBy(Backends(p), rules) = SeenBy(Backends(p), m)

\* What every list of rules in the system is, given what each policy has asked for.
Legit(rules, as) ==
  /\ IsRules(rules)
  /\ \A p \in Policies : Apart(p) => WholeFor(p, rules, as[p])

Version(r, as) == r = NoRoute \/ (r = Route(r.rules) /\ Legit(r.rules, as))
Request(j, as) ==
  /\ j = [policy |-> j.policy, body |-> j.body]
  /\ j.policy \in Policies
  /\ Legit(j.body, as)

\* Every copy of the route, and every request for one.
CopiesInv ==
  /\ Version(route, asked) /\ Version(cache, asked)
  /\ \A i \in DOMAIN pending : Version(pending[i], asked)
  /\ pc = "idle" => job = NoRequest
  /\ pc # "idle" => Request(job, asked)
  /\ late = NoRequest \/ Request(late, asked)

DecidedInv ==
  /\ DOMAIN decided = Policies /\ DOMAIN asked = Policies
  /\ \A p \in Policies : decided[p] \in Allocations[p] /\ asked[p] \subseteq Allocations[p]

LagInv == pending \in Seq(Range(pending)) /\ Len(pending) <= MaxLag

\* Every policy is in one place, and nowhere twice.
PlacesInv ==
  /\ pc \in {"idle", "patch"}
  /\ queue \in Seq(Policies) /\ waiting \subseteq Policies
  /\ \A i, j \in 1..Len(queue) : queue[i] = queue[j] => i = j
  /\ Range(queue) \cup waiting \cup Running = Policies
  /\ Range(queue) \cap waiting = {} /\ (Range(queue) \cup waiting) \cap Running = {}

IInv == CopiesInv /\ DecidedInv /\ LagInv /\ PlacesInv

----------------------------------------------------------------------------
(* Rewriting a list of rules                                               *)

NamesIn(rules) == {ref.name : ref \in RefsIn(rules)}

\* The backendRefs of a list, by their places.
LEMMA RefsByPlace ==
  ASSUME NEW rules, NEW ref
  PROVE  ref \in RefsIn(rules) <=> \E i \in DOMAIN rules : \E j \in DOMAIN rules[i] : ref = rules[i][j]
  BY DEF RefsIn, Range

\* Every backendRef of a list of rules is one.
LEMMA RulesTypes ==
  ASSUME NEW rules
  PROVE  IsRules(rules) <=> \A i \in DOMAIN rules : \A j \in DOMAIN rules[i] : IsRef(rules[i][j])
  BY DEF IsRules, Range

\* A backendRef keeps its name, and its weight as well if the map does not have the name.
LEMMA ReweightedKeeps ==
  ASSUME NEW ref, IsRef(ref), NEW D, NEW w \in [D -> 0..100]
  PROVE  /\ IsRef(Reweighted(ref, w))
         /\ Reweighted(ref, w).name = ref.name
         /\ ref.name \in D => Reweighted(ref, w).weight = w[ref.name]
         /\ ref.name \notin D => Reweighted(ref, w) = ref
<1>1. ref = [name |-> ref.name, weight |-> ref.weight]
  BY DEF IsRef
<1>2. CASE ref.name \in D
  <2>1. Reweighted(ref, w) = [name |-> ref.name, weight |-> w[ref.name]]
    BY <1>1, <1>2 DEF Reweighted
  <2> QED
    BY <1>2, <2>1 DEF IsRef, IsWeight
<1>3. CASE ref.name \notin D
  BY <1>3 DEF Reweighted
<1> QED
  BY <1>2, <1>3

\* The rewritten list has the same places, with the backendRefs reweighted.
LEMMA RewrittenPlaces ==
  ASSUME NEW rules, NEW w
  PROVE  /\ DOMAIN Rewritten(rules, w) = DOMAIN rules
         /\ \A i \in DOMAIN rules :
              /\ DOMAIN Rewritten(rules, w)[i] = DOMAIN rules[i]
              /\ \A j \in DOMAIN rules[i] : Rewritten(rules, w)[i][j] = Reweighted(rules[i][j], w)
  BY DEF Rewritten

\* A list of rules stays one, with the same names in it.
LEMMA RewrittenKeeps ==
  ASSUME NEW rules, IsRules(rules), NEW D, NEW w \in [D -> 0..100]
  PROVE  /\ IsRules(Rewritten(rules, w))
         /\ NamesIn(Rewritten(rules, w)) = NamesIn(rules)
         /\ Carries(Route(Rewritten(rules, w)), w)
<1> DEFINE new == Rewritten(rules, w)
<1>1. \A i \in DOMAIN rules : \A j \in DOMAIN rules[i] : IsRef(rules[i][j])
  BY RulesTypes
<1>2. /\ DOMAIN new = DOMAIN rules
      /\ \A i \in DOMAIN rules : DOMAIN new[i] = DOMAIN rules[i]
      /\ \A i \in DOMAIN rules : \A j \in DOMAIN rules[i] : new[i][j] = Reweighted(rules[i][j], w)
  BY RewrittenPlaces
<1> HIDE DEF new
<1>3. \A i \in DOMAIN rules : \A j \in DOMAIN rules[i] :
        /\ IsRef(new[i][j]) /\ new[i][j].name = rules[i][j].name
        /\ new[i][j].name \in D => new[i][j].weight = w[new[i][j].name]
  BY <1>1, <1>2, ReweightedKeeps
<1>4. IsRules(new)
  BY <1>2, <1>3, RulesTypes
<1>5. NamesIn(new) \subseteq NamesIn(rules)
  <2> SUFFICES ASSUME NEW ref \in RefsIn(new) PROVE ref.name \in NamesIn(rules)
    BY DEF NamesIn
  <2>1. PICK i \in DOMAIN new : \E j \in DOMAIN new[i] : ref = new[i][j]
    BY RefsByPlace
  <2>2. PICK j \in DOMAIN new[i] : ref = new[i][j]
    BY <2>1
  <2>3. ref.name = rules[i][j].name /\ rules[i][j] \in RefsIn(rules)
    BY <1>2, <1>3, <2>1, <2>2, RefsByPlace
  <2> QED
    BY <2>3 DEF NamesIn
<1>6. NamesIn(rules) \subseteq NamesIn(new)
  <2> SUFFICES ASSUME NEW ref \in RefsIn(rules) PROVE ref.name \in NamesIn(new)
    BY DEF NamesIn
  <2>1. PICK i \in DOMAIN rules : \E j \in DOMAIN rules[i] : ref = rules[i][j]
    BY RefsByPlace
  <2>2. PICK j \in DOMAIN rules[i] : ref = rules[i][j]
    BY <2>1
  <2>3. ref.name = new[i][j].name /\ new[i][j] \in RefsIn(new)
    BY <1>2, <1>3, <2>1, <2>2, RefsByPlace
  <2> QED
    BY <2>3 DEF NamesIn
<1>7. Carries(Route(new), w)
  <2> SUFFICES ASSUME NEW ref \in RefsIn(new), ref.name \in D PROVE ref.weight = w[ref.name]
    BY DEF Carries, Route
  <2>1. PICK i \in DOMAIN new : \E j \in DOMAIN new[i] : ref = new[i][j]
    BY RefsByPlace
  <2>2. PICK j \in DOMAIN new[i] : ref = new[i][j]
    BY <2>1
  <2> QED
    BY <1>2, <1>3, <2>1, <2>2
<1> QED
  BY <1>4, <1>5, <1>6, <1>7 DEF new

\* Who owns none of the names in the map sees no difference.
LEMMA UnseenByOthers ==
  ASSUME NEW rules, IsRules(rules), NEW D, NEW w \in [D -> 0..100], NEW names, names \cap D = {}
  PROVE  SeenBy(names, Rewritten(rules, w)) = SeenBy(names, rules)
<1> DEFINE new == Rewritten(rules, w)
           Mask(ref) == IF ref.name \in names THEN ref ELSE [ref EXCEPT !.weight = Unset]
<1>1. /\ DOMAIN new = DOMAIN rules
      /\ \A i \in DOMAIN rules : DOMAIN new[i] = DOMAIN rules[i]
      /\ \A i \in DOMAIN rules : \A j \in DOMAIN rules[i] : new[i][j] = Reweighted(rules[i][j], w)
  BY RewrittenPlaces
<1>2. ASSUME NEW ref, IsRef(ref)
      PROVE  Mask(Reweighted(ref, w)) = Mask(ref)
  <2>1. /\ IsRef(Reweighted(ref, w)) /\ Reweighted(ref, w).name = ref.name
        /\ ref.name \notin D => Reweighted(ref, w) = ref
    BY <1>2, ReweightedKeeps
  <2>2. CASE ref.name \in names
    BY <2>1, <2>2
  <2>3. CASE ref.name \notin names
    <3>1. Mask(ref) = [name |-> ref.name, weight |-> Unset]
      BY <1>2, <2>3 DEF IsRef
    <3>2. Mask(Reweighted(ref, w)) = [name |-> ref.name, weight |-> Unset]
      BY <2>1, <2>3 DEF IsRef
    <3> QED
      BY <3>1, <3>2
  <2> QED
    BY <2>2, <2>3
<1>3. \A i \in DOMAIN rules : \A j \in DOMAIN rules[i] : Mask(new[i][j]) = Mask(rules[i][j])
  <2> HIDE DEF new, Mask
  <2> QED
    BY <1>1, <1>2, RulesTypes
<1>4. SeenBy(names, new) = [i \in DOMAIN new |-> [j \in DOMAIN new[i] |-> Mask(new[i][j])]]
  BY DEF SeenBy
<1>5. SeenBy(names, rules) = [i \in DOMAIN rules |-> [j \in DOMAIN rules[i] |-> Mask(rules[i][j])]]
  BY DEF SeenBy
<1> HIDE DEF new, Mask
<1>6. SeenBy(names, new) = SeenBy(names, rules)
  BY <1>1, <1>3, <1>4, <1>5
<1> QED
  BY <1>6 DEF new

\* And what its backendRefs carry they carry still.
LEMMA CarriedByOthers ==
  ASSUME NEW rules, IsRules(rules), NEW D, NEW w \in [D -> 0..100],
         NEW b, (DOMAIN b) \cap D = {}, Carries(Route(rules), b)
  PROVE  Carries(Route(Rewritten(rules, w)), b)
<1> DEFINE new == Rewritten(rules, w)
<1>1. /\ DOMAIN new = DOMAIN rules
      /\ \A i \in DOMAIN rules : DOMAIN new[i] = DOMAIN rules[i]
      /\ \A i \in DOMAIN rules : \A j \in DOMAIN rules[i] : new[i][j] = Reweighted(rules[i][j], w)
  BY RewrittenPlaces
<1> HIDE DEF new
<1> SUFFICES ASSUME NEW ref \in RefsIn(new), ref.name \in DOMAIN b PROVE ref.weight = b[ref.name]
  BY DEF Carries, Route, new
<1>2. PICK i \in DOMAIN new : \E j \in DOMAIN new[i] : ref = new[i][j]
  BY RefsByPlace
<1>3. PICK j \in DOMAIN new[i] : ref = new[i][j]
  BY <1>2
<1>4. IsRef(rules[i][j]) /\ rules[i][j] \in RefsIn(rules)
  BY <1>1, <1>2, <1>3, RulesTypes, RefsByPlace
<1>5. ref = Reweighted(rules[i][j], w)
  BY <1>1, <1>2, <1>3
<1>6. ref.name = rules[i][j].name /\ (rules[i][j].name \notin D => ref = rules[i][j])
  BY <1>4, <1>5, ReweightedKeeps
<1>7. ref = rules[i][j]
  BY <1>6
<1> QED
  BY <1>4, <1>7 DEF Carries, Route

\* What an Apply makes of a legitimate list is legitimate once its allocation has been
\* asked for; the weights of a policy that shares no backend are as they were.
LEMMA ApplyKeeps ==
  ASSUME NEW rules, NEW as, Legit(rules, as), NEW p \in Policies, NEW a \in Allocations[p],
         NEW bs, \A q \in Policies : as[q] \subseteq Allocations[q] /\ as[q] \subseteq bs[q], a \in bs[p]
  PROVE  Legit(Rewritten(rules, a), bs)
<1> DEFINE new == Rewritten(rules, a)
<1>1. a \in [Backends(p) -> 0..100] /\ IsRules(rules)
  BY WeighterAssumption DEF Legit
<1>2. IsRules(new) /\ NamesIn(new) = NamesIn(rules) /\ Carries(Route(new), a)
  BY <1>1, RewrittenKeeps
<1>3. ASSUME NEW names, names \cap Backends(p) = {}
      PROVE  SeenBy(names, new) = SeenBy(names, rules)
  BY <1>1, <1>3, UnseenByOthers
<1>4. ASSUME NEW b, (DOMAIN b) \cap Backends(p) = {}, Carries(Route(rules), b)
      PROVE  Carries(Route(new), b)
  BY <1>1, <1>4, CarriedByOthers
<1> HIDE DEF new
<1>5. ASSUME NEW q \in Policies, Apart(q)
      PROVE  WholeFor(q, new, bs[q])
  <2>1. CASE q = p
    BY <1>2, <2>1 DEF WholeFor
  <2>2. CASE q # p
    <3>1. Backends(q) \cap Backends(p) = {}
      BY <1>5, <2>2 DEF Apart
    <3>2. SeenBy(Backends(q), new) = SeenBy(Backends(q), rules)
      BY <1>3, <3>1
    <3>3. CASE \E m \in Manifests : SeenBy(Backends(q), rules) = SeenBy(Backends(q), m)
      BY <3>2, <3>3 DEF WholeFor
    <3>4. CASE \E b \in as[q] : Carries(Route(rules), b)
      <4>1. PICK b \in as[q] : Carries(Route(rules), b)
        BY <3>4
      <4>2. b \in bs[q] /\ b \in Allocations[q]
        OBVIOUS
      <4>3. DOMAIN b = Backends(q)
        BY <4>2, WeighterAssumption
      <4>4. Carries(Route(new), b)
        BY <1>4, <3>1, <4>1, <4>3
      <4> QED
        BY <4>2, <4>4 DEF WholeFor
    <3> QED
      BY <1>5, <3>3, <3>4 DEF Legit, WholeFor
  <2> QED
    BY <2>1, <2>2
<1> QED
  BY <1>2, <1>5 DEF Legit, new

\* Asking for more takes nothing away.
LEMMA LegitGrows ==
  ASSUME NEW rules, NEW as, Legit(rules, as), NEW bs, \A q \in Policies : as[q] \subseteq bs[q]
  PROVE  Legit(rules, bs)
  BY DEF Legit, WholeFor

\* A manifest is legitimate, whatever anybody has asked for.
LEMMA ManifestLegit ==
  ASSUME NEW m \in Manifests, NEW as
  PROVE  Legit(m, as)
  BY WeighterAssumption DEF Legit, WholeFor

\* A route and no route are different things.
LEMMA RouteFields ==
  /\ \A rules : Route(rules).exists /\ Route(rules).rules = rules /\ Route(rules) # NoRoute
  /\ ~NoRoute.exists
  BY DEF Route, NoRoute
\* So are a request and none.
LEMMA RequestFields ==
  \A p, body : [policy |-> p, body |-> body] # NoRequest
  BY DEF NoRequest

----------------------------------------------------------------------------
(* The queues                                                              *)

\* What is in the list of a sequence.
LEMMA InRange ==
  ASSUME NEW s, NEW T, s \in Seq(T)
  PROVE  /\ Len(s) \in Nat /\ DOMAIN s = 1..Len(s)
         /\ \A x : x \in Range(s) <=> \E i \in 1..Len(s) : s[i] = x
  BY DEF Range

\* Taking the head off a sequence without duplicates removes that element.
LEMMA TailPlaces ==
  ASSUME NEW s, NEW T, s \in Seq(T), s # <<>>, \A i, j \in 1..Len(s) : s[i] = s[j] => i = j
  PROVE  /\ Head(s) \in T /\ Tail(s) \in Seq(T)
         /\ \A i, j \in 1..Len(Tail(s)) : Tail(s)[i] = Tail(s)[j] => i = j
         /\ Range(Tail(s)) = Range(s) \ {Head(s)} /\ Head(s) \in Range(s)
<1>1. /\ Len(s) \in Nat \ {0} /\ Head(s) = s[1] /\ Tail(s) \in Seq(T) /\ Len(Tail(s)) = Len(s) - 1
      /\ \A i \in 1..Len(Tail(s)) : Tail(s)[i] = s[i + 1]
      /\ DOMAIN Tail(s) = 1..Len(Tail(s))
  OBVIOUS
<1>2. s[1] \in T /\ s[1] \in Range(s)
  BY <1>1 DEF Range
<1>3. \A i \in 1..Len(Tail(s)) : i + 1 \in 1..Len(s) /\ i + 1 # 1
  BY <1>1
<1>4. \A i, j \in 1..Len(Tail(s)) : Tail(s)[i] = Tail(s)[j] => i = j
  <2> TAKE i, j \in 1..Len(Tail(s))
  <2> HAVE Tail(s)[i] = Tail(s)[j]
  <2>1. s[i + 1] = s[j + 1]
    BY <1>1
  <2>2. i + 1 = j + 1
    BY <1>3, <2>1
  <2> QED
    BY <2>2
<1>5. \A x : x \in Range(Tail(s)) <=> (x \in Range(s) /\ x # s[1])
  <2> TAKE x
  <2>1. ASSUME x \in Range(Tail(s))
        PROVE  x \in Range(s) /\ x # s[1]
    <3>1. PICK i \in 1..Len(Tail(s)) : Tail(s)[i] = x
      BY <1>1, <2>1 DEF Range
    <3>2. x = s[i + 1] /\ i + 1 \in 1..Len(s) /\ i + 1 # 1 /\ 1 \in 1..Len(s)
      BY <1>1, <1>3, <3>1
    <3> QED
      BY <3>2, InRange
  <2>2. ASSUME x \in Range(s), x # s[1]
        PROVE  x \in Range(Tail(s))
    <3>1. PICK i \in 1..Len(s) : s[i] = x
      BY <2>2, InRange
    <3>2. i # 1
      BY <2>2, <3>1
    <3>3. i - 1 \in 1..Len(Tail(s)) /\ (i - 1) + 1 = i
      BY <1>1, <3>2
    <3>4. Tail(s)[i - 1] = x
      BY <1>1, <3>1, <3>3
    <3> QED
      BY <1>1, <3>3, <3>4 DEF Range
  <2> QED
    BY <2>1, <2>2
<1> QED
  BY <1>1, <1>2, <1>4, <1>5

\* A new element at the end adds that element.
LEMMA AppendPlaces ==
  ASSUME NEW s, NEW T, s \in Seq(T), NEW x \in T
  PROVE  /\ Append(s, x) \in Seq(T) /\ Len(Append(s, x)) = Len(s) + 1
         /\ Range(Append(s, x)) = Range(s) \cup {x}
         /\ \A i \in 1..Len(s) : Append(s, x)[i] = s[i]
         /\ Append(s, x)[Len(s) + 1] = x
<1>1. /\ Len(s) \in Nat /\ Append(s, x) \in Seq(T) /\ Len(Append(s, x)) = Len(s) + 1
      /\ \A i \in 1..Len(s) : Append(s, x)[i] = s[i]
      /\ Append(s, x)[Len(s) + 1] = x
  OBVIOUS
<1>2. \A y : y \in Range(Append(s, x)) <=> (y \in Range(s) \/ y = x)
  <2> TAKE y
  <2>1. ASSUME y \in Range(Append(s, x))
        PROVE  y \in Range(s) \/ y = x
    <3>1. PICK i \in 1..Len(Append(s, x)) : Append(s, x)[i] = y
      BY <1>1, <2>1, InRange
    <3>2. i \in 1..Len(s) \/ i = Len(s) + 1
      BY <1>1
    <3> QED
      BY <1>1, <3>1, <3>2, InRange
  <2>2. ASSUME y \in Range(s) \/ y = x
        PROVE  y \in Range(Append(s, x))
    <3>1. CASE y = x
      <4>1. Len(s) + 1 \in 1..Len(Append(s, x))
        BY <1>1
      <4> QED
        BY <1>1, <3>1, <4>1, InRange
    <3>2. CASE y \in Range(s)
      <4>1. PICK i \in 1..Len(s) : s[i] = y
        BY <3>2, InRange
      <4>2. i \in 1..Len(Append(s, x)) /\ Append(s, x)[i] = y
        BY <1>1, <4>1
      <4> QED
        BY <1>1, <4>2, InRange
    <3> QED
      BY <2>2, <3>1, <3>2
  <2> QED
    BY <2>1, <2>2
<1> QED
  BY <1>1, <1>2

\* An element that was not there comes without a duplicate.
LEMMA AppendOnce ==
  ASSUME NEW s, NEW T, s \in Seq(T), NEW x \in T, x \notin Range(s),
         \A i, j \in 1..Len(s) : s[i] = s[j] => i = j
  PROVE  \A i, j \in 1..Len(Append(s, x)) : Append(s, x)[i] = Append(s, x)[j] => i = j
<1>1. /\ Len(s) \in Nat /\ Len(Append(s, x)) = Len(s) + 1
      /\ \A i \in 1..Len(s) : Append(s, x)[i] = s[i]
      /\ Append(s, x)[Len(s) + 1] = x
  BY AppendPlaces
<1>2. \A i \in 1..Len(s) : s[i] # x
  BY InRange
<1>3. \A i \in 1..Len(Append(s, x)) : i \in 1..Len(s) \/ i = Len(s) + 1
  BY <1>1
<1> QED
  BY <1>1, <1>2, <1>3

\* The watch's queue: a version added, the oldest taken.
LEMMA LagAppend ==
  ASSUME NEW s, s \in Seq(Range(s)), NEW x
  PROVE  /\ Append(s, x) \in Seq(Range(Append(s, x))) /\ Len(Append(s, x)) = Len(s) + 1
         /\ \A i \in DOMAIN Append(s, x) : Append(s, x)[i] = x \/ \E j \in DOMAIN s : Append(s, x)[i] = s[j]
<1> DEFINE T == Range(s) \cup {x}
<1>1. /\ Len(s) \in Nat /\ DOMAIN s = 1..Len(s)
      /\ \A i \in 1..Len(s) : s[i] \in Range(s)
  BY DEF Range
<1>2. s \in Seq(T)
  BY <1>1
<1>3. /\ Append(s, x) \in Seq(T) /\ Len(Append(s, x)) = Len(s) + 1
      /\ Range(Append(s, x)) = T
      /\ \A i \in 1..Len(s) : Append(s, x)[i] = s[i]
      /\ Append(s, x)[Len(s) + 1] = x
  BY <1>2, AppendPlaces
<1>4. \A i \in DOMAIN Append(s, x) : i \in 1..Len(s) \/ i = Len(s) + 1
  BY <1>1, <1>3
<1> QED
  BY <1>1, <1>3, <1>4

\* And as much of it is left.
LEMMA LagTail ==
  ASSUME NEW s, s \in Seq(Range(s)), s # <<>>
  PROVE  /\ Tail(s) \in Seq(Range(Tail(s))) /\ Len(Tail(s)) = Len(s) - 1 /\ Len(s) \in Nat
         /\ \E j \in DOMAIN s : Head(s) = s[j]
         /\ \A i \in DOMAIN Tail(s) : \E j \in DOMAIN s : Tail(s)[i] = s[j]
<1>1. /\ Len(s) \in Nat \ {0} /\ Head(s) = s[1] /\ Tail(s) \in Seq(Range(s)) /\ Len(Tail(s)) = Len(s) - 1
      /\ DOMAIN s = 1..Len(s) /\ DOMAIN Tail(s) = 1..Len(Tail(s))
      /\ \A i \in 1..Len(Tail(s)) : Tail(s)[i] = s[i + 1]
  OBVIOUS
<1>2. \A i \in 1..Len(Tail(s)) : i + 1 \in DOMAIN s
  BY <1>1
<1>3. Tail(s) \in Seq(Range(Tail(s)))
  BY <1>1, SeqOfRange
<1> QED
  BY <1>1, <1>2, <1>3

\* A queue of everybody has everybody once.
LEMMA OrdersPlaces ==
  ASSUME NEW q \in Orders
  PROVE  /\ q \in Seq(Policies) /\ Range(q) = Policies
         /\ \A i, j \in 1..Len(q) : q[i] = q[j] => i = j
<1> DEFINE N == Cardinality(Policies)
<1>1. N \in Nat
  BY WeighterAssumption, FS_CardinalityType
<1>2. q \in [1..N -> Policies] /\ Range(q) = Policies
  BY DEF Orders
<1>3. IsFiniteSet(1..N) /\ Cardinality(1..N) = N
  BY <1>1, FS_Interval
<1> HIDE DEF N
<1>4. q \in Surjection(1..N, Policies)
  BY <1>2 DEF Surjection, Range
<1>5. q \in Injection(1..N, Policies)
  <2>1. Cardinality(Policies) = Cardinality(1..N)
    BY <1>3 DEF N
  <2> QED
    BY <1>3, <1>4, <2>1, FS_Surjection
<1>6. \A i, j \in 1..N : q[i] = q[j] => i = j
  BY <1>5 DEF Injection, IsInjective
<1>7. q \in Seq(Policies) /\ Len(q) = N
  BY <1>1, <1>2
<1> QED
  BY <1>2, <1>6, <1>7

----------------------------------------------------------------------------
(* The steps                                                               *)

\* Every copy stays legitimate while policies ask for more.
LEMMA CopiesGrow ==
  ASSUME NEW r, NEW as, NEW bs, \A q \in Policies : as[q] \subseteq bs[q]
  PROVE  /\ Version(r, as) => Version(r, bs)
         /\ Request(r, as) => Request(r, bs)
  BY LegitGrows DEF Version, Request

\* Carried out, a request makes a legitimate version.
LEMMA RequestMakesVersion ==
  ASSUME NEW j, NEW as, Request(j, as)
  PROVE  Version(Route(j.body), as)
  BY RouteFields DEF Request, Version

\* It holds initially: everything is one manifest, and everybody is in the queue.
LEMMA InitIInv == Init => IInv
<1> SUFFICES ASSUME Init PROVE IInv
  OBVIOUS
<1>1. PICK m \in Manifests : route = Route(m)
  BY DEF Init
<1>2. Version(route, asked) /\ cache = route
  BY <1>1, ManifestLegit, RouteFields DEF Version, Init
<1>3. pending = <<>> /\ DOMAIN pending = {} /\ Len(pending) = 0
  BY EmptySeq DEF Init
<1>4. CopiesInv
  BY <1>2, <1>3 DEF Init, CopiesInv
<1>5. DecidedInv
  BY WeighterAssumption DEF Init, DecidedInv
<1>6. LagInv
  BY <1>3, EmptySeq, WeighterAssumption DEF LagInv
<1>7. PlacesInv
  <2>1. /\ queue \in Seq(Policies) /\ Range(queue) = Policies
        /\ \A i, j \in 1..Len(queue) : queue[i] = queue[j] => i = j
    BY OrdersPlaces DEF Init
  <2>2. waiting = {} /\ Running = {} /\ pc = "idle"
    BY DEF Init, Running
  <2> QED
    BY <2>1, <2>2 DEF PlacesInv
<1> QED
  BY <1>4, <1>5, <1>6, <1>7 DEF IInv

\* A legitimate write of the server keeps the copies and the bound of the watch's queue.
LEMMA WroteKeeps ==
  ASSUME IInv, NEW r, Version(r, asked), Wrote(r), RoomForVersion
  PROVE  /\ Version(route', asked)
         /\ \A i \in DOMAIN pending' : Version(pending'[i], asked)
         /\ LagInv'
<1>1. pending \in Seq(Range(pending)) /\ Len(pending) <= MaxLag
  BY DEF IInv, LagInv
<1>2. pending' = Append(pending, r) /\ route' = r
  BY DEF Wrote
<1>3. /\ pending' \in Seq(Range(pending')) /\ Len(pending') = Len(pending) + 1
      /\ \A i \in DOMAIN pending' : pending'[i] = r \/ \E j \in DOMAIN pending : pending'[i] = pending[j]
  BY <1>1, <1>2, LagAppend
<1>4. Len(pending) \in Nat /\ Len(pending) < MaxLag
  BY <1>1, LenProperties DEF RoomForVersion
<1>5. LagInv'
  BY <1>3, <1>4, WeighterAssumption DEF LagInv
<1>6. \A j \in DOMAIN pending : Version(pending[j], asked)
  BY DEF IInv, CopiesInv
<1> QED
  BY <1>2, <1>3, <1>5, <1>6

\* A request that comes back leaves the worker idle and its policy waiting.
LEMMA ReturnedKeeps ==
  ASSUME IInv, pc = "patch", NEW ok, Returned(ok), UNCHANGED queue
  PROVE  pc' = "idle" /\ job' = NoRequest /\ PlacesInv'
<1>1. pc' = "idle" /\ waiting' = waiting \cup {job.policy} /\ queue' = queue /\ job' = NoRequest
  BY DEF Returned, Requeue
<1>2. Running = {job.policy} /\ Running' = {}
  BY <1>1 DEF Running
<1>3. /\ queue \in Seq(Policies) /\ waiting \subseteq Policies
      /\ \A i, j \in 1..Len(queue) : queue[i] = queue[j] => i = j
      /\ Range(queue) \cup waiting \cup {job.policy} = Policies
      /\ Range(queue) \cap waiting = {} /\ (Range(queue) \cup waiting) \cap {job.policy} = {}
  BY <1>2 DEF IInv, PlacesInv
<1>4. /\ queue' \in Seq(Policies)
      /\ \A i, j \in 1..Len(queue') : queue'[i] = queue'[j] => i = j
  BY <1>1, <1>3
<1>5. waiting' \subseteq Policies /\ Range(queue') \cup waiting' \cup Running' = Policies
  BY <1>1, <1>2, <1>3
<1>6. Range(queue') \cap waiting' = {} /\ (Range(queue') \cup waiting') \cap Running' = {}
  BY <1>1, <1>2, <1>3
<1> QED
  BY <1>1, <1>4, <1>5, <1>6 DEF PlacesInv

\* An Apply asks for a legitimate list, made of the cache's and of what its policy has
\* just asked for.
LEMMA BeginKeeps ==
  ASSUME IInv, BeginApply
  PROVE  IInv'
<1> DEFINE p == Head(queue)
           body == Rewritten(cache.rules, decided'[p])
           sends == cache.exists /\ Changed(cache.rules, body)
<1>1. /\ pc = "idle" /\ queue # <<>> /\ queue' = Tail(queue) /\ Decide(p)
      /\ UNCHANGED <<route, cache, pending, late>>
      /\ sends => pc' = "patch" /\ job' = [policy |-> p, body |-> body] /\ waiting' = waiting
      /\ ~sends => waiting' = waiting \cup {p} /\ pc' = pc /\ job' = job
  BY DEF BeginApply, watch
<1>2. /\ queue \in Seq(Policies) /\ waiting \subseteq Policies /\ Running = {}
      /\ \A i, j \in 1..Len(queue) : queue[i] = queue[j] => i = j
      /\ Range(queue) \cup waiting = Policies /\ Range(queue) \cap waiting = {}
  BY <1>1 DEF IInv, PlacesInv, Running
<1>3. /\ p \in Policies /\ queue' \in Seq(Policies) /\ p \in Range(queue)
      /\ \A i, j \in 1..Len(queue') : queue'[i] = queue'[j] => i = j
      /\ Range(queue') = Range(queue) \ {p}
  BY <1>1, <1>2, TailPlaces
<1>4. /\ DecidedInv' /\ decided'[p] \in Allocations[p] /\ decided'[p] \in asked'[p]
      /\ \A q \in Policies : asked[q] \subseteq asked'[q] /\ asked[q] \subseteq Allocations[q]
  <2>1. /\ DOMAIN decided = Policies /\ DOMAIN asked = Policies
        /\ \A q \in Policies : decided[q] \in Allocations[q] /\ asked[q] \subseteq Allocations[q]
    BY DEF IInv, DecidedInv
  <2>2. PICK a \in Allocations[p] : /\ \/ decided' = decided /\ a = decided[p]
                                       \/ decided' = [decided EXCEPT ![p] = a]
                                    /\ asked' = [asked EXCEPT ![p] = @ \cup {decided'[p]}]
    <3> HIDE DEF p
    <3> QED
      BY <1>1, <1>3, <2>1 DEF Decide
  <2>3. decided'[p] = a /\ DOMAIN decided' = Policies /\ \A q \in Policies : decided'[q] \in Allocations[q]
    <3> HIDE DEF p
    <3> QED
      BY <1>3, <2>1, <2>2
  <2>4. /\ DOMAIN asked' = Policies /\ asked'[p] = asked[p] \cup {a}
        /\ \A q \in Policies \ {p} : asked'[q] = asked[q]
    <3> HIDE DEF p
    <3> QED
      BY <1>3, <2>1, <2>2, <2>3
  <2> HIDE DEF p
  <2> QED
    BY <1>3, <2>1, <2>3, <2>4 DEF DecidedInv
<1>5. /\ Version(route', asked') /\ Version(cache', asked')
      /\ \A i \in DOMAIN pending' : Version(pending'[i], asked')
      /\ late' = NoRequest \/ Request(late', asked')
  BY <1>1, <1>4, CopiesGrow DEF IInv, CopiesInv
<1>6. LagInv'
  BY <1>1 DEF IInv, LagInv
<1>7. ASSUME sends
      PROVE  Request(job', asked')
  <2>1. Version(cache, asked) /\ cache.exists
    BY <1>7 DEF IInv, CopiesInv
  <2>2. Legit(cache.rules, asked)
    BY <2>1, RouteFields DEF Version
  <2>3. Legit(body, asked')
    <3> HIDE DEF p
    <3> QED
      BY <1>3, <1>4, <2>2, ApplyKeeps
  <2>4. job' = [policy |-> p, body |-> body]
    BY <1>1, <1>7
  <2> HIDE DEF p, body
  <2> QED
    BY <1>3, <2>3, <2>4 DEF Request
<1> HIDE DEF p, body, sends
<1>8. CASE sends
  <2>1. pc' = "patch" /\ job' = [policy |-> p, body |-> body] /\ waiting' = waiting
    BY <1>1, <1>8
  <2>2. Running' = {p}
    BY <2>1 DEF Running
  <2>3. PlacesInv'
    BY <1>2, <1>3, <2>1, <2>2 DEF PlacesInv
  <2>4. CopiesInv'
    BY <1>5, <1>7, <1>8, <2>1 DEF CopiesInv
  <2> QED
    BY <1>4, <1>6, <2>3, <2>4 DEF IInv
<1>9. CASE ~sends
  <2>1. pc' = "idle" /\ job' = job /\ waiting' = waiting \cup {p}
    BY <1>1, <1>9
  <2>2. Running' = {}
    BY <2>1 DEF Running
  <2>3. PlacesInv'
    BY <1>2, <1>3, <2>1, <2>2 DEF PlacesInv
  <2>4. CopiesInv'
    BY <1>1, <1>5, <2>1 DEF IInv, CopiesInv
  <2> QED
    BY <1>4, <1>6, <2>3, <2>4 DEF IInv
<1> QED
  BY <1>8, <1>9

\* Carried out, refused, lost, or given up while it is still on its way: the request that was
\* legitimate when it was made is so now.
LEMMA PatchKeeps ==
  ASSUME IInv, Patch \/ PatchFails
  PROVE  IInv'
<1>1. /\ pc = "patch" /\ UNCHANGED <<cache, decided, asked, queue>>
      /\ pc' = "idle" /\ job' = NoRequest /\ Requeue(FALSE)
  BY DEF Patch, PatchFails, decisions, Returned, Requeue
<1>2. Request(job, asked) /\ Version(Route(job.body), asked)
  BY <1>1, RequestMakesVersion DEF IInv, CopiesInv
<1>3. pc' = "idle" /\ job' = NoRequest /\ PlacesInv'
  BY <1>1, ReturnedKeeps DEF Returned
<1>4. DecidedInv'
  BY <1>1 DEF IInv, DecidedInv
<1>5. \/ Wrote(Route(job.body)) /\ RoomForVersion
      \/ UNCHANGED <<route, pending>>
  BY DEF Patch, PatchFails
<1>6. /\ Version(route', asked)
      /\ \A i \in DOMAIN pending' : Version(pending'[i], asked)
      /\ LagInv'
  <2>1. CASE Wrote(Route(job.body)) /\ RoomForVersion
    BY <1>2, <2>1, WroteKeeps
  <2>2. CASE UNCHANGED <<route, pending>>
    BY <2>2 DEF IInv, CopiesInv, LagInv
  <2> QED
    BY <1>5, <2>1, <2>2
<1>7. late' = late \/ late' = job
  BY DEF Patch, PatchFails
<1>8. late' = NoRequest \/ Request(late', asked)
  BY <1>2, <1>7 DEF IInv, CopiesInv
<1>9. CopiesInv'
  BY <1>1, <1>3, <1>6, <1>8 DEF IInv, CopiesInv
<1> QED
  BY <1>3, <1>4, <1>6, <1>9 DEF IInv

\* So is one that arrives late.
LEMMA LateKeeps ==
  ASSUME IInv, LateRequestLands
  PROVE  IInv'
<1>1. /\ late # NoRequest /\ RoomForVersion /\ late' = NoRequest
      /\ UNCHANGED <<cache, decided, asked, queue, waiting, pc, job>>
      /\ Wrote(Route(late.body)) \/ UNCHANGED <<route, pending>>
  BY DEF LateRequestLands, decisions, work
<1>2. Version(Route(late.body), asked)
  BY <1>1, RequestMakesVersion DEF IInv, CopiesInv
<1>3. /\ Version(route', asked)
      /\ \A i \in DOMAIN pending' : Version(pending'[i], asked)
      /\ LagInv'
  <2>1. CASE Wrote(Route(late.body))
    BY <1>1, <1>2, <2>1, WroteKeeps
  <2>2. CASE UNCHANGED <<route, pending>>
    BY <2>2 DEF IInv, CopiesInv, LagInv
  <2> QED
    BY <1>1, <2>1, <2>2
<1>4. CopiesInv'
  BY <1>1, <1>3 DEF IInv, CopiesInv
<1>5. DecidedInv' /\ PlacesInv'
  BY <1>1 DEF IInv, DecidedInv, PlacesInv, Running
<1> QED
  BY <1>3, <1>4, <1>5 DEF IInv

\* The cache moves on to a version that was legitimate all the time it was under way.
LEMMA DeliverKeeps ==
  ASSUME IInv, Deliver
  PROVE  IInv'
<1>1. /\ pending # <<>> /\ cache' = Head(pending) /\ pending' = Tail(pending)
      /\ UNCHANGED <<route, decided, asked, queue, waiting, pc, job, late>>
  BY DEF Deliver, decisions, work
<1>2. /\ pending \in Seq(Range(pending)) /\ Len(pending) <= MaxLag
      /\ \A i \in DOMAIN pending : Version(pending[i], asked)
  BY DEF IInv, LagInv, CopiesInv
<1>3. /\ pending' \in Seq(Range(pending')) /\ Len(pending') = Len(pending) - 1 /\ Len(pending) \in Nat
      /\ \E j \in DOMAIN pending : cache' = pending[j]
      /\ \A i \in DOMAIN pending' : \E j \in DOMAIN pending : pending'[i] = pending[j]
  BY <1>1, <1>2, LagTail
<1>4. LagInv'
  BY <1>2, <1>3, WeighterAssumption DEF LagInv
<1>5. CopiesInv'
  BY <1>1, <1>2, <1>3 DEF IInv, CopiesInv
<1>6. DecidedInv' /\ PlacesInv'
  BY <1>1 DEF IInv, DecidedInv, PlacesInv, Running
<1> QED
  BY <1>4, <1>5, <1>6 DEF IInv

\* A policy that falls due moves to the end of the queue.
LEMMA DueKeeps ==
  ASSUME IInv, NEW p \in Policies, Due(p)
  PROVE  IInv'
<1>1. /\ p \in waiting /\ waiting' = waiting \ {p} /\ queue' = Append(queue, p)
      /\ UNCHANGED <<route, cache, pending, decided, asked, pc, job, late>>
  BY DEF Due, watch, decisions
<1>2. /\ queue \in Seq(Policies) /\ waiting \subseteq Policies
      /\ \A i, j \in 1..Len(queue) : queue[i] = queue[j] => i = j
      /\ Range(queue) \cup waiting \cup Running = Policies
      /\ Range(queue) \cap waiting = {} /\ (Range(queue) \cup waiting) \cap Running = {}
  BY DEF IInv, PlacesInv
<1>3. p \notin Range(queue) /\ Running' = Running
  BY <1>1, <1>2 DEF Running
<1>4. /\ queue' \in Seq(Policies) /\ Range(queue') = Range(queue) \cup {p}
      /\ \A i, j \in 1..Len(queue') : queue'[i] = queue'[j] => i = j
  <2>1. queue' \in Seq(Policies) /\ Range(queue') = Range(queue) \cup {p}
    BY <1>1, <1>2, AppendPlaces
  <2>2. \A i, j \in 1..Len(queue') : queue'[i] = queue'[j] => i = j
    BY <1>1, <1>2, <1>3, AppendOnce
  <2> QED
    BY <2>1, <2>2
<1>5. PlacesInv'
  <2>1. waiting' \subseteq Policies /\ Range(queue') \cup waiting' \cup Running' = Policies
    BY <1>1, <1>2, <1>3, <1>4
  <2>2. Range(queue') \cap waiting' = {} /\ (Range(queue') \cup waiting') \cap Running' = {}
    BY <1>1, <1>2, <1>3, <1>4
  <2> QED
    BY <1>1, <1>4, <2>1, <2>2 DEF IInv, PlacesInv
<1>6. CopiesInv' /\ DecidedInv' /\ LagInv'
  BY <1>1 DEF IInv, CopiesInv, DecidedInv, LagInv
<1> QED
  BY <1>5, <1>6 DEF IInv

\* What users write is a manifest, or no route at all.
LEMMA EditKeeps ==
  ASSUME IInv, EditRoute
  PROVE  IInv'
<1>1. /\ RoomForVersion /\ UNCHANGED <<cache, decided, asked, queue, waiting, pc, job, late>>
      /\ \E r \in {Route(m) : m \in Manifests} \cup {NoRoute} : Wrote(r)
  BY DEF EditRoute, decisions, work
<1>2. PICK r \in {Route(m) : m \in Manifests} \cup {NoRoute} : Wrote(r)
  BY <1>1
<1>3. Version(r, asked)
  BY ManifestLegit, RouteFields DEF Version
<1>4. /\ Version(route', asked)
      /\ \A i \in DOMAIN pending' : Version(pending'[i], asked)
      /\ LagInv'
  BY <1>1, <1>2, <1>3, WroteKeeps
<1>5. CopiesInv'
  BY <1>1, <1>4 DEF IInv, CopiesInv
<1>6. DecidedInv' /\ PlacesInv'
  BY <1>1 DEF IInv, DecidedInv, PlacesInv, Running
<1> QED
  BY <1>4, <1>5, <1>6 DEF IInv

\* A new process reads the server's version and queues everybody once.
LEMMA CrashKeeps ==
  ASSUME IInv, CrashAndRestart
  PROVE  IInv'
<1>1. /\ pending' = <<>> /\ cache' = route /\ pc' = "idle" /\ job' = NoRequest
      /\ queue' \in Orders /\ waiting' = {}
      /\ late' = late \/ late' = job
      /\ UNCHANGED <<route, decided, asked>>
  BY DEF CrashAndRestart, decisions
<1>2. DOMAIN pending' = {} /\ LagInv'
  BY <1>1, EmptySeq, WeighterAssumption DEF LagInv
<1>3. late' = NoRequest \/ Request(late', asked)
  BY <1>1 DEF IInv, CopiesInv
<1>4. CopiesInv'
  BY <1>1, <1>2, <1>3 DEF IInv, CopiesInv
<1>5. PlacesInv'
  <2>1. /\ queue' \in Seq(Policies) /\ Range(queue') = Policies
        /\ \A i, j \in 1..Len(queue') : queue'[i] = queue'[j] => i = j
    BY <1>1, OrdersPlaces
  <2>2. Running' = {}
    BY <1>1 DEF Running
  <2> QED
    BY <1>1, <2>1, <2>2 DEF PlacesInv
<1>6. DecidedInv'
  BY <1>1 DEF IInv, DecidedInv
<1> QED
  BY <1>2, <1>4, <1>5, <1>6 DEF IInv

\* Every step keeps it.
LEMMA NextIInv == IInv /\ [Next]_vars => IInv'
<1> SUFFICES ASSUME IInv, [Next]_vars PROVE IInv'
  OBVIOUS
<1>1. CASE Worker
  BY <1>1, BeginKeeps, PatchKeeps DEF Worker
<1>2. CASE UNCHANGED vars
  BY <1>2 DEF vars, IInv, CopiesInv, DecidedInv, LagInv, PlacesInv, Running
<1> QED
  BY <1>1, <1>2, DeliverKeeps, LateKeeps, DueKeeps, EditKeeps, CrashKeeps DEF Next

\* So it holds in every state the program reaches.
THEOREM Invariance == Spec => []IInv
  BY InitIInv, NextIInv, PTL DEF Spec

----------------------------------------------------------------------------
(* The promises                                                            *)

\* A queue without duplicates is as long as it has elements.
LEMMA QueueLength ==
  ASSUME NEW s, NEW T, s \in Seq(T), \A i, j \in 1..Len(s) : s[i] = s[j] => i = j
  PROVE  Len(s) = Cardinality(Range(s))
<1>1. Len(s) \in Nat /\ DOMAIN s = 1..Len(s) /\ s \in [1..Len(s) -> T]
  BY LenProperties
<1>2. IsFiniteSet(1..Len(s)) /\ Cardinality(1..Len(s)) = Len(s)
  BY <1>1, FS_Interval
<1>3. s \in Surjection(1..Len(s), Range(s))
  BY <1>1 DEF Surjection, Range
<1>4. s \in Injection(1..Len(s), Range(s))
  BY <1>1, <1>3 DEF Surjection, Injection, IsInjective
<1> QED
  BY <1>2, <1>3, <1>4, FS_Surjection

\* Every variable has its type, the cache is at most MaxLag versions behind, and a policy
\* is at all times in exactly one of the queue, the timers and the worker's hands,
\* through requests that fail, processes that crash and takeovers: none is lost and
\* none is reconciled twice at once.
THEOREM TypeCorrect == Spec => []TypeOK
<1>1. IInv => TypeOK
  <2> SUFFICES ASSUME IInv PROVE TypeOK
    OBVIOUS
  <2>1. ASSUME NEW r, Version(r, asked)
        PROVE  IsRoute(r)
    BY <2>1 DEF Version, Legit, IsRoute
  <2>2. IsRoute(route) /\ IsRoute(cache) /\ \A r \in Range(pending) : IsRoute(r)
    BY <2>1 DEF IInv, CopiesInv, Range
  <2>3. Len(pending) <= MaxLag
    BY DEF IInv, LagInv
  <2>4. pc = "idle" <=> job = NoRequest
    BY RequestFields DEF IInv, CopiesInv, Request
  <2>5. Len(queue) = Cardinality(Range(queue))
    BY QueueLength DEF IInv, PlacesInv
  <2> QED
    BY <2>2, <2>3, <2>4, <2>5 DEF TypeOK, IInv, DecidedInv, PlacesInv
<1> QED
  BY <1>1, Invariance, PTL

\* Whatever stale copies the other policies' patches are made of, and whenever they
\* arrive, all rules carry one whole allocation of a policy or its weights as one manifest
\* gives them, as long as no other policy names one of its backends, whatever the others
\* share between them: httproute.go's read, change and merge patch never mixes two decisions.
THEOREM NoMixedAllocation == Spec => []AllocationsWhole
<1>1. IInv => AllocationsWhole
  <2> SUFFICES ASSUME IInv, route.exists, NEW p \in Policies, Apart(p)
               PROVE  \/ \E a \in asked[p] : Carries(route, a)
                      \/ \E m \in Manifests : SeenBy(Backends(p), route.rules) = SeenBy(Backends(p), m)
    BY DEF AllocationsWhole
  <2>1. route = Route(route.rules) /\ Legit(route.rules, asked)
    BY RouteFields DEF IInv, CopiesInv, Version
  <2> QED
    BY <2>1 DEF Legit, WholeFor
<1> QED
  BY <1>1, Invariance, PTL

----------------------------------------------------------------------------
(* What no policy manages                                                  *)

\* Rewriting leaves the rest of a list as it was.
LEMMA RewrittenRest ==
  ASSUME NEW rules, IsRules(rules), NEW p \in Policies, NEW a \in Allocations[p]
  PROVE  Rest(Rewritten(rules, a)) = Rest(rules)
<1> DEFINE others == NamesIn(rules) \ Managed
<1>1. a \in [Backends(p) -> 0..100] /\ others \cap Backends(p) = {}
  BY WeighterAssumption DEF Managed
<1>2. NamesIn(Rewritten(rules, a)) = NamesIn(rules)
  BY <1>1, RewrittenKeeps
<1> HIDE DEF others
<1>3. SeenBy(others, Rewritten(rules, a)) = SeenBy(others, rules)
  BY <1>1, UnseenByOthers
<1> QED
  BY <1>2, <1>3 DEF Rest, NamesIn, others

\* What the copies of a state hold, by their places.
LEMMA HeldByPlace ==
  ASSUME IInv, NEW x
  PROVE  x \in RestsHeld <=>
           \/ \E c \in {route, cache} \cup Range(pending) : c.exists /\ x = Rest(c.rules)
           \/ \E j \in {job, late} \ {NoRequest} : x = Rest(j.body)
  BY RouteFields DEF RestsHeld, Copies

\* The same of the next state.
LEMMA HeldNext ==
  ASSUME NEW x
  PROVE  x \in RestsHeld' <=>
           \/ \E c \in {route', cache'} \cup Range(pending') : c.exists /\ x = Rest(c.rules)
           \/ \E j \in {job', late'} \ {NoRequest} : x = Rest(j.body)
  BY RouteFields DEF RestsHeld, Copies

\* A list of versions with one more, or one fewer.
LEMMA VersionsNext ==
  ASSUME IInv
  PROVE  /\ \A r : pending' = Append(pending, r) => Range(pending') \subseteq Range(pending) \cup {r}
         /\ pending # <<>> =>
              Head(pending) \in Range(pending) /\ Range(Tail(pending)) \subseteq Range(pending)
<1>1. pending \in Seq(Range(pending))
  BY DEF IInv, LagInv
<1>2. ASSUME NEW r, pending' = Append(pending, r)
      PROVE  Range(pending') \subseteq Range(pending) \cup {r}
  BY <1>1, <1>2, LagAppend DEF Range
<1>3. ASSUME pending # <<>>
      PROVE  Head(pending) \in Range(pending) /\ Range(Tail(pending)) \subseteq Range(pending)
  BY <1>1, <1>3, LagTail DEF Range
<1> QED
  BY <1>2, <1>3

\* The body an Apply makes of the cache has the cache's rest.
LEMMA BeginHolds ==
  ASSUME IInv, BeginApply
  PROVE  /\ UNCHANGED <<route, cache, pending, late>>
         /\ job' = job \/ (cache.exists /\ job' # NoRequest /\ Rest(job'.body) = Rest(cache.rules))
<1> DEFINE p == Head(queue)
           a == decided'[p]
           body == Rewritten(cache.rules, a)
<1>1. /\ queue # <<>> /\ Decide(p) /\ UNCHANGED <<route, cache, pending, late>>
      /\ job' = job \/ (cache.exists /\ job' = [policy |-> p, body |-> body])
  BY DEF BeginApply, watch
<1>2. p \in Policies
  BY <1>1, TailPlaces DEF IInv, PlacesInv
<1>3. a \in Allocations[p]
  <2>1. DOMAIN decided = Policies /\ decided[p] \in Allocations[p]
    BY <1>2 DEF IInv, DecidedInv
  <2> HIDE DEF p
  <2> QED
    BY <1>1, <1>2, <2>1 DEF Decide
<1> HIDE DEF p, a
<1>4. cache.exists => Rest(body) = Rest(cache.rules)
  <2> SUFFICES ASSUME cache.exists PROVE Rest(body) = Rest(cache.rules)
    OBVIOUS
  <2>1. IsRules(cache.rules)
    BY RouteFields DEF IInv, CopiesInv, Version, Legit
  <2> QED
    BY <1>2, <1>3, <2>1, RewrittenRest
<1> QED
  BY <1>1, <1>4, RequestFields

\* The edits left are a number.
LEMMA EditsCounted == Spec => [](edits \in Nat)
<1>1. Init => edits \in Nat
  BY WeighterAssumption DEF Init
<1>2. edits \in Nat /\ [Next]_vars => (edits \in Nat)'
  <2> SUFFICES ASSUME edits \in Nat, [Next]_vars PROVE edits' \in Nat
    OBVIOUS
  <2>1. CASE EditRoute
    BY <2>1 DEF EditRoute
  <2>2. CASE ~EditRoute
    BY <2>2 DEF Next, Worker, BeginApply, Patch, PatchFails, Deliver, LateRequestLands, Due,
                CrashAndRestart, vars
  <2> QED
    BY <2>1, <2>2
<1> QED
  BY <1>1, <1>2, PTL DEF Spec

\* No step but a user's makes a version of the rest that no copy held.
LEMMA RestsKept ==
  ASSUME IInv, Next, edits \in Nat, edits' = edits
  PROVE  RestsHeld' \subseteq RestsHeld
<1> SUFFICES ASSUME NEW x \in RestsHeld' PROVE x \in RestsHeld
  OBVIOUS
<1> DEFINE Held(c) == c.exists => Rest(c.rules) \in RestsHeld
           Asked(j) == j # NoRequest => Rest(j.body) \in RestsHeld
<1>1. /\ Held(route) /\ Held(cache) /\ \A c \in Range(pending) : Held(c)
      /\ Asked(job) /\ Asked(late)
  BY HeldByPlace
<1>2. \A j : j # NoRequest /\ Asked(j) => Held(Route(j.body))
  BY RouteFields
<1>3. \/ \E c \in {route', cache'} \cup Range(pending') : c.exists /\ x = Rest(c.rules)
      \/ \E j \in {job', late'} \ {NoRequest} : x = Rest(j.body)
  BY HeldNext
<1>4. SUFFICES /\ Held(route') /\ Held(cache') /\ \A c \in Range(pending') : Held(c)
               /\ Asked(job') /\ Asked(late')
  BY <1>3
<1>5. \A r : Wrote(r) /\ Held(r) => Held(route') /\ \A c \in Range(pending') : Held(c)
  <2> HIDE DEF Held
  <2> QED
    BY <1>1, VersionsNext DEF Wrote
<1>6. CASE BeginApply
  BY <1>1, <1>6, BeginHolds
<1> HIDE DEF Held, Asked
<1>7. CASE Patch \/ PatchFails
  <2>1. /\ pc = "patch" /\ cache' = cache /\ job' = NoRequest
        /\ late' = late \/ late' = job
        /\ Wrote(Route(job.body)) \/ UNCHANGED <<route, pending>>
    BY <1>7 DEF Patch, PatchFails, Returned
  <2>2. job # NoRequest
    BY <2>1, RequestFields DEF IInv, CopiesInv, Request
  <2> QED
    BY <1>1, <1>2, <1>5, <2>1, <2>2 DEF Asked
<1>8. CASE LateRequestLands
  <2>1. /\ late # NoRequest /\ late' = NoRequest /\ cache' = cache /\ job' = job
        /\ Wrote(Route(late.body)) \/ UNCHANGED <<route, pending>>
    BY <1>8 DEF LateRequestLands
  <2> QED
    BY <1>1, <1>2, <1>5, <2>1 DEF Asked
<1>9. CASE Deliver
  <2>1. /\ pending # <<>> /\ cache' = Head(pending) /\ pending' = Tail(pending)
        /\ UNCHANGED <<route, job, late>>
    BY <1>9 DEF Deliver
  <2> QED
    BY <1>1, <2>1, VersionsNext
<1>10. CASE CrashAndRestart
  <2>1. /\ pending' = <<>> /\ cache' = route /\ route' = route /\ job' = NoRequest
        /\ late' = late \/ late' = job
    BY <1>10 DEF CrashAndRestart
  <2>2. Range(pending') = {}
    BY <2>1, EmptySeq DEF Range
  <2> QED
    BY <1>1, <2>1, <2>2 DEF Asked
<1>11. ASSUME NEW p \in Policies, Due(p)
       PROVE  UNCHANGED <<route, cache, pending, job, late>>
  BY <1>11 DEF Due, watch
<1>12. ~EditRoute
  BY DEF EditRoute
<1> QED
  BY <1>1, <1>6, <1>7, <1>8, <1>9, <1>10, <1>11, <1>12 DEF Next, Worker

\* A merge patch of the whole list may bring back an old version of what no policy manages,
\* but only one that the cache, an event on its way to it or a request still holds: an edit
\* they all have is never undone, and no version of the controller's own is ever made.
THEOREM EditsStay == Spec => SeenEditsStay
<1>1. IInv /\ edits \in Nat /\ [Next]_vars => [edits' = edits => RestsHeld' \subseteq RestsHeld]_vars
  BY RestsKept
<1> QED
  BY <1>1, Invariance, EditsCounted, PTL DEF Spec, SeenEditsStay
=============================================================================
