------------------------- MODULE InitialAllocation -------------------------
(***************************************************************************)
(* The way of a spec through validateSpec and initialWeights, as a state   *)
(* machine: one action for each verdict, for handing out the whole shares, *)
(* and for each iteration of the loop that hands out the points rounding   *)
(* left over.                                                              *)
(***************************************************************************)
EXTENDS Allocation

CONSTANT Specs    \* the backend lists the machine is started with

ASSUME SpecsAreTyped == \A bs \in Specs : IsBackends(bs)

VARIABLES
  backends,   \* spec.backends
  pc,         \* "validate", "allocate", "leftover", then "rejected" or "done"
  weights,    \* weights[i].Weight
  leftover,   \* points still to hand out
  shares      \* the positions the loop has not come to yet

vars == <<backends, pc, weights, leftover, shares>>

Init ==
  /\ backends \in Specs
  /\ pc = "validate"
  /\ weights = [i \in DOMAIN backends |-> backends[i].min]
  /\ leftover = 0
  /\ shares = {}

Validate ==
  /\ pc = "validate"
  /\ pc' = IF ValidSpec(backends) THEN "allocate" ELSE "rejected"
  /\ UNCHANGED <<backends, weights, leftover, shares>>

KeepMinimums ==
  /\ pc = "allocate"
  /\ MinimumsOnly(backends)
  /\ pc' = "done"
  /\ UNCHANGED <<backends, weights, leftover, shares>>

AssignWhole ==
  /\ pc = "allocate"
  /\ ~MinimumsOnly(backends)
  /\ weights' = [i \in DOMAIN backends |-> weights[i] + Whole(backends, i)]
  /\ leftover' = Leftover(backends)
  /\ shares' = DOMAIN backends
  /\ pc' = IF leftover' = 0 THEN "done" ELSE "leftover"
  /\ UNCHANGED backends

\* Mutants of Serve: the break forgotten, the sort forgotten, a backend served again.
ServeOn(i) ==
  /\ pc = "leftover"
  /\ \A j \in shares : ~Before(backends, j, i)
  /\ weights' = [weights EXCEPT ![i] = @ + 1]
  /\ leftover' = leftover - 1
  /\ shares' = shares \ {i}
  /\ UNCHANGED <<backends, pc>>

ServeUnsorted(i) ==
  /\ pc = "leftover"
  /\ leftover # 0
  /\ weights' = [weights EXCEPT ![i] = @ + 1]
  /\ leftover' = leftover - 1
  /\ shares' = shares \ {i}
  /\ UNCHANGED <<backends, pc>>

ServeAgain(i) ==
  /\ pc = "leftover"
  /\ leftover # 0
  /\ \A j \in shares : ~Before(backends, j, i)
  /\ weights' = [weights EXCEPT ![i] = @ + 1]
  /\ leftover' = leftover - 1
  /\ UNCHANGED <<backends, pc, shares>>

\* The iteration that comes to position i.
Serve(i) ==
  /\ pc = "leftover"
  /\ leftover # 0
  /\ \A j \in shares : ~Before(backends, j, i)
  /\ IF weights[i] < backends[i].max
       THEN /\ weights' = [weights EXCEPT ![i] = @ + 1]
            /\ leftover' = leftover - 1
       ELSE UNCHANGED <<weights, leftover>>
  /\ shares' = shares \ {i}
  /\ UNCHANGED <<backends, pc>>

Return ==
  /\ pc = "leftover"
  /\ leftover = 0 \/ shares = {}
  /\ pc' = "done"
  /\ UNCHANGED <<backends, weights, leftover, shares>>

Next == Validate \/ KeepMinimums \/ AssignWhole \/ Return \/ \E i \in shares : Serve(i)

Spec == Init /\ [][Next]_vars

----------------------------------------------------------------------------
(* Properties                                                              *)

\* Every variable has its type; the points still to hand out never go negative.
TypeOK ==
  /\ backends \in Specs
  /\ pc \in {"validate", "allocate", "leftover", "rejected", "done"}
  /\ weights \in [DOMAIN backends -> Nat]
  /\ leftover \in Nat
  /\ shares \subseteq DOMAIN backends

\* types.go "weights across backends always sum to 100": the rounding loop never
\* runs out of backends with room before it runs out of points.
SumsToFull == pc = "done" => SumFunction(weights) = Full

\* "each backend gets its minWeight": no rounding takes a backend out of its bounds.
WithinBounds ==
  pc \in {"leftover", "done"} =>
    \A i \in DOMAIN backends : backends[i].min <= weights[i] /\ weights[i] <= backends[i].max

\* "distributed proportionally to each backend's headroom": a backend gets its
\* exact share rounded down or up, never a point more or less.
Proportional ==
  pc = "done" /\ ~MinimumsOnly(backends) =>
    \A i \in DOMAIN backends :
      LET given == (weights[i] - backends[i].min) * TotalHead(backends)
          exact == Remainder(backends) * Headroom(backends, i)
      IN  given - exact < TotalHead(backends) /\ exact - given < TotalHead(backends)

\* Only a list the validation accepts gets weights, and what it gets is one of the
\* results the operator InitialWeights allows.
LoopIsInitialWeights ==
  pc = "done" => ValidSpec(backends) /\ ByName(backends, weights) \in InitialWeights(backends)
=============================================================================
