----------------------------- MODULE Allocation -----------------------------
(***************************************************************************)
(* validateSpec and initialWeights of                                      *)
(* internal/controller/trafficpolicy_controller.go as operators over a     *)
(* list of backends: a sequence of [name, min, max] records.               *)
(***************************************************************************)
EXTENDS Integers, Sequences, FiniteSets, Functions

\* Every allocation adds up to this.
Full == 100

\* The API server admits no empty name and no bound outside 0..100.
IsBackend(b) == b.min \in 0..Full /\ b.max \in 0..Full

IsBackends(bs) == bs \in Seq(Range(bs)) /\ \A i \in DOMAIN bs : IsBackend(bs[i])

Named(bs) == {bs[i].name : i \in DOMAIN bs}

\* Sums over the positions of the list, as the loops of the code add them up.
MinSum(bs) == SumFunction([i \in DOMAIN bs |-> bs[i].min])
MaxSum(bs) == SumFunction([i \in DOMAIN bs |-> bs[i].max])

\* Mutant of ValidSpec: inverted bounds let through.
ValidSpecAnyRange(bs) ==
  /\ Len(bs) >= 2
  /\ Cardinality(Named(bs)) = Len(bs)
  /\ MinSum(bs) <= Full
  /\ MaxSum(bs) >= Full

ValidSpec(bs) ==
  /\ Len(bs) >= 2
  /\ Cardinality(Named(bs)) = Len(bs)
  /\ \A i \in DOMAIN bs : bs[i].min <= bs[i].max
  /\ MinSum(bs) <= Full
  /\ MaxSum(bs) >= Full

----------------------------------------------------------------------------
(* initialWeights: minimums first, then the remainder in proportion to the *)
(* headrooms, largest remainder first.                                     *)

Headroom(bs, i)   == bs[i].max - bs[i].min
TotalHead(bs) == MaxSum(bs) - MinSum(bs)
Remainder(bs) == Full - MinSum(bs)

\* The early return: nothing left to hand out, or nobody to hand it to.
MinimumsOnly(bs) == Remainder(bs) <= 0 \/ TotalHead(bs) <= 0

\* int32(exact) and exact - float64(whole), the fraction in units of 1/TotalHead.
Whole(bs, i) == (Remainder(bs) * Headroom(bs, i)) \div TotalHead(bs)
Frac(bs, i)  == (Remainder(bs) * Headroom(bs, i)) % TotalHead(bs)

\* The order of sort.SliceStable.  Equal fractions of equal headrooms are equal
\* float64s and keep their positions; equal fractions of different headrooms are
\* rounded apart either way, so neither is before the other.
Before(bs, i, j) ==
  \/ Frac(bs, i) > Frac(bs, j)
  \/ Frac(bs, i) = Frac(bs, j) /\ Headroom(bs, i) = Headroom(bs, j) /\ i < j

Leftover(bs) == Remainder(bs) - SumFunction([i \in DOMAIN bs |-> Whole(bs, i)])

\* The positions with room for one more point, and the ones the loop serves.
Roomy(bs) == {i \in DOMAIN bs : bs[i].min + Whole(bs, i) < bs[i].max}

ServedSets(bs) ==
  {S \in SUBSET Roomy(bs) :
     /\ \/ Cardinality(S) = Leftover(bs)
        \/ S = Roomy(bs) /\ Cardinality(S) < Leftover(bs)
     /\ \A i \in S, j \in Roomy(bs) \ S : ~Before(bs, j, i)}

\* The name-to-weight function of a weight per position.
ByName(bs, w) == [n \in Named(bs) |-> w[CHOOSE i \in DOMAIN bs : bs[i].name = n]]

\* Every allocation initialWeights may return for a valid list.
InitialWeights(bs) ==
  IF MinimumsOnly(bs) THEN {ByName(bs, [i \in DOMAIN bs |-> bs[i].min])} ELSE
  {ByName(bs, [i \in DOMAIN bs |-> bs[i].min + Whole(bs, i) + IF i \in S THEN 1 ELSE 0]) :
     S \in ServedSets(bs)}
=============================================================================
