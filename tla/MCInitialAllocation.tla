------------------------ MODULE MCInitialAllocation ------------------------
(* Bounded instance of InitialAllocation: every list of two or three        *)
(* backends whose bounds are among a few pairs, and lists of other shapes   *)
(* that must be rejected.                                                   *)
EXTENDS InitialAllocation

CONSTANT Ranges    \* the <<minWeight, maxWeight>> pairs tried

Declare(name, range) == [name |-> name, min |-> range[1], max |-> range[2]]

MCRanges == {<<0, 100>>, <<0, 50>>, <<0, 33>>, <<0, 0>>, <<10, 33>>, <<10, 43>>,
             <<20, 70>>, <<33, 34>>, <<33, 100>>, <<50, 50>>, <<80, 20>>}

MCSpecs ==
  {<<Declare(1, p), Declare(2, q), Declare(3, r)>> : p, q, r \in Ranges}
  \cup {<<Declare(1, p), Declare(2, q)>> : p, q \in Ranges}
  \cup {<<Declare(1, p)>> : p \in Ranges}
  \cup {<<Declare(1, p), Declare(2, p), Declare(1, q)>> : p, q \in Ranges}
=============================================================================
