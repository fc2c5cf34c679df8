-------------------------- MODULE MCRouteWeighter --------------------------
(* Bounded instance of RouteWeighter: two policies over two backends each,  *)
(* a route with two rules and a backendRef that is nobody's.                *)
EXTENDS RouteWeighter, TLC

MCAllocations ==
  [p |-> {(1 :> 50) @@ (2 :> 50), (1 :> 49) @@ (2 :> 51)},
   q |-> {(3 :> 100), (3 :> 90)}]

Ref(n, w) == [name |-> n, weight |-> w]

MCManifests ==
  {<< <<Ref(1, Unset), Ref(2, Unset)>>, <<Ref(3, 1), Ref(2, Unset), Ref(9, 5)>> >>,
   << <<Ref(1, 10), Ref(2, 90)>>, <<Ref(3, 1), Ref(2, 90), Ref(9, 7)>> >>}
=============================================================================
