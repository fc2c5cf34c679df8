---------------------------- MODULE PauseSwitch ----------------------------
(***************************************************************************)
(* What `trafficctl freeze' and `trafficctl resume' promise: one switch in *)
(* a policy, set in one step at some moment of the call, with the rest of  *)
(* the policy left to whoever edits it.  A call that reports an error has  *)
(* set the switch, or not, or will have set it some time later.            *)
(***************************************************************************)
CONSTANTS
  Users,
  Settings     \* everything in the spec but the switch

VARIABLES
  live,        \* the policy exists
  paused,      \* the switch
  rest,        \* the other fields
  call,        \* per user: "idle", "open", "done", "failed"
  want,        \* per user, what the call asks for
  stray        \* what failed calls may still do

vars == <<live, paused, rest, call, want, stray>>

Init ==
  /\ live \in BOOLEAN /\ paused \in BOOLEAN /\ rest \in Settings
  /\ call = [u \in Users |-> "idle"]
  /\ want \in [Users -> BOOLEAN]
  /\ stray = {}

Ask(u, v) ==
  /\ call[u] # "open"
  /\ call' = [call EXCEPT ![u] = "open"]
  /\ want' = [want EXCEPT ![u] = v]
  /\ UNCHANGED <<live, paused, rest, stray>>

Set(u) ==
  /\ call[u] = "open" /\ live
  /\ call' = [call EXCEPT ![u] = "done"]
  /\ paused' = want[u]
  /\ UNCHANGED <<live, rest, want, stray>>

Fail(u) ==
  /\ call[u] = "open"
  /\ call' = [call EXCEPT ![u] = "failed"]
  /\ \/ UNCHANGED <<paused, stray>>
     \/ live /\ paused' = want[u] /\ UNCHANGED stray
     \/ stray' = stray \cup {want[u]} /\ UNCHANGED paused
  /\ UNCHANGED <<live, rest, want>>

StrayLands(v) ==
  /\ v \in stray
  /\ stray' = stray \ {v}
  /\ paused' = IF live THEN v ELSE paused
  /\ UNCHANGED <<live, rest, call, want>>

\* Somebody else edits, deletes or creates the policy.
Edit ==
  /\ live' \in BOOLEAN /\ paused' \in BOOLEAN /\ rest' \in Settings
  /\ UNCHANGED <<call, want, stray>>

Next ==
  \/ \E u \in Users : (\E v \in BOOLEAN : Ask(u, v)) \/ Set(u) \/ Fail(u)
  \/ \E v \in BOOLEAN : StrayLands(v)
  \/ Edit

Spec == Init /\ [][Next]_vars
=============================================================================
