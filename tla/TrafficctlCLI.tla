--------------------------- MODULE TrafficctlCLI ---------------------------
(***************************************************************************)
(* internal/cli/cli.go: freeze and resume.  togglePaused reads the policy  *)
(* from the API server, returns at once if it is as asked, and otherwise   *)
(* sends a merge patch made of its copy; two users, and people who edit    *)
(* the policy by other means, do so at the same time.  list and status     *)
(* only read.                                                              *)
(***************************************************************************)
EXTENDS Naturals

CONSTANTS
  Users,
  Settings,    \* everything in the spec but .spec.paused
  MaxEdits,    \* writes by other hands: edits, deletions, creations, abandoned patches
  MaxFaults    \* failed calls

ASSUME CLIAssumption == MaxEdits \in Nat /\ MaxFaults \in Nat

VARIABLES
  policy,      \* the TrafficPolicy on the API server
  pc,          \* per user: "idle", "get", "patch", "done" (success reported), "failed"
  want,        \* per user, the value the command sets
  copy,        \* per user, the policy as Get returned it
  stray,       \* patches given up by their senders and still on their way
  edits, faults

calls == <<pc, want, copy>>
vars  == <<policy, pc, want, copy, stray, edits, faults>>

Policies == [live : BOOLEAN, paused : BOOLEAN, rest : Settings]
Pending  == {"get", "patch"}

Init ==
  /\ policy \in Policies
  /\ pc = [u \in Users |-> "idle"]
  /\ want \in [Users -> BOOLEAN]
  /\ copy = [u \in Users |-> policy]
  /\ stray = {}
  /\ edits = MaxEdits /\ faults = MaxFaults

\* newFreezeCommand, newResumeCommand
Invoke(u, v) ==
  /\ pc[u] \notin Pending
  /\ pc' = [pc EXCEPT ![u] = "get"]
  /\ want' = [want EXCEPT ![u] = v]
  /\ UNCHANGED <<policy, copy, stray, edits, faults>>

Return(u, answer) == pc' = [pc EXCEPT ![u] = answer]

GetMissing(u) ==
  /\ pc[u] = "get" /\ ~policy.live
  /\ Return(u, "failed")
  /\ UNCHANGED <<policy, want, copy, stray, edits, faults>>

NothingToDo(u) ==
  /\ pc[u] = "get" /\ policy.live /\ policy.paused = want[u]
  /\ Return(u, "done")
  /\ UNCHANGED <<policy, want, copy, stray, edits, faults>>

\* Mutant of Get: patches what is as asked already.
GetAnyway(u) ==
  /\ pc[u] = "get" /\ policy.live
  /\ copy' = [copy EXCEPT ![u] = policy]
  /\ pc' = [pc EXCEPT ![u] = "patch"]
  /\ UNCHANGED <<policy, want, stray, edits, faults>>

Get(u) ==
  /\ pc[u] = "get" /\ policy.live /\ policy.paused # want[u]
  /\ copy' = [copy EXCEPT ![u] = policy]
  /\ pc' = [pc EXCEPT ![u] = "patch"]
  /\ UNCHANGED <<policy, want, stray, edits, faults>>

GetFails(u) ==
  /\ pc[u] = "get"
  /\ faults > 0 /\ faults' = faults - 1
  /\ Return(u, "failed")
  /\ UNCHANGED <<policy, want, copy, stray, edits>>

\* Mutants of Merge: the whole copy sent as an update; the switch thrown whatever its
\* position; the original an alias of the modified object.
Update(current, original, modified) == [modified EXCEPT !.live = current.live]
Flip(current, original, modified) == [current EXCEPT !.paused = ~current.paused]
MergeAliased(current, original, modified) == current

\* A merge patch carries the fields in which the modified copy differs from the original.
Merge(current, original, modified) ==
  [live   |-> current.live,
   paused |-> IF modified.paused # original.paused THEN modified.paused ELSE current.paused,
   rest   |-> IF modified.rest # original.rest THEN modified.rest ELSE current.rest]

Patched(u) == Merge(policy, copy[u], [copy[u] EXCEPT !.paused = want[u]])

Patch(u) ==
  /\ pc[u] = "patch"
  /\ IF policy.live THEN policy' = Patched(u) /\ Return(u, "done")
                    ELSE UNCHANGED policy /\ Return(u, "failed")
  /\ UNCHANGED <<want, copy, stray, edits, faults>>

\* The call fails: the server has carried it out or not, or will only later.
PatchFails(u) ==
  /\ pc[u] = "patch"
  /\ faults > 0 /\ faults' = faults - 1
  /\ Return(u, "failed")
  /\ \/ UNCHANGED <<policy, stray>>
     \/ policy.live /\ policy' = Patched(u) /\ UNCHANGED stray
     \/ stray' = stray \cup {want[u]} /\ UNCHANGED policy
  /\ UNCHANGED <<want, copy, edits>>

\* An abandoned patch sets the value it was made to set, and counts as another hand's write.
StrayLands(v) ==
  /\ v \in stray
  /\ edits > 0 /\ edits' = edits - 1
  /\ stray' = stray \ {v}
  /\ policy' = IF policy.live THEN [policy EXCEPT !.paused = v] ELSE policy
  /\ UNCHANGED <<calls, faults>>

\* kubectl edit, apply, delete, create
Edit ==
  /\ edits > 0 /\ edits' = edits - 1
  /\ policy' \in Policies \ {policy}
  /\ UNCHANGED <<calls, stray, faults>>

Next ==
  \/ \E u \in Users :
       \/ \E v \in BOOLEAN : Invoke(u, v)
       \/ GetMissing(u) \/ NothingToDo(u) \/ Get(u) \/ GetFails(u)
       \/ Patch(u) \/ PatchFails(u)
  \/ \E v \in BOOLEAN : StrayLands(v)
  \/ Edit

Spec == Init /\ [][Next]_vars

----------------------------------------------------------------------------
(* Properties                                                              *)

\* Every variable has its type, and a patch under way has something to change.
TypeOK ==
  /\ policy \in Policies
  /\ pc \in [Users -> {"idle", "get", "patch", "done", "failed"}]
  /\ want \in [Users -> BOOLEAN]
  /\ copy \in [Users -> Policies]
  /\ stray \subseteq BOOLEAN
  /\ edits \in 0..MaxEdits /\ faults \in 0..MaxFaults
  /\ \A u \in Users : pc[u] = "patch" => copy[u].paused # want[u]

\* cli.go "Uses a merge patch so unrelated in-flight changes to the spec aren't stomped":
\* however old the copy a command patches from, only an edit changes the other fields.
EditsKept == [][Edit \/ (policy'.rest = policy.rest /\ policy'.live = policy.live)]_vars

\* When every user's last command has reported success and they all asked for the
\* same, the policy is as they asked, however the commands overlapped with
\* each other and with earlier ones, failed ones included; as long as no other hand wrote it.
AgreementHolds ==
  \A v \in BOOLEAN :
    (Users # {} /\ edits = MaxEdits /\ policy.live
       /\ \A u \in Users : pc[u] = "done" /\ want[u] = v)
      => policy.paused = v

Switch == INSTANCE PauseSwitch WITH
  live   <- policy.live,
  paused <- policy.paused,
  rest   <- policy.rest,
  call   <- [u \in Users |-> IF pc[u] \in Pending THEN "open" ELSE pc[u]]

\* Read and patch together are one step that sets one switch at some moment of
\* the call, or the call reports an error.
ImplementsSwitch == Switch!Spec
=============================================================================
