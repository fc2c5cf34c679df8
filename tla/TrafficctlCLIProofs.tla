------------------------ MODULE TrafficctlCLIProofs ------------------------
(***************************************************************************)
(* Theorems about TrafficctlCLI, for any set of users and settings: the    *)
(* type invariant, that agreeing users get what they agree on, that edits  *)
(* by other means are kept, and the refinement of PauseSwitch.             *)
(***************************************************************************)
EXTENDS TrafficctlCLI, TLAPS

----------------------------------------------------------------------------
(* The merge patch                                                         *)

\* What a command's patch makes of the policy, when its copy differs from what it asks
\* for: the switch as asked, everything else as the server has it.
LEMMA PatchSetsSwitchOnly ==
  ASSUME TypeOK, NEW u \in Users, pc[u] = "patch"
  PROVE  /\ Patched(u) \in Policies
         /\ Patched(u).paused = want[u]
         /\ Patched(u).live = policy.live
         /\ Patched(u).rest = policy.rest
<1>1. /\ policy \in Policies /\ copy[u] \in Policies /\ want[u] \in BOOLEAN
      /\ copy[u].paused # want[u]
  BY DEF TypeOK
<1>2. [copy[u] EXCEPT !.paused = want[u]].paused = want[u]
  BY <1>1 DEF Policies
<1>3. [copy[u] EXCEPT !.paused = want[u]].rest = copy[u].rest
  BY <1>1 DEF Policies
<1>4. Patched(u) = [live |-> policy.live, paused |-> want[u], rest |-> policy.rest]
  BY <1>1, <1>2, <1>3 DEF Patched, Merge
<1> QED
  BY <1>1, <1>4 DEF Policies

----------------------------------------------------------------------------
(* Types                                                                   *)

\* Every variable has its type initially.
LEMMA InitTypeOK == Init => TypeOK
  BY CLIAssumption DEF Init, TypeOK, Policies

\* Every step of a user or of the server keeps the types.
LEMMA NextTypeOK == TypeOK /\ [Next]_vars => TypeOK'
<1> SUFFICES ASSUME TypeOK, [Next]_vars
             PROVE  TypeOK'
  OBVIOUS
<1> USE DEF TypeOK
<1>1. ASSUME NEW u \in Users, NEW v \in BOOLEAN, Invoke(u, v)
      PROVE  TypeOK'
  BY <1>1 DEF Invoke, Pending
<1>2. ASSUME NEW u \in Users, GetMissing(u)
      PROVE  TypeOK'
  BY <1>2 DEF GetMissing, Return
<1>3. ASSUME NEW u \in Users, NothingToDo(u)
      PROVE  TypeOK'
  BY <1>3 DEF NothingToDo, Return
<1>4. ASSUME NEW u \in Users, Get(u)
      PROVE  TypeOK'
  BY <1>4 DEF Get
<1>5. ASSUME NEW u \in Users, GetFails(u)
      PROVE  TypeOK'
  BY <1>5, CLIAssumption DEF GetFails, Return
<1>6. ASSUME NEW u \in Users, Patch(u)
      PROVE  TypeOK'
  <2>1. policy' \in Policies
    BY <1>6, PatchSetsSwitchOnly DEF Patch
  <2> QED
    BY <1>6, <2>1 DEF Patch, Return
<1>7. ASSUME NEW u \in Users, PatchFails(u)
      PROVE  TypeOK'
  <2>1. policy' \in Policies
    BY <1>7, PatchSetsSwitchOnly DEF PatchFails
  <2>2. stray' \subseteq BOOLEAN
    BY <1>7 DEF PatchFails
  <2> QED
    BY <1>7, <2>1, <2>2, CLIAssumption DEF PatchFails, Return
<1>8. ASSUME NEW v \in BOOLEAN, StrayLands(v)
      PROVE  TypeOK'
  <2>1. policy' \in Policies
    BY <1>8 DEF StrayLands, Policies
  <2> QED
    BY <1>8, <2>1, CLIAssumption DEF StrayLands, calls
<1>9. CASE Edit
  BY <1>9, CLIAssumption DEF Edit, calls
<1>10. CASE UNCHANGED vars
  BY <1>10 DEF vars
<1> QED
  BY <1>1, <1>2, <1>3, <1>4, <1>5, <1>6, <1>7, <1>8, <1>9, <1>10 DEF Next

\* The commands and the policy they work on keep their types, and no patch is ever sent that
\* has nothing to change.
THEOREM TypeCorrect == Spec => []TypeOK
  BY InitTypeOK, NextTypeOK, PTL DEF Spec

----------------------------------------------------------------------------
(* Agreement                                                               *)

\* Every user's last command has succeeded and asked for v, and nobody else wrote.
AllAsked(v) == Users # {} /\ edits = MaxEdits /\ policy.live /\ \A u \in Users : pc[u] = "done" /\ want[u] = v

\* Initially nobody's command has succeeded, so there is nothing to agree with.
LEMMA InitAgreement == Init => AgreementHolds
  BY DEF Init, AgreementHolds

\* Every step keeps the agreement of the switch with the last commands.
LEMMA NextAgreement == TypeOK /\ AgreementHolds /\ [Next]_vars => AgreementHolds'
<1> SUFFICES ASSUME TypeOK, AgreementHolds, [Next]_vars, NEW v \in BOOLEAN, AllAsked(v)'
             PROVE  policy'.paused = v
  BY DEF AgreementHolds, AllAsked
<1>a. \A u \in Users : pc'[u] = "done" /\ want'[u] = v
  BY DEF AllAsked
<1>b. AllAsked(v) => policy.paused = v
  BY DEF AgreementHolds, AllAsked
<1>1. ASSUME NEW u \in Users, NEW w \in BOOLEAN, Invoke(u, w)
      PROVE  policy'.paused = v
  BY <1>1, <1>a DEF Invoke, TypeOK
<1>2. ASSUME NEW u \in Users, GetMissing(u) \/ Get(u) \/ GetFails(u) \/ PatchFails(u)
      PROVE  policy'.paused = v
  BY <1>2, <1>a DEF GetMissing, Get, GetFails, PatchFails, Return, TypeOK
<1>3. ASSUME NEW u \in Users, NothingToDo(u)
      PROVE  policy'.paused = v
  BY <1>3, <1>a DEF NothingToDo
<1>4. ASSUME NEW u \in Users, Patch(u)
      PROVE  policy'.paused = v
  <2>1. policy.live /\ policy' = Patched(u)
    BY <1>4, <1>a DEF Patch, Return, TypeOK
  <2>2. want[u] = v
    BY <1>4, <1>a DEF Patch
  <2> QED
    BY <1>4, <2>1, <2>2, PatchSetsSwitchOnly DEF Patch
<1>5. ASSUME NEW w \in BOOLEAN, StrayLands(w)
      PROVE  policy'.paused = v
  BY <1>5, CLIAssumption DEF StrayLands, AllAsked, TypeOK
<1>6. CASE Edit
  BY <1>6, CLIAssumption DEF Edit, AllAsked, TypeOK
<1>7. CASE UNCHANGED vars
  BY <1>7, <1>b DEF vars, AllAsked
<1> QED
  BY <1>1, <1>2, <1>3, <1>4, <1>5, <1>6, <1>7 DEF Next

\* Users who all ask for the same and are all told it is so have it so, for any number of
\* them and however their commands overlap.
THEOREM UsersAgree == Spec => []AgreementHolds
<1>1. Init => TypeOK /\ AgreementHolds
  BY InitTypeOK, InitAgreement
<1>2. (TypeOK /\ AgreementHolds) /\ [Next]_vars => (TypeOK /\ AgreementHolds)'
  BY NextTypeOK, NextAgreement
<1> QED
  BY <1>1, <1>2, PTL DEF Spec

----------------------------------------------------------------------------
(* Edits                                                                   *)

\* Only an edit changes the rest of the policy or its being there.
LEMMA StepKeepsEdits ==
  TypeOK /\ [Next]_vars => [Edit \/ (policy'.rest = policy.rest /\ policy'.live = policy.live)]_vars
<1> SUFFICES ASSUME TypeOK, [Next]_vars, ~Edit
             PROVE  policy'.rest = policy.rest /\ policy'.live = policy.live
  OBVIOUS
<1>1. ASSUME NEW u \in Users, Patch(u) \/ PatchFails(u)
      PROVE  policy'.rest = policy.rest /\ policy'.live = policy.live
  <2>1. pc[u] = "patch" /\ (policy' = policy \/ policy' = Patched(u))
    BY <1>1 DEF Patch, PatchFails
  <2> QED
    BY <2>1, PatchSetsSwitchOnly
<1>2. ASSUME NEW w \in BOOLEAN, StrayLands(w)
      PROVE  policy'.rest = policy.rest /\ policy'.live = policy.live
  BY <1>2 DEF StrayLands, TypeOK, Policies
<1>3. ASSUME UNCHANGED policy
      PROVE  policy'.rest = policy.rest /\ policy'.live = policy.live
  BY <1>3
<1> QED
  BY <1>1, <1>2, <1>3 DEF Next, Invoke, GetMissing, NothingToDo, Get, GetFails, vars

\* freeze and resume never write a field but the switch, whatever was edited since they
\* read the policy.
THEOREM EditsAreKept == Spec => EditsKept
  BY TypeCorrect, StepKeepsEdits, PTL DEF Spec, EditsKept

----------------------------------------------------------------------------
(* Refinement                                                              *)

\* The initial states are those of the switch.
LEMMA InitSwitch == Init => Switch!Init
  BY DEF Init, Switch!Init, Policies, Pending

\* Every step is a step of the switch or leaves it alone.
LEMMA StepSwitch == TypeOK /\ TypeOK' /\ [Next]_vars => [Switch!Next]_(Switch!vars)
<1> SUFFICES ASSUME TypeOK, TypeOK', [Next]_vars
             PROVE  [Switch!Next]_(Switch!vars)
  OBVIOUS
<1> USE DEF TypeOK, Pending
<1>1. ASSUME NEW u \in Users, NEW v \in BOOLEAN, Invoke(u, v)
      PROVE  Switch!Ask(u, v)
  BY <1>1 DEF Invoke, Switch!Ask
<1>2. ASSUME NEW u \in Users, GetMissing(u) \/ GetFails(u)
      PROVE  Switch!Fail(u)
  BY <1>2 DEF GetMissing, GetFails, Return, Switch!Fail
<1>3. ASSUME NEW u \in Users, NothingToDo(u)
      PROVE  Switch!Set(u)
  BY <1>3 DEF NothingToDo, Return, Switch!Set
<1>4. ASSUME NEW u \in Users, Get(u)
      PROVE  UNCHANGED Switch!vars
  BY <1>4 DEF Get, Switch!vars
<1>5. ASSUME NEW u \in Users, Patch(u), policy.live
      PROVE  Switch!Set(u)
  <2>1. policy'.paused = want[u] /\ policy'.live = policy.live /\ policy'.rest = policy.rest
    BY <1>5, PatchSetsSwitchOnly DEF Patch
  <2> QED
    BY <1>5, <2>1 DEF Patch, Return, Switch!Set
<1>6. ASSUME NEW u \in Users, Patch(u), ~policy.live
      PROVE  Switch!Fail(u)
  BY <1>6 DEF Patch, Return, Switch!Fail
<1>7. ASSUME NEW u \in Users, PatchFails(u)
      PROVE  Switch!Fail(u)
  <2>1. pc[u] = "patch" /\ pc' = [pc EXCEPT ![u] = "failed"] /\ want' = want
    BY <1>7 DEF PatchFails, Return
  <2>2. \/ policy' = policy /\ stray' = stray
        \/ policy.live /\ policy' = Patched(u) /\ stray' = stray
        \/ stray' = stray \cup {want[u]} /\ policy' = policy
    BY <1>7 DEF PatchFails
  <2>3. policy' = Patched(u) =>
          policy'.paused = want[u] /\ policy'.live = policy.live /\ policy'.rest = policy.rest
    BY <2>1, PatchSetsSwitchOnly
  <2> QED
    BY <2>1, <2>2, <2>3 DEF Switch!Fail
<1>8. ASSUME NEW v \in BOOLEAN, StrayLands(v)
      PROVE  Switch!StrayLands(v)
  BY <1>8 DEF StrayLands, calls, Policies, Switch!StrayLands
<1>9. CASE Edit
  <2>1. Switch!Edit
    BY <1>9 DEF Edit, calls, Policies, Switch!Edit
  <2> QED
    BY <2>1 DEF Switch!Next
<1>10. CASE UNCHANGED vars
  BY <1>10 DEF vars, Switch!vars
<1> QED
  BY <1>1, <1>2, <1>3, <1>4, <1>5, <1>6, <1>7, <1>8, <1>9, <1>10 DEF Next, Switch!Next

\* A read, a comparison and a patch made of the copy are together one atomic setting of one
\* switch, or an error.
THEOREM SwitchImplemented == Spec => ImplementsSwitch
  BY TypeCorrect, InitSwitch, StepSwitch, PTL DEF Spec, ImplementsSwitch, Switch!Spec
=============================================================================
