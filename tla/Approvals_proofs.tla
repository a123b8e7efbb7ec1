-------------------------- MODULE Approvals_proofs --------------------------
(***************************************************************************)
(* Proofs about module Approvals, for any users, roles and items.          *)
(***************************************************************************)
EXTENDS Approvals, TLAPS

-----------------------------------------------------------------------------
(* Facts about the rules. *)

\* The list of roles a lane asks for is a set of roles.
LEMMA RequiredForType ==
    ASSUME NEW lane \in Nat, NEW override \in SUBSET Roles
    PROVE  RequiredFor(lane, override) \in SUBSET Roles
BY DEF RequiredFor, Roles, LaneAuto, LaneDual

\* create_approval files an item on one of the three lanes, and never files a
\* workflow assignment on lane 1.
LEMMA CreationLaneType ==
    ASSUME NEW kind \in Kinds, NEW proposed \in Lanes, NEW policyLane \in Lanes
    PROVE  /\ CreationLane(kind, proposed, policyLane) \in Lanes
           /\ CreationLane(kind, proposed, policyLane) = LaneAuto => kind # "assignment"
BY DEF CreationLane, Kinds, Lanes, LaneAuto, LaneSingle, LaneDual, IsAgentcloud, AtLeast, OwnerOnly

\* An escalation ends on one of the three lanes.
LEMMA EscalationTargetType ==
    ASSUME NEW lane \in Lanes, NEW requested \in Lanes \cup {0}
    PROVE  EscalationTarget(lane, requested) \in Lanes
BY DEF EscalationTarget, AtMost, Lanes, LaneAuto, LaneSingle, LaneDual

\* A signature is never lost: more records sign for at least as many roles.
LEMMA SignaturesGrow ==
    ASSUME NEW recs, NEW more, recs \subseteq more
    PROVE  /\ SignedRoles(recs) \subseteq SignedRoles(more)
           /\ ApproveRecords(recs) \subseteq ApproveRecords(more)
           /\ \A required : Covered(required, recs) => Covered(required, more)
BY DEF SignedRoles, ApproveRecords, Covered

-----------------------------------------------------------------------------
(* Type correctness. *)

\* create_approval writes a well-formed row and known events.
LEMMA CreateType ==
    ASSUME TypeOK, NEW i \in Items, NEW s \in Submissions, Create(i, s)
    PROVE  TypeOK'
<1> DEFINE lane == CreationLane(s.kind, s.proposed, s.policyLane)
           required == RequiredFor(lane, CreationOverride(s.kind, s.override))
<1>1. s \in [kind : Kinds, proposed : Lanes, policyLane : Lanes, override : SUBSET Roles]
  BY DEF Submissions
<1>2. lane \in Lanes
  BY <1>1, CreationLaneType
<1>3. CreationOverride(s.kind, s.override) \in SUBSET Roles
  BY <1>1 DEF CreationOverride, Roles
<1>4. required \in SUBSET Roles
  <2>1. lane \in Nat
    BY <1>2 DEF Lanes, LaneAuto, LaneSingle, LaneDual
  <2> QED
    BY <2>1, <1>3, RequiredForType
<1>5. \E status \in {"pending", "executed", "execution_failed"} :
        item' = [item EXCEPT ![i] = [status |-> status, kind |-> s.kind, lane |-> lane,
                                     required |-> required, hold |-> FALSE]]
  BY DEF Create
<1>6. item' \in [Items -> Row]
  <2> HIDE DEF lane, required
  <2> QED
    BY <1>1, <1>2, <1>4, <1>5 DEF TypeOK, Row, Statuses
<1>7. audit' \in [Items -> SUBSET Events]
  BY DEF Create, Log, TypeOK, Events
<1> QED
  BY <1>6, <1>7 DEF Create, TypeOK

\* So does decide_approval, on each of its three branches.
LEMMA DecideType ==
    ASSUME TypeOK, NEW i \in Items, NEW u \in Users, Decide(u, i)
    PROVE  TypeOK'
<1>1. CASE Approve(u, i)
  <2>1. records' \in [Items -> SUBSET Record]
    BY <1>1 DEF Approve, AddRecord, TypeOK, Record, Decisions
  <2>2. audit' \in [Items -> SUBSET Events]
    BY <1>1 DEF Approve, Log, TypeOK, Events
  <2>3. item' \in [Items -> Row] /\ executing' \subseteq Items
    BY <1>1 DEF Approve, TypeOK, Row, Statuses
  <2> QED
    BY <1>1, <2>1, <2>2, <2>3 DEF Approve, TypeOK
<1>2. CASE Reject(u, i)
  <2>1. records' \in [Items -> SUBSET Record]
    BY <1>2 DEF Reject, AddRecord, TypeOK, Record, Decisions
  <2>2. audit' \in [Items -> SUBSET Events]
    BY <1>2 DEF Reject, Log, TypeOK, Events
  <2>3. item' \in [Items -> Row]
    BY <1>2 DEF Reject, TypeOK, Row, Statuses
  <2> QED
    BY <1>2, <2>1, <2>2, <2>3 DEF Reject, TypeOK
<1>3. ASSUME NEW requested \in Lanes \cup {0}, Escalate(u, i, requested)
      PROVE  TypeOK'
  <2> DEFINE lane == EscalationTarget(item[i].lane, requested)
  <2>1. records' \in [Items -> SUBSET Record]
    BY <1>3 DEF Escalate, AddRecord, TypeOK, Record, Decisions
  <2>2. audit' \in [Items -> SUBSET Events]
    BY <1>3 DEF Escalate, Log, TypeOK, Events
  <2>3. lane \in Lanes
    BY EscalationTargetType DEF TypeOK, Row
  <2>4. RequiredFor(lane, {}) \in SUBSET Roles
    BY <2>3, RequiredForType DEF Lanes, LaneAuto, LaneSingle, LaneDual
  <2>5. item' = [item EXCEPT ![i].lane = lane, ![i].required = RequiredFor(lane, {})]
    BY <1>3 DEF Escalate
  <2>6. item' \in [Items -> Row]
    <3> HIDE DEF lane
    <3> QED
      BY <2>3, <2>4, <2>5 DEF TypeOK, Row
  <2> QED
    BY <1>3, <2>1, <2>2, <2>6 DEF Escalate, TypeOK
<1> QED
  BY <1>1, <1>2, <1>3 DEF Decide

\* Each step of the queue keeps the types of its tables.
LEMMA TypeStep == TypeOK /\ [Next]_vars => TypeOK'
<1> SUFFICES ASSUME TypeOK, [Next]_vars
             PROVE  TypeOK'
  OBVIOUS
<1>1. CASE UNCHANGED vars
  BY <1>1 DEF vars, TypeOK
<1>2. CASE Freeze
  BY <1>2 DEF Freeze, TypeOK
<1>3. ASSUME NEW i \in Items, NEW s \in Submissions, Create(i, s)
      PROVE  TypeOK'
  BY <1>3, CreateType
<1>4. ASSUME NEW i \in Items, NEW u \in Users, Decide(u, i)
      PROVE  TypeOK'
  BY <1>4, DecideType
<1>5. ASSUME NEW i \in Items, Execute(i) \/ CommitByHook(i)
      PROVE  TypeOK'
  BY <1>5 DEF Execute, CommitByHook, Log, TypeOK, Row, Statuses, Events
<1>6. ASSUME NEW i \in Items, SealExecution(i) \/ ExecuteRefused(i) \/ Crash(i)
      PROVE  TypeOK'
  BY <1>6 DEF SealExecution, ExecuteRefused, Crash, Log, TypeOK, Events
<1>7. ASSUME NEW i \in Items, Cancel(i) \/ LitigationHold(i)
      PROVE  TypeOK'
  <2>1. item' \in [Items -> Row]
    <3>1. CASE Cancel(i)
      BY <3>1 DEF Cancel, TypeOK, Row, Statuses
    <3>2. CASE LitigationHold(i)
      <4>1. PICK status \in Statuses :
              item' = [item EXCEPT ![i].hold = TRUE, ![i].status = status]
        BY <3>2 DEF LitigationHold, TypeOK, Row, Statuses
      <4> QED
        BY <4>1 DEF TypeOK, Row
    <3> QED
      BY <1>7, <3>1, <3>2
  <2>2. audit' \in [Items -> SUBSET Events]
    BY <1>7 DEF Cancel, LitigationHold, Log, TypeOK, Events
  <2> QED
    BY <1>7, <2>1, <2>2 DEF Cancel, LitigationHold, TypeOK
<1>8. ASSUME NEW i \in Items, SlaPasses(i) \/ SlaScan(i)
      PROVE  TypeOK'
  BY <1>8 DEF SlaPasses, SlaScan, Log, TypeOK, Events
<1> QED
  BY <1>1, <1>2, <1>3, <1>4, <1>5, <1>6, <1>7, <1>8 DEF Next

\* The queue starts empty.
LEMMA InitType == Init => TypeOK
<1>1. NoRow \in Row
  BY DEF NoRow, Row, Statuses, Kinds, Lanes, Roles
<1> QED
  BY <1>1 DEF Init, TypeOK

\* The tables of the queue always hold what their columns may hold.
THEOREM TypeCorrect == Spec => []TypeOK
BY InitType, TypeStep, PTL DEF Spec

-----------------------------------------------------------------------------
(* What goes out has been signed.  Tables of signatures and events only grow,
   and the list of roles changes only while an item is pending, so it is enough
   to look at the step that clears an item. *)

\* Signatures and audit events of an item are never taken away.
Grows(i) == records[i] \subseteq records'[i] /\ audit[i] \subseteq audit'[i]

\* An item is out after a step because it was filed on lane 1, because it was out
\* before and asks for the same roles, or because the step completed a list of
\* signatures of which at least one is an approval given by a person.
Clears(i) ==
    item'[i].status \in Cleared =>
        \/ BornAuto(i)'
        \/ item[i].status \in Cleared /\ item'[i].required = item[i].required
        \/ Covered(item'[i].required, records'[i]) /\ ApproveRecords(records'[i]) # {}

\* An approval clears only the item whose signatures it completes.
LEMMA ApproveClears ==
    ASSUME TypeOK, NEW i \in Items, NEW u \in Users, Approve(u, i), NEW j \in Items
    PROVE  Clears(j) /\ Grows(j)
<1>1. Grows(j)
  BY DEF Approve, AddRecord, Log, TypeOK, Grows
<1>2. item'[j].required = item[j].required
  BY DEF Approve, TypeOK, Row
<1>3. CASE item'[j].status = item[j].status
  BY <1>1, <1>2, <1>3 DEF Clears
<1>4. CASE item'[j].status # item[j].status
  <2>1. j = i /\ Covered(item[i].required, records'[i])
    BY <1>4 DEF Approve, TypeOK, Row
  <2>2. [user |-> u, decision |-> "approve"] \in records'[i]
    BY DEF Approve, AddRecord, TypeOK
  <2>3. ApproveRecords(records'[j]) # {}
    BY <2>1, <2>2 DEF ApproveRecords
  <2>4. Covered(item'[j].required, records'[j])
    BY <1>2, <2>1
  <2> QED
    BY <1>1, <2>3, <2>4 DEF Clears
<1> QED
  BY <1>3, <1>4

\* An escalation clears nothing, whatever lane it asks for.
LEMMA EscalateClears ==
    ASSUME TypeOK, NEW i \in Items, NEW u \in Users, NEW requested, NEW j \in Items,
           Escalate(u, i, requested)
    PROVE  Clears(j) /\ Grows(j)
<1>1. item[i].status = "pending"
  BY DEF Escalate, DecisionAllowed
<1>2. item' = [item EXCEPT ![i].lane = EscalationTarget(item[i].lane, requested),
                    ![i].required = RequiredFor(EscalationTarget(item[i].lane, requested), {})]
  BY DEF Escalate
<1>3. item'[j].status = item[j].status /\ (j # i => item'[j] = item[j])
  BY <1>2 DEF TypeOK, Row
<1>4. Grows(j)
  BY DEF Escalate, AddRecord, Log, TypeOK, Grows
<1>5. item[j].status \in Cleared => item'[j].required = item[j].required
  BY <1>1, <1>3 DEF Cleared
<1> QED
  BY <1>3, <1>4, <1>5 DEF Clears

\* A creation clears only an item filed on lane 1.
LEMMA CreateClears ==
    ASSUME TypeOK, NEW i \in Items, NEW s \in Submissions, Create(i, s), NEW j \in Items
    PROVE  Clears(j) /\ Grows(j)
<1>1. Grows(j)
  BY DEF Create, Log, TypeOK, Grows
<1>2. CASE j # i
  <2>1. item'[j] = item[j]
    BY <1>2 DEF Create, TypeOK
  <2> QED
    BY <1>1, <2>1 DEF Clears
<1>3. CASE j = i
  <2>1. PICK status, lane, required :
          /\ item' = [item EXCEPT ![i] = [status |-> status, kind |-> s.kind, lane |-> lane,
                                          required |-> required, hold |-> FALSE]]
          /\ \/ status = "pending"
             \/ "created_auto" \in audit'[i]
    BY DEF Create, Log, TypeOK
  <2>2. item'[i].status = status
    BY <2>1 DEF TypeOK
  <2> QED
    BY <1>1, <1>3, <2>1, <2>2 DEF Clears, BornAuto, Cleared
<1> QED
  BY <1>2, <1>3

\* Every step clears items in one of the three ways only.
LEMMA StepClears ==
    ASSUME TypeOK, [Next]_vars, NEW j \in Items
    PROVE  Clears(j) /\ Grows(j)
<1>1. CASE UNCHANGED vars
  BY <1>1 DEF vars, Clears, Grows
<1>2. CASE Freeze
  BY <1>2 DEF Freeze, Clears, Grows
<1>3. ASSUME NEW i \in Items, NEW s \in Submissions, Create(i, s)
      PROVE  Clears(j) /\ Grows(j)
  BY <1>3, CreateClears
<1>4. ASSUME NEW i \in Items, NEW u \in Users, Decide(u, i)
      PROVE  Clears(j) /\ Grows(j)
  <2>1. CASE Approve(u, i)
    BY <2>1, ApproveClears
  <2>2. CASE Reject(u, i)
    BY <2>2 DEF Reject, DecisionAllowed, AddRecord, Log, TypeOK, Row, Grows, Clears, Cleared
  <2>3. ASSUME NEW requested \in Lanes \cup {0}, Escalate(u, i, requested)
        PROVE  Clears(j) /\ Grows(j)
    BY <2>3, EscalateClears
  <2> QED
    BY <1>4, <2>1, <2>2, <2>3 DEF Decide
<1>5. ASSUME NEW i \in Items, Execute(i) \/ CommitByHook(i)
      PROVE  Clears(j) /\ Grows(j)
  BY <1>5 DEF Execute, CommitByHook, Log, TypeOK, Row, Grows, Clears, Cleared
<1>6. ASSUME NEW i \in Items, SealExecution(i) \/ ExecuteRefused(i) \/ Crash(i)
      PROVE  Clears(j) /\ Grows(j)
  BY <1>6 DEF SealExecution, ExecuteRefused, Crash, Log, TypeOK, Grows, Clears
<1>7. ASSUME NEW i \in Items, Cancel(i) \/ LitigationHold(i)
      PROVE  Clears(j) /\ Grows(j)
  <2>1. CASE Cancel(i)
    BY <2>1 DEF Cancel, Log, TypeOK, Row, Grows, Clears, Cleared
  <2>2. CASE LitigationHold(i)
    <3>1. Grows(j)
      BY <2>2 DEF LitigationHold, Log, TypeOK, Grows
    <3>2. /\ item'[j].required = item[j].required
          /\ item'[j].status \in {item[j].status, "suspended"}
      BY <2>2 DEF LitigationHold, TypeOK, Row
    <3> QED
      BY <3>1, <3>2 DEF Clears, Cleared
  <2> QED
    BY <1>7, <2>1, <2>2
<1>8. ASSUME NEW i \in Items, SlaPasses(i) \/ SlaScan(i)
      PROVE  Clears(j) /\ Grows(j)
  BY <1>8 DEF SlaPasses, SlaScan, Log, TypeOK, Grows, Clears
<1> QED
  BY <1>1, <1>2, <1>3, <1>4, <1>5, <1>6, <1>7, <1>8 DEF Next

\* No write goes out before every role it asks for has signed, except one that was
\* filed on lane 1: decide_approval and execute_approval, however the requests of
\* any number of users and items follow one another, crash or meet a frozen chain.
THEOREM QuorumProved == Spec => []QuorumBeforeExecution
<1>1. Init => QuorumBeforeExecution
  BY DEF Init, NoRow, QuorumBeforeExecution, Cleared
<1>2. TypeOK /\ QuorumBeforeExecution /\ [Next]_vars => QuorumBeforeExecution'
  <2> SUFFICES ASSUME TypeOK, QuorumBeforeExecution, [Next]_vars,
                      NEW i \in Items, item'[i].status \in Cleared
               PROVE  BornAuto(i)' \/ Covered(item'[i].required, records'[i])
    BY DEF QuorumBeforeExecution, Cleared
  <2>1. Clears(i) /\ Grows(i)
    BY StepClears
  <2>2. CASE item[i].status \in Cleared /\ item'[i].required = item[i].required
    <3>1. BornAuto(i) => BornAuto(i)'
      BY <2>1 DEF BornAuto, Grows
    <3>2. Covered(item[i].required, records[i]) => Covered(item'[i].required, records'[i])
      BY <2>1, <2>2, SignaturesGrow DEF Grows
    <3> QED
      BY <2>2, <3>1, <3>2 DEF QuorumBeforeExecution
  <2> QED
    BY <2>1, <2>2 DEF Clears
<1> QED
  BY <1>1, <1>2, TypeCorrect, PTL DEF Spec

\* Nor does a write go out that no person approved, whatever lane it was escalated
\* to: lane 1 asks for nobody, but reaching it does not approve the item.
THEOREM HumanInTheLoopProved == Spec => []HumanInTheLoop
<1>1. Init => HumanInTheLoop
  BY DEF Init, NoRow, HumanInTheLoop, Cleared
<1>2. TypeOK /\ HumanInTheLoop /\ [Next]_vars => HumanInTheLoop'
  <2> SUFFICES ASSUME TypeOK, HumanInTheLoop, [Next]_vars,
                      NEW i \in Items, item'[i].status \in Cleared
               PROVE  BornAuto(i)' \/ ApproveRecords(records'[i]) # {}
    BY DEF HumanInTheLoop, Cleared
  <2>1. Clears(i) /\ Grows(i)
    BY StepClears
  <2>2. CASE item[i].status \in Cleared
    <3>1. BornAuto(i) => BornAuto(i)'
      BY <2>1 DEF BornAuto, Grows
    <3>2. ApproveRecords(records[i]) \subseteq ApproveRecords(records'[i])
      BY <2>1, SignaturesGrow DEF Grows
    <3> QED
      BY <2>2, <3>1, <3>2 DEF HumanInTheLoop
  <2> QED
    BY <2>1, <2>2 DEF Clears
<1> QED
  BY <1>1, <1>2, TypeCorrect, PTL DEF Spec
-----------------------------------------------------------------------------
(* Workflow assignments.  The property is not inductive by itself: it has to be
   known that an item that does not exist yet carries no signatures. *)

FreshIsEmpty == \A i \in Items : item[i].status = "none" => records[i] = {} /\ audit[i] = {}

OwnerInv == TypeOK /\ FreshIsEmpty /\ OwnerOnlyHolds

\* A decision is made by somebody who may make it, on a pending item that is not
\* on hold; it adds one record, that of its user, and leaves other items alone.
DecisionAdds(u, i) ==
    /\ MayDecide(u, item[i]) /\ item[i].status = "pending" /\ ~item[i].hold
    /\ \E d \in Decisions :
          records' = [records EXCEPT ![i] = @ \cup {[user |-> u, decision |-> d]}]
    /\ \E e \in {"approve", "reject", "escalate"} :
          audit' = [audit EXCEPT ![i] = @ \cup {e}]
    /\ \A j \in Items : /\ item'[j].kind = item[j].kind
                        /\ j # i => item'[j] = item[j]
    /\ item'[i].status # "none"

\* All three decisions share this shape.
LEMMA DecideAdds ==
    ASSUME TypeOK, NEW i \in Items, NEW u \in Users, Decide(u, i)
    PROVE  DecisionAdds(u, i)
<1>1. CASE Approve(u, i)
  BY <1>1 DEF DecisionAdds, Approve, DecisionAllowed, AddRecord, Log, Decisions, TypeOK, Row
<1>2. CASE Reject(u, i)
  BY <1>2 DEF DecisionAdds, Reject, DecisionAllowed, AddRecord, Log, Decisions, TypeOK, Row
<1>3. ASSUME NEW requested \in Lanes \cup {0}, Escalate(u, i, requested)
      PROVE  DecisionAdds(u, i)
  BY <1>3 DEF DecisionAdds, Escalate, DecisionAllowed, AddRecord, Log, Decisions, TypeOK, Row
<1> QED
  BY <1>1, <1>2, <1>3 DEF Decide

\* What no step but a creation or a decision does to item j.
Untouched(j) ==
    /\ records'[j] = records[j]
    /\ item'[j].kind = item[j].kind
    /\ BornAuto(j)' <=> BornAuto(j)
    /\ item[j].status = "none" => item'[j] = item[j] /\ audit'[j] = audit[j]
    /\ item'[j].status = "none" => item[j].status = "none"

\* Executions, cancellations, holds, SLA scans and faults are such steps.
LEMMA OtherSteps ==
    ASSUME TypeOK, [Next]_vars,
           ~ \E i \in Items, s \in Submissions : Create(i, s),
           ~ \E i \in Items, u \in Users : Decide(u, i),
           NEW j \in Items
    PROVE  Untouched(j)
<1>1. CASE UNCHANGED vars \/ Freeze
  BY <1>1 DEF Untouched, vars, Freeze, BornAuto
<1>2. ASSUME NEW i \in Items, Execute(i) \/ CommitByHook(i)
      PROVE  Untouched(j)
  BY <1>2 DEF Untouched, Execute, CommitByHook, Log, TypeOK, Row, BornAuto
<1>3. ASSUME NEW i \in Items, SealExecution(i) \/ ExecuteRefused(i) \/ Crash(i)
      PROVE  Untouched(j)
  BY <1>3 DEF Untouched, SealExecution, ExecuteRefused, Crash, Log, TypeOK, BornAuto
<1>4. ASSUME NEW i \in Items, Cancel(i) \/ LitigationHold(i)
      PROVE  Untouched(j)
  <2>1. CASE Cancel(i)
    BY <2>1 DEF Untouched, Cancel, Log, TypeOK, Row, BornAuto
  <2>2. CASE LitigationHold(i)
    <3>1. PICK status \in Statuses :
            /\ item' = [item EXCEPT ![i].hold = TRUE, ![i].status = status]
            /\ status # "none"
      BY <2>2 DEF LitigationHold, TypeOK, Row, Statuses
    <3> QED
      BY <2>2, <3>1 DEF Untouched, LitigationHold, Log, TypeOK, Row, BornAuto
  <2> QED
    BY <1>4, <2>1, <2>2
<1>5. ASSUME NEW i \in Items, SlaPasses(i) \/ SlaScan(i)
      PROVE  Untouched(j)
  BY <1>5 DEF Untouched, SlaPasses, SlaScan, Log, TypeOK, BornAuto
<1> QED
  BY <1>1, <1>2, <1>3, <1>4, <1>5 DEF Next

\* The strengthened invariant is inductive.
LEMMA OwnerInvariant == Spec => []OwnerInv
<1>1. Init => OwnerInv
  BY InitType DEF Init, OwnerInv, FreshIsEmpty, OwnerOnlyHolds, BornAuto
<1>2. OwnerInv /\ [Next]_vars => OwnerInv'
  <2> SUFFICES ASSUME OwnerInv, [Next]_vars
               PROVE  OwnerInv'
    OBVIOUS
  <2> USE DEF OwnerInv
  <2>1. TypeOK'
    BY TypeStep
  <2>2. ASSUME NEW i \in Items, NEW s \in Submissions, Create(i, s)
        PROVE  FreshIsEmpty' /\ OwnerOnlyHolds'
    <3> DEFINE lane == CreationLane(s.kind, s.proposed, s.policyLane)
    <3>1. s.kind \in Kinds /\ s.proposed \in Lanes /\ s.policyLane \in Lanes
      BY DEF Submissions
    <3>2. s.kind = "assignment" => lane # LaneAuto
      BY <3>1, CreationLaneType
    <3>3. records' = records /\ records[i] = {} /\ audit[i] = {}
      BY <2>2 DEF Create, FreshIsEmpty
    <3>4. \A j \in Items : j # i => item'[j] = item[j] /\ audit'[j] = audit[j]
      BY <2>2 DEF Create, Log, TypeOK
    <3>5. item'[i].kind = s.kind /\ item'[i].status # "none"
      <4>1. PICK row \in [status : {"pending", "executed", "execution_failed"}, kind : {s.kind},
                          lane : {lane}, required : {RequiredFor(lane,
                                            CreationOverride(s.kind, s.override))},
                          hold : {FALSE}] :
              item' = [item EXCEPT ![i] = row]
        BY <2>2 DEF Create
      <4> HIDE DEF lane
      <4> QED
        BY <4>1 DEF TypeOK
    <3>6. lane # LaneAuto => audit'[i] = {"created"}
      BY <2>2, <3>3 DEF Create, Log, TypeOK
    <3> HIDE DEF lane
    <3> QED
      BY <3>2, <3>3, <3>4, <3>5, <3>6 DEF FreshIsEmpty, OwnerOnlyHolds, BornAuto
  <2>3. ASSUME NEW i \in Items, NEW u \in Users, Decide(u, i)
        PROVE  FreshIsEmpty' /\ OwnerOnlyHolds'
    <3>1. DecisionAdds(u, i)
      BY <2>3, DecideAdds
    <3>2. item[i].kind = "assignment" => RoleOf[u] = "owner"
      BY <3>1 DEF DecisionAdds, MayDecide, OwnerOnly
    <3>3. PICK d \in Decisions :
            records' = [records EXCEPT ![i] = @ \cup {[user |-> u, decision |-> d]}]
      BY <3>1 DEF DecisionAdds
    <3>4. \A j \in Items : \A r \in records'[j] :
            r \in records[j] \/ (j = i /\ r.user = u)
      BY <3>3 DEF TypeOK
    <3>5. \A j \in Items : BornAuto(j)' <=> BornAuto(j)
      BY <3>1 DEF DecisionAdds, TypeOK, BornAuto
    <3>6. OwnerOnlyHolds'
      BY <3>1, <3>2, <3>4, <3>5 DEF DecisionAdds, OwnerOnlyHolds
    <3>7. FreshIsEmpty'
      BY <3>1, <3>3 DEF DecisionAdds, FreshIsEmpty, TypeOK
    <3> QED
      BY <3>6, <3>7
  <2>4. CASE /\ ~ \E i \in Items, s \in Submissions : Create(i, s)
             /\ ~ \E i \in Items, u \in Users : Decide(u, i)
    <3>1. \A j \in Items : Untouched(j)
      BY <2>4, OtherSteps
    <3> QED
      BY <2>1, <3>1 DEF Untouched, FreshIsEmpty, OwnerOnlyHolds
  <2> QED
    BY <2>1, <2>2, <2>3, <2>4
<1> QED
  BY <1>1, <1>2, PTL DEF Spec

\* Only owners decide workflow assignments and none of them executes by itself,
\* even after an escalation has put a partner on the list of approvers.
THEOREM OwnerOnlyProved == Spec => []OwnerOnlyHolds
<1>1. OwnerInv => OwnerOnlyHolds
  BY DEF OwnerInv
<1> QED
  BY <1>1, OwnerInvariant, PTL DEF Spec
-----------------------------------------------------------------------------
(* Action properties. *)

\* Signing, escalating, cancelling and breaching look at pending items only, an
\* execution at an approved one, a hold suspends only what is pending: whatever
\* ended before stays as it ended.
THEOREM ClosedProved == Spec => ClosedStaysClosed
<1> DEFINE Closed == {"rejected", "cancelled", "suspended", "executed", "execution_failed"}
<1>1. ASSUME TypeOK, [Next]_vars, NEW j \in Items, item[j].status \in Closed
      PROVE  item'[j].status = item[j].status
  <2>1. CASE UNCHANGED vars \/ Freeze
    BY <2>1 DEF vars, Freeze
  <2>2. ASSUME NEW i \in Items, NEW s \in Submissions, Create(i, s)
        PROVE  item'[j].status = item[j].status
    BY <1>1, <2>2 DEF Create, TypeOK
  <2>3. ASSUME NEW i \in Items, NEW u \in Users, Decide(u, i)
        PROVE  item'[j].status = item[j].status
    BY <1>1, <2>3, DecideAdds DEF DecisionAdds
  <2>4. ASSUME NEW i \in Items, Execute(i) \/ CommitByHook(i)
        PROVE  item'[j].status = item[j].status
    BY <1>1, <2>4 DEF Execute, CommitByHook, TypeOK
  <2>5. ASSUME NEW i \in Items,
               \/ SealExecution(i) \/ ExecuteRefused(i) \/ Crash(i)
               \/ SlaPasses(i) \/ SlaScan(i)
        PROVE  item'[j].status = item[j].status
    BY <2>5 DEF SealExecution, ExecuteRefused, Crash, SlaPasses, SlaScan
  <2>6. ASSUME NEW i \in Items, Cancel(i) \/ LitigationHold(i)
        PROVE  item'[j].status = item[j].status
    <3>1. CASE Cancel(i)
      BY <1>1, <3>1 DEF Cancel, TypeOK
    <3>2. CASE LitigationHold(i)
      <4>1. PICK status \in Statuses :
              /\ item' = [item EXCEPT ![i].hold = TRUE, ![i].status = status]
              /\ item[i].status # "pending" => status = item[i].status
        BY <1>1, <3>2 DEF LitigationHold, TypeOK, Row, Statuses
      <4> QED
        BY <1>1, <4>1 DEF TypeOK, Row
    <3> QED
      BY <2>6, <3>1, <3>2
  <2> QED
    BY <1>1, <2>1, <2>2, <2>3, <2>4, <2>5, <2>6 DEF Next
<1>2. TypeOK /\ [Next]_vars
        => [\A i \in Items : item[i].status \in Closed
                => item'[i].status = item[i].status]_vars
  BY <1>1
<1> QED
  BY <1>2, TypeCorrect, PTL DEF Spec, ClosedStaysClosed

\* The hold flag is never lowered and decide_approval looks at it before anything
\* else, so the signatures on an item under litigation hold do not change.
THEOREM HoldProved == Spec => HoldStopsDecisions
<1>1. ASSUME TypeOK, [Next]_vars, NEW j \in Items, item[j].hold
      PROVE  records'[j] = records[j]
  <2>1. ASSUME NEW i \in Items, NEW s \in Submissions, Create(i, s)
        PROVE  records'[j] = records[j]
    BY <2>1 DEF Create
  <2>2. ASSUME NEW i \in Items, NEW u \in Users, Decide(u, i)
        PROVE  records'[j] = records[j]
    BY <1>1, <2>2, DecideAdds DEF DecisionAdds, TypeOK
  <2> QED
    BY <1>1, <2>1, <2>2, OtherSteps DEF Untouched
<1>2. TypeOK /\ [Next]_vars
        => [\A i \in Items : item[i].hold => records'[i] = records[i]]_vars
  BY <1>1
<1> QED
  BY <1>2, TypeCorrect, PTL DEF Spec, HoldStopsDecisions
-----------------------------------------------------------------------------
(* How each item ended.  Rows and audit events are written together except by
   the hooks, and only a pending or an approved item is ever ended: since an
   event of an end says that the item has left those two, no second end follows. *)

\* A litigation hold changes no status but that of a pending item, which it suspends.
LEMMA HoldRow ==
    ASSUME TypeOK, NEW i \in Items, LitigationHold(i), NEW j \in Items
    PROVE  /\ item'[j].kind = item[j].kind /\ item'[j].required = item[j].required
           /\ \/ item'[j].status = item[j].status
              \/ item[j].status = "pending" /\ item'[j].status = "suspended"
<1>1. PICK status \in Statuses :
        /\ item' = [item EXCEPT ![i].hold = TRUE, ![i].status = status]
        /\ \/ status = item[i].status
           \/ item[i].status = "pending" /\ status = "suspended"
  BY DEF LitigationHold, TypeOK, Row, Statuses
<1> QED
  BY <1>1 DEF TypeOK, Row

\* A decision or a creation keeps rows and audit chain of every item in step.
LEMMA AuditedByRequest ==
    ASSUME OwnerInv, StatusIsAudited, NEW i \in Items,
           \/ \E s \in Submissions : Create(i, s)
           \/ \E u \in Users : Decide(u, i)
    PROVE  StatusIsAudited'
<1> USE DEF OwnerInv, Ends, Log
<1>1. ASSUME NEW s \in Submissions, Create(i, s)
      PROVE  StatusIsAudited'
  <2>1. audit[i] = {}
    BY <1>1 DEF Create, FreshIsEmpty
  <2>2. \A j \in Items : j # i => item'[j] = item[j] /\ audit'[j] = audit[j]
    BY <1>1 DEF Create, TypeOK
  <2>3. /\ item'[i].kind = s.kind
        /\ \/ item'[i].status = "pending" /\ audit'[i] = {"created"}
           \/ /\ item'[i].status \in {"executed", "execution_failed"}
              /\ audit'[i] = {"created_auto", item'[i].status}
           \/ item'[i].status = "executed" /\ audit'[i] = {"created_auto"} /\ HasHook(s.kind)
    <3>1. PICK status, lane, required :
            /\ item' = [item EXCEPT ![i] = [status |-> status, kind |-> s.kind, lane |-> lane,
                                            required |-> required, hold |-> FALSE]]
            /\ \/ status = "pending" /\ audit'[i] = {"created"}
               \/ /\ status \in {"executed", "execution_failed"}
                  /\ audit'[i] = {"created_auto", status}
               \/ status = "executed" /\ audit'[i] = {"created_auto"} /\ HasHook(s.kind)
      BY <1>1, <2>1 DEF Create, TypeOK
    <3>2. item'[i].kind = s.kind /\ item'[i].status = status
      BY <3>1 DEF TypeOK
    <3> QED
      BY <3>1, <3>2
  <2> QED
    BY <2>2, <2>3 DEF StatusIsAudited
<1>2. ASSUME NEW u \in Users, Decide(u, i)
      PROVE  StatusIsAudited'
  <2>1. \A j \in Items : j # i => item'[j] = item[j] /\ audit'[j] = audit[j]
    BY <1>2, DecideAdds DEF DecisionAdds, TypeOK
  <2>2. item[i].status = "pending" /\ item'[i].kind = item[i].kind
    BY <1>2, DecideAdds DEF DecisionAdds
  <2>3. \A e \in Ends \cup {"reject"} : e \notin audit[i]
    BY <2>2 DEF StatusIsAudited
  <2>4. \/ item'[i].status \in {"pending", "approved"}
             /\ audit'[i] \in {audit[i] \cup {"approve"}, audit[i] \cup {"escalate"}}
        \/ item'[i].status = "rejected" /\ audit'[i] = audit[i] \cup {"reject"}
    <3>1. CASE Approve(u, i)
      BY <2>2, <3>1 DEF Approve, TypeOK, Row
    <3>2. CASE Reject(u, i)
      BY <3>2 DEF Reject, TypeOK, Row
    <3>3. ASSUME NEW requested \in Lanes \cup {0}, Escalate(u, i, requested)
          PROVE  item'[i].status = "pending" /\ audit'[i] = audit[i] \cup {"escalate"}
      BY <2>2, <3>3 DEF Escalate, TypeOK, Row
    <3> QED
      BY <1>2, <3>1, <3>2, <3>3 DEF Decide
  <2> QED
    BY <2>1, <2>2, <2>3, <2>4 DEF StatusIsAudited
<1> QED
  BY <1>1, <1>2

\* The audit chain of an item tells how the item ended and tells nothing else, and
\* of the items without a hook it tells every end, whatever crashed between the two
\* transactions of a request.
THEOREM StatusIsAuditedProved == Spec => []StatusIsAudited
<1>1. Init => StatusIsAudited
  BY DEF Init, NoRow, StatusIsAudited, Ends
<1>2. OwnerInv /\ StatusIsAudited /\ [Next]_vars => StatusIsAudited'
  <2> SUFFICES ASSUME OwnerInv, StatusIsAudited, [Next]_vars
               PROVE  StatusIsAudited'
    OBVIOUS
  <2> USE DEF OwnerInv, StatusIsAudited, Ends, Log, TypeOK
  <2>1. CASE UNCHANGED vars \/ Freeze
    BY <2>1 DEF vars, Freeze
  <2>2. ASSUME NEW i \in Items, Execute(i)
        PROVE  StatusIsAudited'
    BY <2>2 DEF Execute, Row
  <2>3. ASSUME NEW i \in Items, CommitByHook(i) \/ SealExecution(i)
        PROVE  StatusIsAudited'
    BY <2>3 DEF CommitByHook, SealExecution, Row
  <2>4. ASSUME NEW i \in Items,
               ExecuteRefused(i) \/ Crash(i) \/ SlaPasses(i) \/ SlaScan(i)
        PROVE  StatusIsAudited'
    BY <2>4 DEF ExecuteRefused, Crash, SlaPasses, SlaScan
  <2>5. ASSUME NEW i \in Items, Cancel(i)
        PROVE  StatusIsAudited'
    BY <2>5 DEF Cancel, Row
  <2>6. ASSUME NEW i \in Items, LitigationHold(i)
        PROVE  StatusIsAudited'
    <3>1. audit' = [audit EXCEPT ![i] = @ \cup {"litigation_hold"}]
      BY <2>6 DEF LitigationHold
    <3>2. \A j \in Items, e \in Ends \cup {"reject"} : e \in audit'[j] <=> e \in audit[j]
      BY <3>1
    <3>3. \A j \in Items : /\ item'[j].kind = item[j].kind
                            /\ \/ item'[j].status = item[j].status
                               \/ item[j].status = "pending" /\ item'[j].status = "suspended"
      BY <2>6, HoldRow
    <3> HIDE DEF TypeOK, Log
    <3> QED
      BY <3>2, <3>3
  <2> HIDE DEF OwnerInv, StatusIsAudited, Ends, Log, TypeOK
  <2> QED
    BY <2>1, <2>2, <2>3, <2>4, <2>5, <2>6, AuditedByRequest DEF Next
<1> QED
  BY <1>1, <1>2, OwnerInvariant, PTL DEF Spec
-----------------------------------------------------------------------------
(* The queue implements the human gate.  What a step has to be looked at for is
   the gate's view of each item: its phase, the roles it needs, the roles that
   have signed.  The gate asks nobody only about items filed on lane 1, and the
   step of an approval is a signature of the gate because a pending item never
   is one of those: PendingIsAsked. *)

Phase  == [i \in Items |-> PhaseOf(item[i].status)]
Need   == [i \in Items |-> IF item[i].status = "none" \/ BornAuto(i)
                             THEN {} ELSE item[i].required]
Signed == [i \in Items |-> SignedRoles(records[i])]

PendingIsAsked == \A i \in Items : item[i].status = "pending" => ~BornAuto(i)

GateInv == OwnerInv /\ PendingIsAsked

\* A record that is not an approval signs for nobody, an approval for its role.
LEMMA RecordSigns ==
    ASSUME NEW recs, NEW u \in Users, NEW d \in Decisions,
           NEW more, more = recs \cup {[user |-> u, decision |-> d]}
    PROVE  /\ d = "approve" => SignedRoles(more) = SignedRoles(recs) \cup {RoleOf[u]}
           /\ d # "approve" => SignedRoles(more) = SignedRoles(recs)
<1> DEFINE new == [user |-> u, decision |-> d]
<1>1. ApproveRecords(more) = ApproveRecords(recs) \cup ApproveRecords({new})
  BY DEF ApproveRecords
<1>2. ApproveRecords({new}) = IF d = "approve" THEN {new} ELSE {}
  BY DEF ApproveRecords
<1>3. new.user = u
  OBVIOUS
<1> HIDE DEF new
<1> QED
  BY <1>1, <1>2, <1>3 DEF SignedRoles

\* The phases are told apart by the status.
LEMMA PhaseIs ==
    /\ PhaseOf("none") = "absent" /\ PhaseOf("pending") = "waiting"
    /\ PhaseOf("approved") = "cleared"
    /\ PhaseOf("executed") = "done" /\ PhaseOf("execution_failed") = "done"
    /\ PhaseOf("rejected") = "closed" /\ PhaseOf("cancelled") = "closed"
    /\ PhaseOf("suspended") = "closed"
BY DEF PhaseOf

\* A creation submits a write to the gate or, on lane 1, passes it unsigned.
LEMMA CreateAtGate ==
    ASSUME GateInv, NEW i \in Items, NEW s \in Submissions, Create(i, s)
    PROVE  Gate!Next /\ PendingIsAsked'
<1> DEFINE required == RequiredFor(CreationLane(s.kind, s.proposed, s.policyLane),
                                   CreationOverride(s.kind, s.override))
<1>1. /\ item[i].status = "none" /\ audit[i] = {} /\ records' = records
      /\ \A j \in Items : j # i => item'[j] = item[j] /\ audit'[j] = audit[j]
  BY DEF Create, GateInv, OwnerInv, FreshIsEmpty, TypeOK, Log
<1>2. \/ /\ item'[i].status = "pending" /\ item'[i].required = required
         /\ audit'[i] = {"created"}
      \/ /\ item'[i].status \in {"executed", "execution_failed"}
         /\ "created_auto" \in audit'[i]
  <2> HIDE DEF required
  <2>1. PICK status, lane :
          /\ item' = [item EXCEPT ![i] = [status |-> status, kind |-> s.kind, lane |-> lane,
                                          required |-> required, hold |-> FALSE]]
          /\ \/ status = "pending" /\ audit'[i] = {"created"}
             \/ status \in {"executed", "execution_failed"} /\ "created_auto" \in audit'[i]
    BY <1>1 DEF Create, GateInv, OwnerInv, TypeOK, Log, required
  <2>2. item'[i].status = status /\ item'[i].required = required
    BY <2>1 DEF GateInv, OwnerInv, TypeOK
  <2> QED
    BY <2>1, <2>2
<1>3. required \in SUBSET Roles
  <2>1. CreationLane(s.kind, s.proposed, s.policyLane) \in Nat
    BY CreationLaneType DEF Submissions, Lanes, LaneAuto, LaneSingle, LaneDual
  <2>2. CreationOverride(s.kind, s.override) \in SUBSET Roles
    BY DEF Submissions, CreationOverride, Roles
  <2> QED
    BY <2>1, <2>2, RequiredForType
<1> HIDE DEF required
<1>4. Signed' = Signed /\ Phase[i] = "absent" /\ Need[i] = {}
  BY <1>1, PhaseIs DEF Signed, Phase, Need
<1>5. CASE item'[i].status = "pending"
  <2>1. Phase' = [Phase EXCEPT ![i] = "waiting"]
    BY <1>1, <1>5, PhaseIs DEF Phase
  <2>2. Need' = [Need EXCEPT ![i] = required]
    BY <1>1, <1>2, <1>5 DEF Need, BornAuto
  <2>3. Gate!Submit(i, required)
    BY <1>4, <2>1, <2>2 DEF Gate!Submit, Phase, Need, Signed
  <2>4. PendingIsAsked'
    BY <1>1, <1>2, <1>5 DEF GateInv, PendingIsAsked, BornAuto
  <2> QED
    BY <1>3, <2>3, <2>4 DEF Gate!Next
<1>6. CASE item'[i].status # "pending"
  <2>1. Phase' = [Phase EXCEPT ![i] = "done"]
    BY <1>1, <1>2, <1>6, PhaseIs DEF Phase
  <2>2. Need' = Need
    BY <1>1, <1>2, <1>6 DEF Need, BornAuto
  <2>3. Gate!PassUnsigned(i)
    BY <1>4, <2>1, <2>2 DEF Gate!PassUnsigned, Phase, Need, Signed
  <2>4. PendingIsAsked'
    BY <1>1, <1>6 DEF GateInv, PendingIsAsked, BornAuto
  <2> QED
    BY <2>3, <2>4 DEF Gate!Next
<1> QED
  BY <1>5, <1>6

\* An approval signs for the role of its user and opens the gate exactly when no
\* signature is missing, a rejection turns the write away, an escalation asks
\* other roles.
LEMMA DecideAtGate ==
    ASSUME GateInv, NEW i \in Items, NEW u \in Users, Decide(u, i)
    PROVE  Gate!Next /\ PendingIsAsked'
<1> USE DEF GateInv, OwnerInv
<1>1. DecisionAdds(u, i)
  BY DecideAdds
<1>2. item[i].status = "pending" /\ ~BornAuto(i)
  BY <1>1 DEF DecisionAdds, PendingIsAsked
<1>3. /\ \A j \in Items : j # i => item'[j] = item[j]
      /\ \A j \in Items : BornAuto(j)' <=> BornAuto(j)
  BY <1>1 DEF DecisionAdds, TypeOK, BornAuto
<1>4. Phase[i] = "waiting" /\ Need[i] = item[i].required /\ Signed[i] = SignedRoles(records[i])
  BY <1>2, PhaseIs DEF Phase, Need, Signed
<1>5. PendingIsAsked'
  BY <1>2, <1>3 DEF PendingIsAsked
<1>6. ASSUME NEW d \in Decisions, AddRecord(u, i, d)
      PROVE  Signed' = [Signed EXCEPT ![i] =
                           IF d = "approve" THEN @ \cup {RoleOf[u]} ELSE @]
  <2>1. \A j \in Items : records'[j] = IF j = i
                                          THEN records[i] \cup {[user |-> u, decision |-> d]}
                                          ELSE records[j]
    BY <1>6 DEF AddRecord, TypeOK
  <2>2. /\ d = "approve" => SignedRoles(records'[i]) = SignedRoles(records[i]) \cup {RoleOf[u]}
        /\ d # "approve" => SignedRoles(records'[i]) = SignedRoles(records[i])
    BY <2>1, RecordSigns
  <2> QED
    BY <2>1, <2>2 DEF Signed
<1>7. CASE Approve(u, i)
  <2>1. Signed' = [Signed EXCEPT ![i] = @ \cup {RoleOf[u]}]
    BY <1>6, <1>7 DEF Approve, Decisions
  <2>2. \A j \in Items : item'[j].required = item[j].required
    BY <1>7 DEF Approve, TypeOK, Row
  <2>3. item'[i].status = IF Covered(item[i].required, records'[i]) THEN "approved" ELSE "pending"
    BY <1>2, <1>7 DEF Approve, TypeOK, Row
  <2>4. Need' = Need
    BY <1>2, <1>3, <2>2, <2>3 DEF Need
  <2>5. Covered(item[i].required, records'[i]) <=> Need[i] \subseteq Signed'[i]
    BY <1>4 DEF Covered, Signed
  <2>6. Phase' = [Phase EXCEPT ![i] = IF Need[i] \subseteq Signed'[i] THEN "cleared" ELSE "waiting"]
    BY <1>3, <2>3, <2>5, PhaseIs DEF Phase
  <2>7. Gate!Sign(i, RoleOf[u])
    BY <1>4, <2>1, <2>4, <2>6 DEF Gate!Sign, Phase, Need, Signed
  <2>8. RoleOf[u] \in Roles
    BY RolesAssumption
  <2> QED
    BY <1>5, <2>7, <2>8 DEF Gate!Next
<1>8. CASE Reject(u, i)
  <2>1. Signed' = Signed
    BY <1>6, <1>8 DEF Reject, Decisions, Signed
  <2>2. item'[i].status = "rejected" /\ item'[i].required = item[i].required
    BY <1>8 DEF Reject, TypeOK, Row
  <2>3. Need' = Need
    BY <1>2, <1>3, <2>2 DEF Need
  <2>4. Phase' = [Phase EXCEPT ![i] = "closed"]
    BY <1>3, <2>2, PhaseIs DEF Phase
  <2>5. Gate!TurnAway(i)
    BY <1>4, <2>1, <2>3, <2>4 DEF Gate!TurnAway, Phase, Need, Signed
  <2> QED
    BY <1>5, <2>5 DEF Gate!Next
<1>9. ASSUME NEW requested \in Lanes \cup {0}, Escalate(u, i, requested)
      PROVE  Gate!Next
  <2>1. Signed' = Signed
    BY <1>6, <1>9 DEF Escalate, Decisions, Signed
  <2>2. PICK asked \in SUBSET Roles :
          item'[i].status = "pending" /\ item'[i].required = asked
    <3>1. EscalationTarget(item[i].lane, requested) \in Lanes
      BY EscalationTargetType DEF TypeOK, Row
    <3>2. RequiredFor(EscalationTarget(item[i].lane, requested), {}) \in SUBSET Roles
      BY <3>1, RequiredForType DEF Lanes, LaneAuto, LaneSingle, LaneDual
    <3> QED
      BY <1>2, <1>9, <3>2 DEF Escalate, TypeOK, Row
  <2>3. Need' = [Need EXCEPT ![i] = asked]
    BY <1>2, <1>3, <2>2 DEF Need
  <2>4. Phase' = Phase
    BY <1>2, <1>3, <2>2 DEF Phase
  <2>5. Gate!Reroute(i, asked)
    BY <1>4, <2>1, <2>3, <2>4 DEF Gate!Reroute, Phase, Need, Signed
  <2> QED
    BY <2>2, <2>5 DEF Gate!Next
<1> QED
  BY <1>5, <1>7, <1>8, <1>9 DEF Decide

\* What the requests and jobs that sign nothing do to an item: nothing the gate
\* sees, an execution of a cleared write, or the end of a waiting one.
Moves(i) ==
    \/ item'[i].status = item[i].status
    \/ item[i].status = "approved" /\ item'[i].status \in {"executed", "execution_failed"}
    \/ item[i].status = "pending" /\ item'[i].status \in {"cancelled", "suspended"}

\* They touch one item at a time and none of its signatures or roles.
LEMMA OthersMove ==
    ASSUME TypeOK, [Next]_vars,
           ~ \E i \in Items, s \in Submissions : Create(i, s),
           ~ \E i \in Items, u \in Users : Decide(u, i)
    PROVE  \/ \A j \in Items : item'[j].status = item[j].status
                               /\ item'[j].required = item[j].required
           \/ \E i \in Items : /\ Moves(i) /\ item'[i].required = item[i].required
                               /\ \A j \in Items \ {i} : item'[j] = item[j]
<1>1. CASE UNCHANGED item
  BY <1>1
<1>2. ASSUME NEW i \in Items, Execute(i) \/ CommitByHook(i) \/ Cancel(i)
      PROVE  /\ Moves(i) /\ item'[i].required = item[i].required
             /\ \A j \in Items \ {i} : item'[j] = item[j]
  <2>1. PICK status :
          /\ item' = [item EXCEPT ![i].status = status]
          /\ \/ item[i].status = "approved" /\ status \in {"executed", "execution_failed"}
             \/ item[i].status = "pending" /\ status = "cancelled"
    <3>1. CASE Execute(i)
      BY <3>1 DEF Execute
    <3>2. CASE CommitByHook(i) \/ Cancel(i)
      BY <3>2 DEF CommitByHook, Cancel
    <3> QED
      BY <1>2, <3>1, <3>2
  <2> QED
    BY <2>1 DEF Moves, TypeOK, Row
<1>3. ASSUME NEW i \in Items, LitigationHold(i)
      PROVE  /\ Moves(i) /\ item'[i].required = item[i].required
             /\ \A j \in Items \ {i} : item'[j] = item[j]
  BY <1>3, HoldRow DEF LitigationHold, Moves, TypeOK
<1> QED
  BY <1>1, <1>2, <1>3
     DEF Next, vars, SealExecution, ExecuteRefused, Crash, SlaPasses, SlaScan, Freeze

\* Executions go through the gate, cancellations and holds of pending items are
\* turned away, audit rows, crashes and scans are not seen by it.
LEMMA OthersAtGate ==
    ASSUME GateInv, [Next]_vars,
           ~ \E i \in Items, s \in Submissions : Create(i, s),
           ~ \E i \in Items, u \in Users : Decide(u, i)
    PROVE  (Gate!Next \/ UNCHANGED <<Phase, Need, Signed>>) /\ PendingIsAsked'
<1> USE DEF GateInv, OwnerInv
<1>1. \A j \in Items : Untouched(j)
  BY OtherSteps
<1>2. Signed' = Signed
  BY <1>1 DEF Untouched, Signed
<1>3. \A j \in Items : /\ item'[j].status = "none" <=> item[j].status = "none"
                       /\ BornAuto(j)' <=> BornAuto(j)
  BY <1>1 DEF Untouched
<1>4. CASE \A j \in Items : item'[j].status = item[j].status
                            /\ item'[j].required = item[j].required
  <2>1. Phase' = Phase /\ Need' = Need
    BY <1>3, <1>4 DEF Phase, Need
  <2>2. PendingIsAsked'
    BY <1>3, <1>4 DEF PendingIsAsked
  <2> QED
    BY <1>2, <2>1, <2>2
<1>5. ASSUME NEW i \in Items, Moves(i), item'[i].required = item[i].required,
             \A j \in Items \ {i} : item'[j] = item[j]
      PROVE  (Gate!Next \/ UNCHANGED <<Phase, Need, Signed>>) /\ PendingIsAsked'
  <2>1. Need' = Need
    BY <1>3, <1>5 DEF Need
  <2>2. PendingIsAsked'
    BY <1>3, <1>5 DEF PendingIsAsked, Moves
  <2>3. CASE item'[i].status = item[i].status
    <3>1. Phase' = Phase
      BY <1>5, <2>3 DEF Phase
    <3> QED
      BY <1>2, <2>1, <2>2, <3>1
  <2>4. CASE item[i].status = "approved" /\ item'[i].status \in {"executed", "execution_failed"}
    <3>1. Phase[i] = "cleared" /\ Phase' = [Phase EXCEPT ![i] = "done"]
      BY <1>5, <2>4, PhaseIs DEF Phase
    <3>2. Gate!GoThrough(i)
      BY <1>2, <2>1, <3>1 DEF Gate!GoThrough, Phase, Need, Signed
    <3> QED
      BY <2>2, <3>2 DEF Gate!Next
  <2>5. CASE item[i].status = "pending" /\ item'[i].status \in {"cancelled", "suspended"}
    <3>1. Phase[i] = "waiting" /\ Phase' = [Phase EXCEPT ![i] = "closed"]
      BY <1>5, <2>5, PhaseIs DEF Phase
    <3>2. Gate!TurnAway(i)
      BY <1>2, <2>1, <3>1 DEF Gate!TurnAway, Phase, Need, Signed
    <3> QED
      BY <2>2, <3>2 DEF Gate!Next
  <2> QED
    BY <1>5, <2>3, <2>4, <2>5 DEF Moves
<1> QED
  BY <1>4, <1>5, OthersMove

\* The approval queue of create_approval, decide_approval and execute_approval is a
\* human gate: a write passes it only with the signature of every role asked for at
\* that moment, and none that went through or was turned away comes back.
THEOREM GateProved == Spec => KeepsTheGate
<1>1. Init => Gate!Init /\ PendingIsAsked
  BY PhaseIs DEF Init, NoRow, Gate!Init, PendingIsAsked, BornAuto, SignedRoles, ApproveRecords
<1>2. GateInv /\ [Next]_vars => [Gate!Next]_(Gate!vars) /\ PendingIsAsked'
  <2> SUFFICES ASSUME GateInv, [Next]_vars
               PROVE  (Gate!Next \/ UNCHANGED <<Phase, Need, Signed>>) /\ PendingIsAsked'
    BY DEF Gate!vars, Phase, Need, Signed
  <2> QED
    BY CreateAtGate, DecideAtGate, OthersAtGate
<1>3. OwnerInv /\ PendingIsAsked => GateInv
  BY DEF GateInv
<1> QED
  BY <1>1, <1>2, <1>3, OwnerInvariant, PTL DEF Spec, KeepsTheGate, Gate!Spec
=============================================================================
