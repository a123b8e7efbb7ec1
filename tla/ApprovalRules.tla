--------------------------- MODULE ApprovalRules ---------------------------
(***************************************************************************)
(* The rules of the approval queue that involve no state: lanes, the       *)
(* signatures a lane asks for, who may decide an item and when the         *)
(* signatures collected so far are enough.  Translated from                *)
(* api/app/services/approvals.py and api/app/enums.py; the transaction     *)
(* models Approvals and ApprovalSessions both build on them.               *)
(***************************************************************************)
EXTENDS Naturals

CONSTANTS
    Users,      \* rows of the users table
    RoleOf      \* RoleOf[u]: the user's role, fixed while an item is open

Roles == {"owner", "partner", "observer", "agent"}

ASSUME RolesAssumption == RoleOf \in [Users -> Roles]

\* Lane.AUTO, Lane.SINGLE, Lane.DUAL
LaneAuto   == 1
LaneSingle == 2
LaneDual   == 3
Lanes  == {LaneAuto, LaneSingle, LaneDual}

\* What the workflow string of an item decides in the code:
\*   assignment   agentcloud.workflow_assignment: owner-only, its executor is a no-op
\*   agentcloud   any other agentcloud.* write, lane floored, the executor may fail
\*   artifact     *.publish and site_advance.create_project: the executor may fail
\*   lifecycle    an artifact of an estimate or a contract, whose row a hook updates
\*   deliverable  deliverable.accept, whose deliverable a hook finalizes
\*   stub         everything else: execution only stamps a dry run
Kinds == {"assignment", "agentcloud", "artifact", "lifecycle", "deliverable", "stub"}

OwnerOnly(kind)    == kind = "assignment"
IsAgentcloud(kind) == kind \in {"assignment", "agentcloud"}
MayFail(kind)      == kind \in {"agentcloud", "artifact", "lifecycle"}
\* The hooks that run during an execution commit its session on their own.
HasHook(kind)      == kind \in {"lifecycle", "deliverable"}

\* approve and edit_then_approve differ only in the payload merge
Decisions == {"approve", "reject", "escalate"}

AtLeast(a, b) == IF a >= b THEN a ELSE b
AtMost(a, b)  == IF a <= b THEN a ELSE b

\* required_approvers_for_lane: a non-empty override replaces the lane's list
RequiredFor(lane, override) ==
    IF override # {} THEN override
    ELSE CASE lane = LaneAuto -> {}
           [] lane = LaneDual -> {"owner", "partner"}
           [] OTHER       -> {"owner"}

\* create_approval: the lane agent-cloud proposes is floored by our own policy,
\* and a workflow assignment never lands on the automatic lane.
CreationLane(kind, proposed, policyLane) ==
    LET floored == IF IsAgentcloud(kind) THEN AtLeast(proposed, policyLane) ELSE proposed
    IN  IF OwnerOnly(kind) /\ floored = LaneAuto THEN LaneDual ELSE floored

CreationOverride(kind, override) == IF OwnerOnly(kind) THEN {"owner"} ELSE override

\* The lane an escalation moves to: 0 stands for "no escalate_to_lane given".
EscalationTarget(lane, requested) ==
    IF requested # 0 THEN requested ELSE AtMost(LaneDual, lane + 1)

\* The checks decide_approval makes on the approver before it looks at records.
MayDecide(u, row) ==
    /\ OwnerOnly(row.kind) => RoleOf[u] = "owner"
    /\ \/ row.required = {}
       \/ RoleOf[u] \in row.required
       \/ RoleOf[u] = "owner"

ApproveRecords(recs) == {r \in recs : r.decision = "approve"}
HasSigned(u, recs) == \E r \in ApproveRecords(recs) : r.user = u
SignedRoles(recs) == {RoleOf[r.user] : r \in ApproveRecords(recs)}

\* required.issubset(signed_roles) or not required
Covered(required, recs) == required \subseteq SignedRoles(recs)
=============================================================================
