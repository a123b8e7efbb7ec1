------------------------- MODULE MCApprovalSessions -------------------------
(* Overlapping requests on a lane-2 write, a lane-3 write, a workflow      *)
(* assignment and a deliverable, with one owner and one partner.           *)
EXTENDS ApprovalSessions, TLC

CONSTANTS charles, pat

MCUsers == {charles, pat}
MCRoleOf == [u \in MCUsers |-> IF u = charles THEN "owner" ELSE "partner"]

\* The row create_approval leaves pending on a lane.
Filed(kind, lane) ==
    [status |-> "pending", kind |-> kind, lane |-> lane, hold |-> FALSE,
     required |-> RequiredFor(lane, CreationOverride(kind, {}))]

MCRows == {Filed("agentcloud", LaneSingle), Filed("agentcloud", LaneDual),
           Filed("assignment", LaneDual), Filed("deliverable", LaneSingle)}

\* Of these the writes agent-cloud proposes.
MCWrites == {r \in MCRows : r.kind = "agentcloud"}

\* The requests are interchangeable.
SessionSymmetry == Permutations(Sessions)
=============================================================================
