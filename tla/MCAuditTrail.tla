---------------------------- MODULE MCAuditTrail ----------------------------
(* Two requests of one process. *)
EXTENDS AuditTrail

CONSTANTS q1, q2, r1

MCRequests == {q1, q2}
MCHome     == [q \in MCRequests |-> r1]
=============================================================================
