---------------------------- MODULE MCApprovals ----------------------------
(* The approval queue with one owner, one partner and one observer. *)
EXTENDS Approvals

CONSTANTS charles, pat, olive

MCUsers == {charles, pat, olive}
MCRoleOf == [u \in MCUsers |-> CASE u = charles -> "owner"
                                 [] u = pat -> "partner"
                                 [] u = olive -> "observer"]
=============================================================================
