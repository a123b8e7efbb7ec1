--------------------------- MODULE MCDeliverables ---------------------------
(* The persons who work on a deliverable have equal rights. *)
EXTENDS Deliverables, TLC

Symmetry == Permutations(People)
=============================================================================
