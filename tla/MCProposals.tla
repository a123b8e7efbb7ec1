---------------------------- MODULE MCProposals ----------------------------
(* Two identical calls and one with other arguments. *)
EXTENDS Proposals

CONSTANTS c1, c2, c3

MCCalls == {c1, c2, c3}
MCKeyOf == [c \in MCCalls |-> IF c = c3 THEN "other" ELSE "same"]
=============================================================================
