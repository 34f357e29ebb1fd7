-------------------------- MODULE MCRoundBasedMatch --------------------------
(* Instances of RoundBasedMatch for TLC. *)
EXTENDS RoundBasedMatch
=============================================================================
