-------------------------- MODULE MCEgressPushers --------------------------
(***************************************************************************)
(* Instances of EgressPushers for TLC: maps and slots are interchangeable. *)
(***************************************************************************)
EXTENDS EgressPushers, TLC

Symmetry == Permutations(Maps) \cup Permutations(Slots)

=============================================================================
